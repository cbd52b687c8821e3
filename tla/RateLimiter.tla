---------------------------- MODULE RateLimiter ----------------------------
(***************************************************************************)
(* The token-bucket limiter of server/ratelimit.go: Allow, called by       *)
(* concurrent request handlers, against the goroutine that drops idle      *)
(* buckets.  rl.mu guards the map and b.mu one bucket; Allow releases      *)
(* rl.mu between its lookup and what it does next, so a bucket it found    *)
(* may have left the map, and one it missed may have been put there.       *)
(* Time is counted in ticks and Rate in tokens per tick.                   *)
(***************************************************************************)
EXTENDS Integers, FiniteSets

CONSTANTS Keys,      \* what getClientIP returns
          Callers,   \* goroutines inside Allow
          Buckets,   \* the bucket objects that may be allocated
          Rate,      \* requests_per_second
          Burst,     \* burst
          Interval,  \* cleanupInterval
          MaxTime,   \* bound: the clock stops here
          NoBucket, NoKey

ASSUME LimiterAssumption ==
  /\ Rate \in Nat /\ Burst \in Nat /\ Interval \in Nat /\ MaxTime \in Nat
  /\ NoBucket \notin Buckets /\ NoKey \notin Keys

VARIABLES
  buckets,    \* rl.buckets
  tokens,     \* b.tokens
  lastCheck,  \* b.lastCheck
  now,
  pc, key, found,   \* one call of Allow and its local variables
  made,       \* history: when a bucket was allocated
  granted,    \* history: the requests a bucket has let through
  admitted,   \* history: the requests a key has had let through
  raced       \* history: the keys of which two calls, or a call and the
              \* cleanup, have overlapped

vars == <<buckets, tokens, lastCheck, now, pc, key, found, made, granted, admitted, raced>>

TypeOK ==
  /\ buckets \in [Keys -> Buckets \cup {NoBucket}]
  /\ tokens \in [Buckets -> -1..Burst]
  /\ lastCheck \in [Buckets -> Nat]
  /\ now \in Nat
  /\ pc \in [Callers -> {"idle", "create", "take"}]
  /\ key \in [Callers -> Keys \cup {NoKey}]
  /\ found \in [Callers -> Buckets \cup {NoBucket}]
  /\ made \in [Buckets -> Nat]
  /\ granted \in [Buckets -> Nat]
  /\ admitted \in [Keys -> Nat]
  /\ raced \in SUBSET Keys

Init ==
  /\ buckets = [k \in Keys |-> NoBucket]
  /\ tokens = [b \in Buckets |-> 0]
  /\ lastCheck = [b \in Buckets |-> 0]
  /\ now = 0
  /\ pc = [c \in Callers |-> "idle"]
  /\ key = [c \in Callers |-> NoKey]
  /\ found = [c \in Callers |-> NoBucket]
  /\ made = [b \in Buckets |-> 0]
  /\ granted = [b \in Buckets |-> 0]
  /\ admitted = [k \in Keys |-> 0]
  /\ raced = {}

\* The bucket objects the map or a call of Allow refers to.
InUse == {b \in Buckets : (\E k \in Keys : buckets[k] = b) \/ (\E c \in Callers : found[c] = b)}

Return(c) ==
  /\ pc' = [pc EXCEPT ![c] = "idle"]
  /\ key' = [key EXCEPT ![c] = NoKey]
  /\ found' = [found EXCEPT ![c] = NoBucket]

\* The lookup of Allow under the read lock.
Lookup(c, k) ==
  /\ pc[c] = "idle"
  /\ key' = [key EXCEPT ![c] = k]
  /\ found' = [found EXCEPT ![c] = buckets[k]]
  /\ pc' = [pc EXCEPT ![c] = IF buckets[k] = NoBucket THEN "create" ELSE "take"]
  /\ raced' = IF \E d \in Callers : key[d] = k THEN raced \cup {k} ELSE raced
  /\ UNCHANGED <<buckets, tokens, lastCheck, now, made, granted, admitted>>

\* Fault: a new bucket is filled before the request is charged to it.
FirstTokensUncharged == Burst

\* tokens: float64(rl.burst) - 1.
FirstTokens == Burst - 1

\* The miss: a new bucket, an object nothing refers to, replaces whatever the
\* map holds for the key by now.
Create(c, b) ==
  /\ pc[c] = "create" /\ b \notin InUse
  /\ tokens' = [tokens EXCEPT ![b] = FirstTokens]
  /\ lastCheck' = [lastCheck EXCEPT ![b] = now]
  /\ buckets' = [buckets EXCEPT ![key[c]] = b]
  /\ made' = [made EXCEPT ![b] = now]
  /\ granted' = [granted EXCEPT ![b] = 1]
  /\ admitted' = [admitted EXCEPT ![key[c]] = @ + 1]
  /\ Return(c)
  /\ UNCHANGED <<now, raced>>

\* min(burst, tokens + elapsed * rate)
Refilled(b) ==
  LET t == tokens[b] + (now - lastCheck[b]) * Rate
  IN IF Burst < t THEN Burst ELSE t

\* Fault: the time of the refill is not kept, so the same ticks pay again.
TakeUndated(c) ==
  LET b == found[c]
      t == Refilled(b)
  IN /\ pc[c] = "take"
     /\ \/ /\ t >= 1
           /\ tokens' = [tokens EXCEPT ![b] = t - 1]
           /\ granted' = [granted EXCEPT ![b] = @ + 1]
           /\ admitted' = [admitted EXCEPT ![key[c]] = @ + 1]
        \/ /\ t < 1
           /\ tokens' = [tokens EXCEPT ![b] = t]
           /\ UNCHANGED <<granted, admitted>>
     /\ Return(c)
     /\ UNCHANGED <<buckets, lastCheck, now, made, raced>>

\* The hit: refill and, if there is one, take a token, under b.mu.
Take(c) ==
  LET b == found[c]
      t == Refilled(b)
  IN /\ pc[c] = "take"
     /\ lastCheck' = [lastCheck EXCEPT ![b] = now]
     /\ \/ /\ t >= 1
           /\ tokens' = [tokens EXCEPT ![b] = t - 1]
           /\ granted' = [granted EXCEPT ![b] = @ + 1]
           /\ admitted' = [admitted EXCEPT ![key[c]] = @ + 1]
        \/ /\ t < 1
           /\ tokens' = [tokens EXCEPT ![b] = t]
           /\ UNCHANGED <<granted, admitted>>
     /\ Return(c)
     /\ UNCHANGED <<buckets, now, made, raced>>

\* Fault: the age is compared the wrong way round.
StaleInverted(b) == now - lastCheck[b] <= Interval

Stale(b) == now - lastCheck[b] > Interval

Dropped == {k \in Keys : buckets[k] # NoBucket /\ Stale(buckets[k])}

\* One pass of cleanupLoop, under rl.mu; what it reads of a bucket it acts on
\* before it releases b.mu.
Cleanup ==
  /\ Dropped # {}
  /\ buckets' = [k \in Keys |-> IF k \in Dropped THEN NoBucket ELSE buckets[k]]
  /\ raced' = raced \cup {k \in Dropped : \E c \in Callers : key[c] = k}
  /\ UNCHANGED <<tokens, lastCheck, now, pc, key, found, made, granted, admitted>>

Tick ==
  /\ now < MaxTime
  /\ now' = now + 1
  /\ UNCHANGED <<buckets, tokens, lastCheck, pc, key, found, made, granted,
                 admitted, raced>>

Next ==
  \/ \E c \in Callers :
       \/ \E k \in Keys : Lookup(c, k)
       \/ \E b \in Buckets : Create(c, b)
       \/ Take(c)
  \/ Cleanup
  \/ Tick

Spec == Init /\ [][Next]_vars

-----------------------------------------------------------------------------
(* Properties *)

Most(x, y) == IF x >= y THEN x ELSE y

\* An idle pass earns a full bucket: configs/server.yaml:37 gives 10 per second
\* and a burst of 20, ratelimit.go:32 five minutes.
Replenishes == Rate > 0 /\ Burst <= Interval * Rate

\* One bucket object never lets through more than its burst and what it has
\* earned since Allow made it, however its callers interleave and even after
\* the cleanup has dropped it from under a call (ratelimit.go:59-74).  A bucket
\* of burst 0 still admits the request that makes it.
BucketBound ==
  \A b \in Buckets : granted[b] <= Most(Burst, 1) + (now - made[b]) * Rate

\* The accounting behind the bound: the requests a bucket has let through and
\* the tokens it has left were there when Allow made it or earned since.
Ledger ==
  \A b \in Buckets :
    /\ granted[b] + tokens[b] <= Burst + (lastCheck[b] - made[b]) * Rate
    /\ tokens[b] >= 0 \/ Burst = 0
    /\ made[b] <= lastCheck[b] /\ lastCheck[b] <= now

\* A call of Allow knows its key while it runs, and its bucket when it found one.
CallsInv ==
  \A c \in Callers : /\ pc[c] = "idle" <=> key[c] = NoKey
                     /\ pc[c] = "take" <=> found[c] # NoBucket

\* A bucket in the map is the bucket of one key, and of the calls with that key.
OwnersInv ==
  /\ \A k, l \in Keys : buckets[k] = buckets[l] /\ buckets[k] # NoBucket => k = l
  /\ \A c \in Callers, k \in Keys :
       found[c] = buckets[k] /\ buckets[k] # NoBucket => key[c] = k

\* One call at a time serves a key that has not raced, and what its lookup
\* found is what the map still holds.
SerialInv ==
  \A k \in Keys \ raced : \A c \in Callers : key[c] = k =>
    /\ found[c] = buckets[k]
    /\ \A d \in Callers : key[d] = k => c = d

\* What a key was granted and has left, across buckets: the one it has takes
\* over the account of those dropped before it.
Balanced(k) ==
  /\ buckets[k] = NoBucket => admitted[k] <= now * Rate
  /\ buckets[k] # NoBucket =>
       admitted[k] + tokens[buckets[k]] <= Burst + lastCheck[buckets[k]] * Rate

KeyLedger == Replenishes => \A k \in Keys \ raced : Balanced(k)

\* Inductive.
IInv == TypeOK /\ CallsInv /\ Ledger /\ OwnersInv /\ SerialInv /\ KeyLedger

\* Dropping a bucket forgives nobody: one that cleanupLoop drops would have
\* been full, so the bucket that replaces it grants no more than it would have.
CleanupForgivesNothing ==
  [][\A k \in Keys :
       Replenishes /\ buckets[k] # NoBucket /\ buckets'[k] = NoBucket
         => Refilled(buckets[k]) = Burst]_vars

\* A key whose requests are served one at a time gets what one token bucket
\* allows, also across cleanupLoop dropping and Allow remaking its bucket.  The
\* key is what getClientIP returns: the X-Forwarded-For header, or else the
\* address with its port, so each connection of a client has one of its own.
SerialKeyBound ==
  Replenishes =>
    \A k \in Keys \ raced : admitted[k] <= Most(Burst, 1) + now * Rate

\* ratelimit.go:8, "token bucket rate limiter per IP", and :13, "maximum
\* bucket size": what one address gets is bounded whatever overlaps.
KeyBound == \A k \in Keys : admitted[k] <= Most(Burst, 1) + now * Rate

=============================================================================
