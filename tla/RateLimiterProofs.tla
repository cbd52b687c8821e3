------------------------- MODULE RateLimiterProofs -------------------------
(***************************************************************************)
(* What RateLimiter promises for every number of keys, callers and buckets *)
(* and every rate and burst: the ledger of each bucket balances, so no     *)
(* bucket lets through more than its burst and what it has earned; the     *)
(* cleanup drops only buckets that would be full again; and so the account *)
(* of a key balances across all the buckets it has had, unless two of its  *)
(* requests overlap.                                                       *)
(***************************************************************************)
EXTENDS RateLimiter, TLAPS

\* What is earned in two spans is earned in their sum.
LEMMA Earned ==
  ASSUME NEW r \in Nat, NEW x \in Nat, NEW y \in Nat, NEW z \in Nat
  PROVE  /\ (y - x) * r \in Int
         /\ (z - y) * r + (y - x) * r = (z - x) * r
         /\ x <= y => (y - x) * r >= 0
         /\ (z - x) * r = z * r - x * r
OBVIOUS

\* TypeOK and CallsInv: every step of the limiter preserves them.  The conjunct
\* that takes work is that no bucket holds more than its burst, nor less than -1.
LEMMA TypeStep == IInv /\ [Next]_vars => TypeOK' /\ CallsInv'
<1> SUFFICES ASSUME TypeOK, CallsInv, Ledger, [Next]_vars PROVE TypeOK' /\ CallsInv'
  BY DEF IInv
<1> USE LimiterAssumption
<1>1. ASSUME NEW c \in Callers, NEW k \in Keys, Lookup(c, k) PROVE TypeOK' /\ CallsInv'
  <2>1. TypeOK'
    BY <1>1 DEF TypeOK, Lookup
  <2>2. CallsInv'
    BY <1>1 DEF TypeOK, CallsInv, Lookup
  <2>3. QED
    BY <2>1, <2>2
<1>2. ASSUME NEW c \in Callers, NEW b \in Buckets, Create(c, b) PROVE TypeOK' /\ CallsInv'
  <2>1. key[c] \in Keys /\ FirstTokens \in -1..Burst
    BY <1>2 DEF TypeOK, CallsInv, Create, FirstTokens
  <2>2. tokens' \in [Buckets -> -1..Burst] /\ lastCheck' \in [Buckets -> Nat]
    BY <1>2, <2>1 DEF TypeOK, Create
  <2>3. made' \in [Buckets -> Nat] /\ granted' \in [Buckets -> Nat] /\ now' \in Nat
    BY <1>2 DEF TypeOK, Create
  <2>4. admitted' \in [Keys -> Nat] /\ raced' \in SUBSET Keys
    BY <1>2, <2>1 DEF TypeOK, Create
  <2>5. buckets' \in [Keys -> Buckets \cup {NoBucket}]
    BY <1>2, <2>1 DEF TypeOK, Create
  <2>6. /\ pc' \in [Callers -> {"idle", "create", "take"}]
        /\ key' \in [Callers -> Keys \cup {NoKey}]
        /\ found' \in [Callers -> Buckets \cup {NoBucket}]
    BY <1>2 DEF TypeOK, Create, Return
  <2>7. CallsInv'
    BY <1>2 DEF TypeOK, CallsInv, Create, Return
  <2>8. QED
    BY <2>2, <2>3, <2>4, <2>5, <2>6, <2>7 DEF TypeOK
<1>3. ASSUME NEW c \in Callers, Take(c) PROVE TypeOK' /\ CallsInv'
  <2> DEFINE b == found[c]
             t == Refilled(b)
  <2>1. key[c] \in Keys /\ b \in Buckets
    BY <1>3 DEF TypeOK, CallsInv, Take
  <2>2. t \in -1..Burst
    <3>1. lastCheck[b] <= now /\ tokens[b] \in -1..Burst /\ lastCheck[b] \in Nat /\ now \in Nat
      BY <2>1 DEF TypeOK, Ledger
    <3>2. (now - lastCheck[b]) * Rate \in Int /\ (now - lastCheck[b]) * Rate >= 0
      BY <3>1, Earned
    <3>3. QED
      BY <3>1, <3>2 DEF Refilled
  <2>3. tokens' \in [Buckets -> -1..Burst]
    BY <1>3, <2>1, <2>2 DEF TypeOK, Take
  <2>4. lastCheck' \in [Buckets -> Nat] /\ made' \in [Buckets -> Nat] /\ now' \in Nat
    BY <1>3 DEF TypeOK, Take
  <2>5. granted' \in [Buckets -> Nat] /\ admitted' \in [Keys -> Nat]
    BY <1>3, <2>1 DEF TypeOK, Take
  <2>6. /\ pc' \in [Callers -> {"idle", "create", "take"}]
        /\ key' \in [Callers -> Keys \cup {NoKey}]
        /\ found' \in [Callers -> Buckets \cup {NoBucket}]
        /\ buckets' \in [Keys -> Buckets \cup {NoBucket}]
        /\ raced' \in SUBSET Keys
    BY <1>3 DEF TypeOK, Take, Return
  <2>7. CallsInv'
    BY <1>3 DEF TypeOK, CallsInv, Take, Return
  <2>8. QED
    BY <2>3, <2>4, <2>5, <2>6, <2>7 DEF TypeOK
<1>4. CASE Cleanup
  <2>1. buckets' \in [Keys -> Buckets \cup {NoBucket}] /\ raced' \in SUBSET Keys
    BY <1>4 DEF TypeOK, Cleanup, Dropped
  <2>2. CallsInv' /\ UNCHANGED <<tokens, lastCheck, now, pc, key, found, made, granted, admitted>>
    BY <1>4 DEF CallsInv, Cleanup
  <2>3. QED
    BY <2>1, <2>2 DEF TypeOK
<1>5. CASE Tick
  BY <1>5 DEF TypeOK, CallsInv, Tick
<1>6. CASE UNCHANGED vars
  BY <1>6 DEF TypeOK, CallsInv, vars
<1>7. QED
  BY <1>1, <1>2, <1>3, <1>4, <1>5, <1>6 DEF Next

\* Every step of the limiter keeps the ledger of every bucket: Create opens one,
\* Take books a refill and a request, and the others touch none.
LEMMA LedgerStep == IInv /\ [Next]_vars => Ledger'
<1> SUFFICES ASSUME IInv, [Next]_vars, NEW b \in Buckets
             PROVE  /\ granted'[b] + tokens'[b] <= Burst + (lastCheck'[b] - made'[b]) * Rate
                    /\ tokens'[b] >= 0 \/ Burst = 0
                    /\ made'[b] <= lastCheck'[b] /\ lastCheck'[b] <= now'
  BY DEF Ledger
<1> USE LimiterAssumption
<1>1. /\ granted[b] \in Nat /\ tokens[b] \in -1..Burst
      /\ lastCheck[b] \in Nat /\ made[b] \in Nat /\ now \in Nat
      /\ granted[b] + tokens[b] <= Burst + (lastCheck[b] - made[b]) * Rate
      /\ tokens[b] >= 0 \/ Burst = 0
      /\ made[b] <= lastCheck[b] /\ lastCheck[b] <= now
  BY DEF IInv, TypeOK, Ledger
<1>2. CASE UNCHANGED <<granted, tokens, lastCheck, made>> /\ now' \in {now, now + 1}
  BY <1>1, <1>2
<1>3. ASSUME NEW c \in Callers, NEW k \in Keys, Lookup(c, k)
      PROVE  UNCHANGED <<granted, tokens, lastCheck, made>> /\ now' \in {now, now + 1}
  BY <1>3 DEF Lookup
<1>4. ASSUME NEW c \in Callers, NEW d \in Buckets, Create(c, d), d # b
      PROVE  /\ granted'[b] = granted[b] /\ tokens'[b] = tokens[b] /\ now' = now
             /\ lastCheck'[b] = lastCheck[b] /\ made'[b] = made[b]
  BY <1>4 DEF Create, IInv, TypeOK
<1>5. ASSUME NEW c \in Callers, Create(c, b)
      PROVE  /\ granted'[b] = 1 /\ tokens'[b] = Burst - 1 /\ now' = now
             /\ lastCheck'[b] = now /\ made'[b] = now
  BY <1>5 DEF Create, IInv, TypeOK, FirstTokens
<1>6. ASSUME NEW c \in Callers, Take(c), found[c] # b
      PROVE  /\ granted'[b] = granted[b] /\ tokens'[b] = tokens[b] /\ now' = now
             /\ lastCheck'[b] = lastCheck[b] /\ made'[b] = made[b]
  BY <1>6 DEF Take, IInv, TypeOK
<1>7. ASSUME NEW c \in Callers, Take(c), found[c] = b
      PROVE  /\ granted'[b] + tokens'[b] <= Burst + (lastCheck'[b] - made'[b]) * Rate
             /\ tokens'[b] >= 0 \/ Burst = 0
             /\ made'[b] <= lastCheck'[b] /\ lastCheck'[b] <= now'
  <2>1. /\ granted'[b] + tokens'[b] = granted[b] + Refilled(b)
        /\ tokens'[b] = IF Refilled(b) >= 1 THEN Refilled(b) - 1 ELSE Refilled(b)
        /\ lastCheck'[b] = now /\ made'[b] = made[b] /\ now' = now
    <3>1. Refilled(b) \in Int
      BY <1>1, Earned DEF Refilled
    <3>2. /\ tokens \in [Buckets -> -1..Burst] /\ granted \in [Buckets -> Nat]
          /\ lastCheck \in [Buckets -> Nat]
      BY DEF IInv, TypeOK
    <3>3. /\ lastCheck' = [lastCheck EXCEPT ![b] = now] /\ made' = made /\ now' = now
          /\ \/ /\ Refilled(b) >= 1
                /\ tokens' = [tokens EXCEPT ![b] = Refilled(b) - 1]
                /\ granted' = [granted EXCEPT ![b] = @ + 1]
             \/ /\ Refilled(b) < 1
                /\ tokens' = [tokens EXCEPT ![b] = Refilled(b)]
                /\ granted' = granted
      BY <1>7 DEF Take
    <3>4. CASE Refilled(b) >= 1
      BY <1>1, <3>1, <3>2, <3>3, <3>4
    <3>5. CASE Refilled(b) < 1
      BY <1>1, <3>1, <3>2, <3>3, <3>5
    <3>6. QED
      BY <3>1, <3>4, <3>5
  <2>2. /\ (now - lastCheck[b]) * Rate \in Int
        /\ (now - lastCheck[b]) * Rate >= 0
        /\ (lastCheck[b] - made[b]) * Rate \in Int
        /\ (now - made[b]) * Rate \in Int
        /\ (now - lastCheck[b]) * Rate + (lastCheck[b] - made[b]) * Rate = (now - made[b]) * Rate
    BY <1>1, Earned
  <2>3. Refilled(b) \in Int /\ Refilled(b) <= tokens[b] + (now - lastCheck[b]) * Rate
    BY <1>1, <2>2 DEF Refilled
  <2>4. Refilled(b) >= 0 \/ Burst = 0
    BY <1>1, <2>2 DEF Refilled
  <2>5. granted'[b] + tokens'[b] <= Burst + (now - made[b]) * Rate
    BY <1>1, <2>1, <2>2, <2>3
  <2>6. tokens'[b] >= 0 \/ Burst = 0
    BY <2>1, <2>3, <2>4
  <2>7. QED
    BY <1>1, <2>1, <2>5, <2>6
<1>8. CASE \E c \in Callers : (\E d \in Buckets : Create(c, d)) \/ Take(c)
  <2>1. CASE \E c \in Callers : Create(c, b)
    BY <1>1, <1>5, <2>1
  <2>2. CASE \E c \in Callers, d \in Buckets : Create(c, d) /\ d # b
    BY <1>1, <1>4, <2>2
  <2>3. CASE \E c \in Callers : Take(c) /\ found[c] = b
    BY <1>7, <2>3
  <2>4. CASE \E c \in Callers : Take(c) /\ found[c] # b
    BY <1>1, <1>6, <2>4
  <2>5. QED
    BY <1>8, <2>1, <2>2, <2>3, <2>4
<1>9. CASE Cleanup \/ Tick \/ UNCHANGED vars
  BY <1>2, <1>9 DEF Cleanup, Tick, vars
<1>10. QED
  BY <1>2, <1>3, <1>8, <1>9 DEF Next

\* Whose bucket is whose: a new bucket is an object that neither the map nor a
\* call refers to, so no step makes two keys share one.
LEMMA OwnersStep == IInv /\ [Next]_vars => OwnersInv'
<1> SUFFICES ASSUME TypeOK, CallsInv, OwnersInv, [Next]_vars PROVE OwnersInv'
  BY DEF IInv
<1> USE LimiterAssumption
<1>1. /\ buckets \in [Keys -> Buckets \cup {NoBucket}] /\ key \in [Callers -> Keys \cup {NoKey}]
      /\ found \in [Callers -> Buckets \cup {NoBucket}]
  BY DEF TypeOK
<1>2. ASSUME NEW c \in Callers, NEW k \in Keys, Lookup(c, k) PROVE OwnersInv'
  <2>1. /\ buckets' = buckets /\ found' = [found EXCEPT ![c] = buckets[k]]
        /\ key' = [key EXCEPT ![c] = k]
    BY <1>2 DEF Lookup
  <2> QED
    BY <1>1, <2>1 DEF OwnersInv
<1>3. ASSUME NEW c \in Callers, NEW b \in Buckets, Create(c, b) PROVE OwnersInv'
  <2>1. /\ key[c] \in Keys /\ b # NoBucket
        /\ buckets' = [buckets EXCEPT ![key[c]] = b]
        /\ found' = [found EXCEPT ![c] = NoBucket] /\ key' = [key EXCEPT ![c] = NoKey]
    BY <1>1, <1>3 DEF CallsInv, Create, Return
  <2>2. (\A k \in Keys : buckets[k] # b) /\ (\A d \in Callers : found[d] # b)
    BY <1>3 DEF Create, InUse
  <2>3. ASSUME NEW k \in Keys, NEW l \in Keys, buckets'[k] = buckets'[l], buckets'[k] # NoBucket
        PROVE  k = l
    BY <1>1, <2>1, <2>2, <2>3 DEF OwnersInv
  <2>4. ASSUME NEW d \in Callers, NEW k \in Keys, found'[d] = buckets'[k], buckets'[k] # NoBucket
        PROVE  key'[d] = k
    BY <1>1, <2>1, <2>2, <2>4 DEF OwnersInv
  <2> QED
    BY <2>3, <2>4 DEF OwnersInv
<1>4. ASSUME NEW c \in Callers, Take(c) PROVE OwnersInv'
  <2>1. /\ buckets' = buckets /\ found' = [found EXCEPT ![c] = NoBucket]
        /\ key' = [key EXCEPT ![c] = NoKey]
    BY <1>4 DEF Take, Return
  <2> QED
    BY <1>1, <2>1 DEF OwnersInv
<1>5. CASE Cleanup
  <2>1. /\ key' = key /\ found' = found
        /\ \A k \in Keys : buckets'[k] \in {buckets[k], NoBucket}
    BY <1>5 DEF Cleanup
  <2> QED
    BY <2>1 DEF OwnersInv
<1>6. CASE Tick \/ UNCHANGED vars
  BY <1>6 DEF OwnersInv, Tick, vars
<1> QED
  BY <1>2, <1>3, <1>4, <1>5, <1>6 DEF Next

\* A second call with one key, and a pass of the cleanup that drops the bucket
\* of a running call, make the key a raced one; nothing else comes between the
\* lookup of a call and its end.
LEMMA SerialStep == IInv /\ [Next]_vars => SerialInv'
<1> SUFFICES ASSUME TypeOK, CallsInv, SerialInv, [Next]_vars PROVE SerialInv'
  BY DEF IInv
<1> USE LimiterAssumption
<1>1. /\ buckets \in [Keys -> Buckets \cup {NoBucket}] /\ key \in [Callers -> Keys \cup {NoKey}]
      /\ found \in [Callers -> Buckets \cup {NoBucket}]
  BY DEF TypeOK
<1>2. ASSUME NEW c \in Callers, NEW k \in Keys, Lookup(c, k) PROVE SerialInv'
  <2>1. /\ buckets' = buckets /\ found' = [found EXCEPT ![c] = buckets[k]]
        /\ key' = [key EXCEPT ![c] = k]
        /\ raced' = IF \E d \in Callers : key[d] = k THEN raced \cup {k} ELSE raced
    BY <1>2 DEF Lookup
  <2>2. ASSUME NEW l \in Keys \ raced', NEW d \in Callers, key'[d] = l
        PROVE  found'[d] = buckets'[l] /\ \A e \in Callers : key'[e] = l => d = e
    <3>1. CASE l = k
      BY <1>1, <2>1, <2>2, <3>1
    <3>2. CASE l # k
      <4>1. l \in Keys \ raced /\ d # c /\ key[d] = l
        BY <1>1, <2>1, <2>2, <3>2
      <4>2. found[d] = buckets[l] /\ \A e \in Callers : key[e] = l => d = e
        BY <4>1 DEF SerialInv
      <4> QED
        BY <1>1, <2>1, <3>2, <4>1, <4>2
    <3> QED
      BY <3>1, <3>2
  <2> QED
    BY <2>2 DEF SerialInv
<1>3. ASSUME NEW c \in Callers, raced' = raced,
             key' = [key EXCEPT ![c] = NoKey], found' = [found EXCEPT ![c] = NoBucket],
             \A l \in Keys \ {key[c]} : buckets'[l] = buckets[l]
      PROVE  SerialInv'
  <2> SUFFICES ASSUME NEW l \in Keys \ raced, NEW d \in Callers, key'[d] = l
               PROVE  found'[d] = buckets'[l] /\ \A e \in Callers : key'[e] = l => d = e
    BY <1>3 DEF SerialInv
  <2>1. d # c /\ key[d] = l
    BY <1>1, <1>3
  <2>2. /\ found[d] = buckets[l] /\ \A e \in Callers : key[e] = l => d = e
        /\ key[c] # l
    BY <2>1 DEF SerialInv
  <2> QED
    BY <1>1, <1>3, <2>1, <2>2
<1>4. ASSUME NEW c \in Callers, NEW b \in Buckets, Create(c, b) PROVE SerialInv'
  BY <1>1, <1>3, <1>4 DEF Create, Return
<1>5. ASSUME NEW c \in Callers, Take(c) PROVE SerialInv'
  BY <1>1, <1>3, <1>5 DEF Take, Return
<1>6. CASE Cleanup
  <2>1. /\ key' = key /\ found' = found
        /\ raced' = raced \cup {k \in Dropped : \E c \in Callers : key[c] = k}
        /\ \A k \in Keys \ Dropped : buckets'[k] = buckets[k]
    BY <1>6 DEF Cleanup
  <2> QED
    BY <2>1 DEF SerialInv
<1>7. CASE Tick \/ UNCHANGED vars
  BY <1>7 DEF SerialInv, Tick, vars
<1> QED
  BY <1>2, <1>4, <1>5, <1>6, <1>7 DEF Next

\* A bucket idle for longer than the interval would be full again: an idle pass
\* earns a burst.
LEMMA DroppedFull ==
  ASSUME IInv, Replenishes, NEW k \in Dropped
  PROVE  Refilled(buckets[k]) = Burst
<1> DEFINE b == buckets[k]
           d == now - lastCheck[b]
<1>1. /\ b \in Buckets /\ Rate \in Nat /\ Burst \in Nat /\ Interval \in Nat
      /\ Rate > 0 /\ Burst <= Interval * Rate
      /\ tokens[b] \in -1..Burst /\ (tokens[b] >= 0 \/ Burst = 0)
      /\ d \in Nat /\ d >= Interval + 1
  BY LimiterAssumption DEF IInv, TypeOK, Ledger, Dropped, Stale, Replenishes
<1>2. d * Rate \in Int /\ d * Rate >= Burst + 1
  <2> DEFINE e == d - (Interval + 1)
  <2>1. e \in Nat /\ d = Interval + 1 + e
    BY <1>1
  <2>2. d * Rate = Interval * Rate + Rate + e * Rate
    BY <1>1, <2>1
  <2>3. e * Rate \in Nat
    BY <1>1
  <2> QED
    BY <1>1, <2>2, <2>3
<1> QED
  BY <1>1, <1>2 DEF Refilled

\* Every step keeps the account of a key that has not raced: a bucket is made
\* on what the dropped ones left, and dropped when it is full.
LEMMA KeyStep == IInv /\ [Next]_vars => KeyLedger'
<1> SUFFICES ASSUME IInv, [Next]_vars, Replenishes, NEW k \in Keys, k \notin raced'
             PROVE  Balanced(k)'
  BY DEF KeyLedger, Replenishes
<1> DEFINE b == buckets[k]
<1>1. /\ buckets \in [Keys -> Buckets \cup {NoBucket}] /\ key \in [Callers -> Keys \cup {NoKey}]
      /\ found \in [Callers -> Buckets \cup {NoBucket}] /\ admitted \in [Keys -> Nat]
      /\ tokens \in [Buckets -> -1..Burst] /\ lastCheck \in [Buckets -> Nat]
      /\ now \in Nat /\ Rate \in Nat /\ Burst \in Nat /\ NoBucket \notin Buckets
  BY LimiterAssumption DEF IInv, TypeOK
<1>2. b # NoBucket => b \in Buckets /\ lastCheck[b] <= now
  BY <1>1 DEF IInv, Ledger
<1>3. k \notin raced
  BY DEF Next, Lookup, Create, Take, Cleanup, Tick, vars
<1>4. /\ b = NoBucket => admitted[k] <= now * Rate
      /\ b # NoBucket => admitted[k] + tokens[b] <= Burst + lastCheck[b] * Rate
  BY <1>3 DEF IInv, KeyLedger, Balanced
<1>5. now * Rate \in Nat
  BY <1>1
<1>6. ASSUME buckets'[k] = b, admitted'[k] = admitted[k], now' = now,
             b # NoBucket => tokens'[b] = tokens[b] /\ lastCheck'[b] = lastCheck[b]
      PROVE  Balanced(k)'
  BY <1>4, <1>6 DEF Balanced
<1>7. ASSUME NEW c \in Callers, NEW l \in Keys, Lookup(c, l) PROVE Balanced(k)'
  BY <1>6, <1>7 DEF Lookup
<1>8. ASSUME NEW c \in Callers, NEW a \in Buckets, Create(c, a) PROVE Balanced(k)'
  <2>1. /\ tokens' = [tokens EXCEPT ![a] = FirstTokens]
        /\ lastCheck' = [lastCheck EXCEPT ![a] = now]
        /\ buckets' = [buckets EXCEPT ![key[c]] = a]
        /\ admitted' = [admitted EXCEPT ![key[c]] = @ + 1]
        /\ now' = now /\ a # b
    BY <1>8 DEF Create, InUse
  <2>2. CASE key[c] = k
    <3>1. b = NoBucket
      BY <1>3, <1>8, <2>2 DEF IInv, CallsInv, SerialInv, Create
    <3>2. /\ buckets'[k] = a /\ admitted'[k] = admitted[k] + 1 /\ tokens'[a] = Burst - 1
          /\ lastCheck'[a] = now
      BY <1>1, <2>1, <2>2 DEF FirstTokens
    <3>3. admitted[k] \in Nat /\ admitted[k] <= now * Rate /\ a # NoBucket
      BY <1>1, <1>4, <3>1
    <3> QED
      BY <1>1, <1>5, <3>2, <3>3 DEF Balanced
  <2>3. CASE key[c] # k
    BY <1>1, <1>2, <1>6, <2>1, <2>3
  <2> QED
    BY <2>2, <2>3
<1>9. ASSUME NEW c \in Callers, Take(c) PROVE Balanced(k)'
  <2> DEFINE a == found[c]
             t == Refilled(a)
  <2>1. a # NoBucket /\ a \in Buckets /\ lastCheck[a] <= now
    BY <1>1, <1>9 DEF IInv, CallsInv, Ledger, Take
  <2>2. /\ lastCheck' = [lastCheck EXCEPT ![a] = now] /\ buckets' = buckets /\ now' = now
        /\ \/ /\ t >= 1 /\ tokens' = [tokens EXCEPT ![a] = t - 1]
              /\ admitted' = [admitted EXCEPT ![key[c]] = @ + 1]
           \/ /\ t < 1 /\ tokens' = [tokens EXCEPT ![a] = t]
              /\ admitted' = admitted
    BY <1>9 DEF Take
  <2>3. CASE key[c] = k
    <3>1. a = b
      BY <1>3, <2>3 DEF IInv, SerialInv
    <3>2. /\ (now - lastCheck[a]) * Rate \in Int /\ lastCheck[a] * Rate \in Int
          /\ (now - lastCheck[a]) * Rate + lastCheck[a] * Rate = now * Rate
      <4>1. lastCheck[a] \in Nat
        BY <1>1, <2>1
      <4>2. /\ (now - lastCheck[a]) * Rate = now * Rate - lastCheck[a] * Rate
            /\ (now - lastCheck[a]) * Rate \in Int
        BY <1>1, <4>1, Earned
      <4>3. lastCheck[a] * Rate \in Int
        BY <1>1, <4>1
      <4> QED
        BY <1>5, <4>2, <4>3
    <3>3. t \in Int /\ t <= tokens[a] + (now - lastCheck[a]) * Rate /\ tokens[a] \in Int
      BY <1>1, <2>1, <3>2 DEF Refilled
    <3>4. /\ lastCheck'[a] = now /\ admitted'[k] \in Nat /\ tokens'[a] \in Int
          /\ admitted'[k] + tokens'[a] = admitted[k] + t
      <4>1. CASE t >= 1
        BY <1>1, <2>1, <2>2, <2>3, <3>3, <4>1
      <4>2. CASE t < 1
        BY <1>1, <2>1, <2>2, <2>3, <3>3, <4>2
      <4> QED
        BY <3>3, <4>1, <4>2
    <3>5. admitted[k] + tokens[a] <= Burst + lastCheck[a] * Rate /\ admitted[k] \in Nat
      BY <1>1, <1>4, <2>1, <3>1
    <3>6. admitted[k] + t <= Burst + now * Rate
      <4> HIDE DEF t
      <4> QED
        BY <1>1, <1>5, <3>2, <3>3, <3>5
    <3> QED
      BY <2>1, <2>2, <3>1, <3>4, <3>6 DEF Balanced
  <2>4. CASE key[c] # k
    <3>1. b # a \/ b = NoBucket
      BY <2>4 DEF IInv, OwnersInv
    <3>2. admitted'[k] = admitted[k]
      BY <1>1, <2>2, <2>4
    <3>3. b # NoBucket => tokens'[b] = tokens[b] /\ lastCheck'[b] = lastCheck[b]
      BY <1>1, <1>2, <2>2, <3>1
    <3> QED
      BY <1>6, <2>2, <3>2, <3>3
  <2> QED
    BY <2>3, <2>4
<1>10. CASE Cleanup
  <2>1. /\ buckets'[k] = IF k \in Dropped THEN NoBucket ELSE b
        /\ UNCHANGED <<tokens, lastCheck, now, admitted>>
    BY <1>10 DEF Cleanup
  <2>2. CASE k \in Dropped
    <3>1. Refilled(b) = Burst /\ b # NoBucket /\ b \in Buckets
      BY <1>2, <2>2, DroppedFull DEF Dropped
    <3>2. /\ tokens[b] \in Int /\ lastCheck[b] \in Nat /\ admitted[k] \in Nat
          /\ admitted[k] + tokens[b] <= Burst + lastCheck[b] * Rate
      BY <1>1, <1>4, <3>1
    <3>3. /\ (now - lastCheck[b]) * Rate = now * Rate - lastCheck[b] * Rate
          /\ (now - lastCheck[b]) * Rate \in Int
      BY <1>1, <3>2, Earned
    <3>4. lastCheck[b] * Rate \in Int
      BY <1>1, <3>2
    <3>5. Burst <= tokens[b] + (now - lastCheck[b]) * Rate
      BY <1>1, <3>1, <3>2, <3>3 DEF Refilled
    <3>6. admitted[k] <= now * Rate
      BY <1>1, <1>5, <3>2, <3>3, <3>4, <3>5
    <3> QED
      BY <2>1, <2>2, <3>6 DEF Balanced
  <2>3. CASE k \notin Dropped
    BY <1>6, <2>1, <2>3
  <2> QED
    BY <2>2, <2>3
<1>11. CASE Tick
  <2>1. now * Rate <= (now + 1) * Rate /\ (now + 1) * Rate \in Nat
    <3>1. (now + 1) * Rate = now * Rate + Rate
      BY <1>1
    <3> QED
      BY <1>1, <1>5, <3>1
  <2>2. now' = now + 1 /\ UNCHANGED <<buckets, tokens, lastCheck, admitted>>
    BY <1>11 DEF Tick
  <2>3. admitted[k] \in Nat
    BY <1>1
  <2> QED
    BY <1>4, <1>5, <2>1, <2>2, <2>3 DEF Balanced
<1>12. CASE UNCHANGED vars
  BY <1>6, <1>12 DEF vars
<1> QED
  BY <1>7, <1>8, <1>9, <1>10, <1>11, <1>12 DEF Next

\* IInv is an invariant of the limiter.
THEOREM Invariance == Spec => []IInv
<1>1. Init => IInv
  <2> SUFFICES ASSUME Init PROVE IInv
    OBVIOUS
  <2>1. TypeOK /\ CallsInv
    BY LimiterAssumption DEF Init, TypeOK, CallsInv
  <2>2. Ledger
    BY LimiterAssumption DEF Init, Ledger
  <2>3. OwnersInv /\ SerialInv
    BY LimiterAssumption DEF Init, OwnersInv, SerialInv
  <2>4. KeyLedger
    BY LimiterAssumption DEF Init, KeyLedger, Balanced
  <2>5. QED
    BY <2>1, <2>2, <2>3, <2>4 DEF IInv
<1>2. IInv /\ [Next]_vars => IInv'
  BY TypeStep, LedgerStep, OwnersStep, SerialStep, KeyStep DEF IInv
<1>3. QED
  BY <1>1, <1>2, PTL DEF Spec

\* No bucket, however its callers interleave, lets through more than its burst
\* and what it has earned since it was made (Allow, ratelimit.go:59-74).
THEOREM BucketsBound == Spec => []BucketBound
<1>1. IInv => BucketBound
  <2> SUFFICES ASSUME IInv, NEW b \in Buckets
               PROVE  granted[b] <= Most(Burst, 1) + (now - made[b]) * Rate
    BY DEF BucketBound
  <2>1. /\ granted[b] \in Nat /\ tokens[b] \in -1..Burst /\ Burst \in Nat
        /\ lastCheck[b] \in Nat /\ made[b] \in Nat /\ now \in Nat /\ Rate \in Nat
        /\ granted[b] + tokens[b] <= Burst + (lastCheck[b] - made[b]) * Rate
        /\ tokens[b] >= 0 \/ Burst = 0
        /\ made[b] <= lastCheck[b] /\ lastCheck[b] <= now
    BY LimiterAssumption DEF IInv, TypeOK, Ledger
  <2>2. /\ (now - lastCheck[b]) * Rate \in Int
        /\ (now - lastCheck[b]) * Rate >= 0
        /\ (lastCheck[b] - made[b]) * Rate \in Int
        /\ (now - made[b]) * Rate \in Int
        /\ (now - lastCheck[b]) * Rate + (lastCheck[b] - made[b]) * Rate = (now - made[b]) * Rate
    <3>1. ASSUME NEW e \in Nat, NEW d \in Nat
          PROVE  /\ e * Rate \in Int /\ e * Rate >= 0
                 /\ e * Rate + d * Rate = (e + d) * Rate
      BY <2>1, <3>1
    <3>2. /\ now - lastCheck[b] \in Nat /\ lastCheck[b] - made[b] \in Nat
          /\ (now - lastCheck[b]) + (lastCheck[b] - made[b]) = now - made[b]
      BY <2>1
    <3> QED
      BY <2>1, <3>1, <3>2
  <2>3. QED
    BY <2>1, <2>2 DEF Most
<1>2. QED
  BY <1>1, Invariance, PTL

\* The cleanup drops only buckets that would be full again, for every rate,
\* burst and interval that let an idle pass earn a bucket (ratelimit.go:87-96).
THEOREM NothingForgiven == Spec => CleanupForgivesNothing
<1> DEFINE Kept == \A k \in Keys :
       Replenishes /\ buckets[k] # NoBucket /\ buckets'[k] = NoBucket
         => Refilled(buckets[k]) = Burst
<1>1. IInv /\ [Next]_vars => [Kept]_vars
  <2> SUFFICES ASSUME IInv, Next, NEW k \in Keys, Replenishes,
                      buckets[k] # NoBucket, buckets'[k] = NoBucket
               PROVE  Refilled(buckets[k]) = Burst
    OBVIOUS
  <2>1. k \in Dropped
    <3>1. CASE Cleanup
      BY <3>1 DEF Cleanup
    <3>2. ASSUME NEW c \in Callers, NEW b \in Buckets, Create(c, b) PROVE FALSE
      BY <3>2, LimiterAssumption DEF Create, IInv, TypeOK
    <3>3. QED
      BY <3>1, <3>2 DEF Next, Lookup, Take, Tick
  <2>2. QED
    BY <2>1, DroppedFull
<1>2. QED
  BY <1>1, Invariance, PTL DEF CleanupForgivesNothing, Spec

\* A client served one request at a time never gets more than one token bucket
\* of the configured rate and burst would allow it, however often cleanupLoop
\* drops its bucket and Allow makes it a new one (ratelimit.go:43-99).
THEOREM SerialKeysBound == Spec => []SerialKeyBound
<1>1. IInv => SerialKeyBound
  <2> SUFFICES ASSUME IInv, Replenishes, NEW k \in Keys \ raced
               PROVE  admitted[k] <= Most(Burst, 1) + now * Rate
    BY DEF SerialKeyBound
  <2> DEFINE b == buckets[k]
  <2>1. /\ now \in Nat /\ Rate \in Nat /\ Burst \in Nat /\ admitted[k] \in Nat
        /\ Balanced(k)
    BY LimiterAssumption DEF IInv, TypeOK, KeyLedger
  <2>2. now * Rate \in Nat
    BY <2>1
  <2>3. CASE b = NoBucket
    BY <2>1, <2>2, <2>3 DEF Balanced, Most
  <2>4. CASE b # NoBucket
    <3>1. /\ tokens[b] \in -1..Burst /\ (tokens[b] >= 0 \/ Burst = 0)
          /\ lastCheck[b] \in Nat /\ lastCheck[b] <= now
      BY <2>4 DEF IInv, TypeOK, Ledger
    <3>2. /\ (now - lastCheck[b]) * Rate = now * Rate - lastCheck[b] * Rate
          /\ (now - lastCheck[b]) * Rate \in Int /\ (now - lastCheck[b]) * Rate >= 0
      BY <2>1, <3>1, Earned
    <3>3. lastCheck[b] * Rate \in Int
      BY <2>1, <3>1
    <3>4. lastCheck[b] * Rate <= now * Rate
      BY <2>2, <3>2, <3>3
    <3>5. admitted[k] + tokens[b] <= Burst + lastCheck[b] * Rate
      BY <2>1, <2>4 DEF Balanced
    <3> QED
      BY <2>1, <2>2, <3>1, <3>3, <3>4, <3>5 DEF Most
  <2> QED
    BY <2>3, <2>4
<1>2. QED
  BY <1>1, Invariance, PTL
=============================================================================
