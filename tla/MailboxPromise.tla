--------------------------- MODULE MailboxPromise ---------------------------
(***************************************************************************)
(* What the mailbox store of server/storage.go promises to the handlers    *)
(* that use it, without its objects, its locks or its lists.  The mailbox  *)
(* of an id holds a set of accepted messages.  A request finds it, opening *)
(* it if need be, and then works on what it found: a push adds a message,  *)
(* a pull takes all of them in the order they were accepted, and nobody is *)
(* ever given one of them again.  Otherwise a message goes only when its   *)
(* mailbox is full and it is the oldest there, when it has outlived its    *)
(* TTL, when the process restarts, or with the mailbox.                    *)
(*                                                                         *)
(* A mailbox goes in two steps.  It is condemned only while it is empty    *)
(* and has not been used for 2 * TTL; before it is dropped, a request that *)
(* had found it may still push into it, nobody else finds it.  What it     *)
(* holds when it is dropped, and what is pushed by a request that is late, *)
(* is stray: only a late pull can still return it.                         *)
(***************************************************************************)
EXTENDS Integers, Sequences, FiniteSets, SequencesExt

CONSTANTS MailboxIds, Messages, Handlers, NoId,
          Limit,   \* how many messages a mailbox keeps
          TTL      \* how long it keeps one

VARIABLES
  rank,    \* rank[m]: m's place in the order of acceptance, 0 before it
  held,    \* held[id]: the messages in the mailbox of id
  used,    \* used[id]: when that mailbox was last opened, pushed to or pulled
  born,    \* born[m]: the creation time written on m
  clock,
  found,   \* found[h]: the id whose mailbox the request of h works on, or NoId
  late,    \* the handlers whose mailbox has been dropped since they found it
  stray,   \* stray[id]: accepted messages of id that are in no mailbox
  doomed,  \* the mailbox that is about to be dropped, or NoId
  answer   \* answer[h]: the messages the pull of h is returning

\* used[id] while id has no mailbox.
Never == -1

mailboxVars == <<held, used>>
requestVars == <<found, late>>
vars == <<rank, mailboxVars, born, clock, requestVars, stray, doomed, answer>>

Init ==
  /\ rank = [m \in Messages |-> 0]
  /\ held = [id \in MailboxIds |-> {}]
  /\ used = [id \in MailboxIds |-> Never]
  /\ born = [m \in Messages |-> 0]
  /\ clock = 0
  /\ found = [h \in Handlers |-> NoId]
  /\ late = {}
  /\ stray = [id \in MailboxIds |-> {}]
  /\ doomed = NoId
  /\ answer = [h \in Handlers |-> <<>>]

-----------------------------------------------------------------------------
(* Finding a mailbox *)

Open(id) == used[id] = Never /\ used' = [used EXCEPT ![id] = clock]

Register(id) ==
  /\ doomed = NoId /\ Open(id)
  /\ UNCHANGED <<rank, held, born, clock, requestVars, stray, doomed, answer>>

Find(h, id) ==
  /\ doomed = NoId /\ found[h] = NoId
  /\ found' = [found EXCEPT ![h] = id]
  /\ Open(id) \/ (used[id] # Never /\ UNCHANGED used)
  /\ UNCHANGED <<rank, held, born, clock, late, stray, doomed, answer>>

\* The request of h is done with the mailbox it found.
Release(h) ==
  /\ found[h] # NoId
  /\ found' = [found EXCEPT ![h] = NoId]
  /\ late' = late \ {h}

\* A request that only looks.
Look(h) ==
  /\ Release(h)
  /\ UNCHANGED <<rank, mailboxVars, born, clock, stray, doomed, answer>>

Use(id) == used' = [used EXCEPT ![id] = clock]

-----------------------------------------------------------------------------
(* Pushing *)

Prepare(m) ==
  /\ rank[m] = 0
  /\ born' = [born EXCEPT ![m] = clock]
  /\ UNCHANGED <<rank, mailboxVars, clock, requestVars, stray, doomed, answer>>

\* m is accepted after every message accepted so far.
Rank(m) ==
  /\ rank[m] = 0
  /\ rank' = [rank EXCEPT ![m] = rank'[m]]
  /\ \A n \in Messages : rank[n] < rank'[m]

\* What a mailbox may give up to take one more message: nothing, or its oldest
\* message when it holds Limit of them.
Overflow(id) ==
  {{}} \cup {{m} : m \in {o \in held[id] : /\ Cardinality(held[id]) >= Limit
                                           /\ \A n \in held[id] : rank[o] <= rank[n]}}

\* A mailbox never ends up with more than Limit messages, or one if Limit = 0.
Accept(h, m) ==
  LET id == found[h]
  IN /\ Rank(m) /\ Release(h) /\ h \notin late /\ Use(id)
     /\ \E out \in Overflow(id) : held' = [held EXCEPT ![id] = (@ \ out) \cup {m}]
     /\ Cardinality(held'[id]) <= Limit \/ held'[id] = {m}
     /\ UNCHANGED <<born, clock, stray, doomed, answer>>

AcceptLate(h, m) ==
  LET id == found[h]
  IN /\ Rank(m) /\ Release(h) /\ h \in late
     /\ stray' = [stray EXCEPT ![id] = stray'[id]]
     /\ m \in stray'[id] /\ stray'[id] \subseteq stray[id] \cup {m}
     /\ UNCHANGED <<mailboxVars, born, clock, doomed, answer>>

-----------------------------------------------------------------------------
(* Pulling *)

\* s lists S, earliest accepted first.
Lists(s, S) ==
  /\ ToSet(s) = S
  /\ \A i, j \in 1..Len(s) : i < j => rank[s[i]] < rank[s[j]]

\* The pull of h answers with S, in order.
Return(h, S) ==
  /\ answer[h] = <<>>
  /\ answer' = [answer EXCEPT ![h] = answer'[h]]
  /\ Lists(answer'[h], S)

Take(h) ==
  LET id == found[h]
  IN /\ Release(h) /\ h \notin late /\ Use(id)
     /\ Return(h, held[id])
     /\ held' = [held EXCEPT ![id] = {}]
     /\ UNCHANGED <<rank, born, clock, stray, doomed>>

TakeLate(h) ==
  LET id == found[h]
  IN /\ Release(h) /\ h \in late
     /\ \E S \in SUBSET stray[id] : /\ Return(h, S)
                                    /\ stray' = [stray EXCEPT ![id] = @ \ S]
     /\ UNCHANGED <<rank, mailboxVars, born, clock, doomed>>

Answer(h) ==
  /\ answer' = [answer EXCEPT ![h] = <<>>]
  /\ UNCHANGED <<rank, mailboxVars, born, clock, requestVars, stray, doomed>>

-----------------------------------------------------------------------------
(* What goes without being pulled *)

Expire(id, m) ==
  /\ clock - born[m] > TTL /\ m \in held[id]
  /\ held' = [held EXCEPT ![id] = @ \ {m}]
  /\ UNCHANGED <<rank, used, born, clock, requestVars, stray, doomed, answer>>

Condemn(id) ==
  /\ doomed = NoId
  /\ used[id] # Never /\ held[id] = {} /\ clock - used[id] > 2 * TTL
  /\ doomed' = id
  /\ UNCHANGED <<rank, mailboxVars, born, clock, requestVars, stray, answer>>

Drop ==
  /\ doomed # NoId
  /\ held' = [held EXCEPT ![doomed] = {}]
  /\ used' = [used EXCEPT ![doomed] = Never]
  /\ stray' = [stray EXCEPT ![doomed] = @ \cup held[doomed]]
  /\ late' = late \cup {h \in Handlers : found[h] = doomed}
  /\ doomed' = NoId
  /\ UNCHANGED <<rank, born, clock, found, answer>>

Restart ==
  /\ held' = [id \in MailboxIds |-> {}]
  /\ used' = [id \in MailboxIds |-> Never]
  /\ found' = [h \in Handlers |-> NoId]
  /\ late' = {}
  /\ stray' = [id \in MailboxIds |-> {}]
  /\ doomed' = NoId
  /\ answer' = [h \in Handlers |-> <<>>]
  /\ UNCHANGED <<rank, born, clock>>

Tick ==
  /\ clock' = clock + 1
  /\ UNCHANGED <<rank, mailboxVars, born, requestVars, stray, doomed, answer>>

Next ==
  \/ \E id \in MailboxIds :
       \/ Register(id) \/ Condemn(id)
       \/ \E h \in Handlers : Find(h, id)
       \/ \E m \in Messages : Expire(id, m)
  \/ \E h \in Handlers :
       \/ Look(h) \/ Take(h) \/ TakeLate(h) \/ Answer(h)
       \/ \E m \in Messages : Accept(h, m) \/ AcceptLate(h, m)
  \/ \E m \in Messages : Prepare(m)
  \/ Drop
  \/ Restart
  \/ Tick

Spec == Init /\ [][Next]_vars

=============================================================================
