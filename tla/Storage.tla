------------------------------ MODULE Storage ------------------------------
(***************************************************************************)
(* The in-memory mailbox store of the encli server (server/storage.go) and *)
(* the request handlers that drive it (handlePush, handlePull, handlePeek, *)
(* RegisterDevice), interleaved with the cleanup goroutine at the          *)
(* granularity of the two locks: MemoryStorage.mu, which guards the map of *)
(* mailboxes, and Mailbox.mu, which guards one queue.                      *)
(*                                                                         *)
(* ms.mu is held across several steps only by CleanupExpired (from         *)
(* CleanStart to CleanDone), mb.mu only by the scan of one mailbox; every  *)
(* other critical section is one step.  A mailbox object (Go pointer) is a *)
(* member of Boxes, so that a handler may keep a pointer to an object the  *)
(* map no longer holds.  Time is a bounded counter of ticks.               *)
(***************************************************************************)
EXTENDS Integers, Sequences, FiniteSets, SequencesExt

CONSTANTS MailboxIds,      \* mailbox identifiers (hex SHA-256 of a device id)
          Boxes,           \* the mailbox objects that may be allocated
          Messages,        \* the messages clients push, each at most once
          Handlers,        \* goroutines serving an HTTP request
          MaxMailboxSize,  \* max_mailbox_size
          MaxAccounts,     \* max_accounts
          MessageTTL,      \* message_ttl, in ticks
          MaxTime,         \* bound: the clock stops here
          MaxRestarts,     \* bound: restarts of the process
          NoBox, NoId, NoMessage

ASSUME StorageAssumption ==
  /\ IsFiniteSet(MailboxIds)
  /\ MaxMailboxSize \in Nat /\ MaxAccounts \in Nat /\ MessageTTL \in Nat
  /\ MaxTime \in Nat /\ MaxRestarts \in Nat
  /\ NoBox \notin Boxes /\ NoId \notin MailboxIds /\ NoMessage \notin Messages

VARIABLES
  mailboxes,     \* ms.mailboxes: the object the map holds for an id, or NoBox
  accountCount,  \* ms.accountCount
  owner,         \* mb.ID; NoId while the object is not allocated
  queue,         \* mb.Messages
  lastAccess,    \* mb.LastAccess
  createdAt,     \* msg.CreatedAt
  wiped,         \* messages whose payload has been zeroed
  now,           \* the server's clock
  restarts,      \* how often the process has been restarted
  \* one handler: where it is, and its local variables
  pc, target, box, msg, batch, encoded,
  \* the cleanup goroutine
  cleanPc, todo, cleaning, cursor, cleanNow,
  \* history: the order in which messages entered a queue, 0 before that
  stamp, accepts

mapVars     == <<mailboxes, accountCount, owner>>
boxVars     == <<queue, lastAccess, stamp, accepts>>
msgVars     == <<createdAt, wiped>>
handlerVars == <<pc, target, box, msg, batch, encoded>>
cleanVars   == <<cleanPc, todo, cleaning, cursor, cleanNow>>
clockVars   == <<now, restarts>>
vars == <<mapVars, boxVars, msgVars, handlerVars, cleanVars, clockVars>>

HandlerPcs ==
  {"idle", "create", "stamp", "push", "size", "count", "drain", "encode", "view", "show"}
CleanPcs   == {"idle", "next", "scan", "check", "delete"}

TypeOK ==
  /\ mailboxes \in [MailboxIds -> Boxes \cup {NoBox}]
  /\ accountCount \in Nat
  /\ owner \in [Boxes -> MailboxIds \cup {NoId}]
  /\ queue \in [Boxes -> Seq(Messages)]
  /\ lastAccess \in [Boxes -> Nat]
  /\ createdAt \in [Messages -> Nat]
  /\ wiped \in SUBSET Messages
  /\ now \in Nat /\ restarts \in Nat
  /\ pc \in [Handlers -> HandlerPcs]
  /\ target \in [Handlers -> MailboxIds \cup {NoId}]
  /\ box \in [Handlers -> Boxes \cup {NoBox}]
  /\ msg \in [Handlers -> Messages \cup {NoMessage}]
  /\ batch \in [Handlers -> Seq(Messages)]
  /\ encoded \in [Handlers -> Nat]
  /\ cleanPc \in CleanPcs
  /\ todo \in SUBSET MailboxIds
  /\ cleaning \in MailboxIds \cup {NoId}
  /\ cursor \in Nat
  /\ cleanNow \in Nat
  /\ stamp \in [Messages -> Nat]
  /\ accepts \in Nat

\* The handlers that are answering a pull.
Pulling == {h \in Handlers : pc[h] = "encode"}

\* The mailbox the map holds for id contains m.
Holds(id, m) == mailboxes[id] # NoBox /\ m \in ToSet(queue[mailboxes[id]])

Live == {id \in MailboxIds : mailboxes[id] # NoBox}

\* CleanupExpired holds ms.mu from CleanStart to CleanDone: nobody else may
\* read or change the map meanwhile.
MapFree == cleanPc = "idle"

\* mb.mu of object b is held by the scan of CleanupExpired.
Scanned(b) == cleanPc = "scan" /\ mailboxes[cleaning] = b

Init ==
  /\ mailboxes = [id \in MailboxIds |-> NoBox]
  /\ accountCount = 0
  /\ owner = [b \in Boxes |-> NoId]
  /\ queue = [b \in Boxes |-> <<>>]
  /\ lastAccess = [b \in Boxes |-> 0]
  /\ createdAt = [m \in Messages |-> 0]
  /\ wiped = {}
  /\ now = 0 /\ restarts = 0
  /\ pc = [h \in Handlers |-> "idle"]
  /\ target = [h \in Handlers |-> NoId]
  /\ box = [h \in Handlers |-> NoBox]
  /\ msg = [h \in Handlers |-> NoMessage]
  /\ batch = [h \in Handlers |-> <<>>]
  /\ encoded = [h \in Handlers |-> 0]
  /\ cleanPc = "idle" /\ todo = {} /\ cleaning = NoId
  /\ cursor = 0 /\ cleanNow = 0
  /\ stamp = [m \in Messages |-> 0]
  /\ accepts = 0

-----------------------------------------------------------------------------
(* The map of mailboxes *)

\* A new Mailbox b for id, entered in the map and counted.
NewMailbox(id, b) ==
  /\ owner[b] = NoId
  /\ owner' = [owner EXCEPT ![b] = id]
  /\ mailboxes' = [mailboxes EXCEPT ![id] = b]
  /\ accountCount' = accountCount + 1
  /\ lastAccess' = [lastAccess EXCEPT ![b] = now]
  /\ UNCHANGED <<queue, stamp, accepts>>

\* RegisterDevice: the limit is tested before the mailbox is looked up; at the
\* limit, and for an id the map holds already, nothing changes.
RegisterDevice(id) ==
  /\ MapFree
  /\ accountCount < MaxAccounts
  /\ mailboxes[id] = NoBox
  /\ \E b \in Boxes : NewMailbox(id, b)
  /\ UNCHANGED <<msgVars, handlerVars, cleanVars, clockVars>>

-----------------------------------------------------------------------------
(* handlePush *)

\* A request to push a fresh message m to id, up to the lookup in StoreMessage.
StoreLookup(h, id, m) ==
  /\ pc[h] = "idle" /\ MapFree
  /\ stamp[m] = 0 /\ \A g \in Handlers : msg[g] # m
  /\ target' = [target EXCEPT ![h] = id]
  /\ msg' = [msg EXCEPT ![h] = m]
  /\ box' = [box EXCEPT ![h] = mailboxes[id]]
  /\ pc' = [pc EXCEPT ![h] = IF mailboxes[id] = NoBox THEN "create" ELSE "stamp"]
  /\ UNCHANGED <<mapVars, boxVars, msgVars, batch, encoded, cleanVars, clockVars>>

\* Fault: the map is not consulted again under the write lock.
StoreCreateUnchecked(h) ==
  /\ pc[h] = "create" /\ MapFree
  /\ \E b \in Boxes :
       /\ NewMailbox(target[h], b)
       /\ box' = [box EXCEPT ![h] = b]
  /\ pc' = [pc EXCEPT ![h] = "stamp"]
  /\ UNCHANGED <<msgVars, target, msg, batch, encoded, cleanVars, clockVars>>

\* The miss path of StoreMessage: under the write lock the map is consulted
\* again, and a mailbox is created only if there is still none.
StoreCreate(h) ==
  LET id == target[h]
  IN /\ pc[h] = "create" /\ MapFree
     /\ \/ /\ mailboxes[id] # NoBox
           /\ box' = [box EXCEPT ![h] = mailboxes[id]]
           /\ UNCHANGED <<mapVars, boxVars>>
        \/ /\ mailboxes[id] = NoBox
           /\ \E b \in Boxes :
                /\ NewMailbox(id, b)
                /\ box' = [box EXCEPT ![h] = b]
     /\ pc' = [pc EXCEPT ![h] = "stamp"]
     /\ UNCHANGED <<msgVars, target, msg, batch, encoded, cleanVars, clockVars>>

\* msg.CreatedAt = time.Now(), outside every lock.
StoreStamp(h) ==
  /\ pc[h] = "stamp"
  /\ createdAt' = [createdAt EXCEPT ![msg[h]] = now]
  /\ pc' = [pc EXCEPT ![h] = "push"]
  /\ UNCHANGED <<mapVars, boxVars, wiped, target, box, msg, batch, encoded,
                 cleanVars, clockVars>>

\* Fault: the limit is tested as if the new message were in the queue already.
EvictedLate(q) == IF Len(q) > MaxMailboxSize THEN Tail(q) ELSE q

\* The queue after room has been made for one more message.
Evicted(q) == IF Len(q) >= MaxMailboxSize /\ q # <<>> THEN Tail(q) ELSE q

\* Mailbox.Push under mb.mu.
Push(h) ==
  LET b == box[h]
      m == msg[h]
  IN /\ pc[h] = "push" /\ ~Scanned(b)
     /\ queue' = [queue EXCEPT ![b] = Append(Evicted(@), m)]
     /\ lastAccess' = [lastAccess EXCEPT ![b] = now]
     /\ accepts' = accepts + 1
     /\ stamp' = [stamp EXCEPT ![m] = accepts + 1]
     /\ pc' = [pc EXCEPT ![h] = "size"]
     /\ box' = [box EXCEPT ![h] = NoBox]
     /\ msg' = [msg EXCEPT ![h] = NoMessage]
     /\ UNCHANGED <<mapVars, msgVars, target, batch, encoded, cleanVars, clockVars>>

\* GetMailbox again, for the queue size of the answer: the mailbox may be
\* another object by now, or none, which ends the request.
SizeLookup(h) ==
  LET b == mailboxes[target[h]]
  IN /\ pc[h] = "size" /\ MapFree
     /\ target' = [target EXCEPT ![h] = NoId]
     /\ box' = [box EXCEPT ![h] = b]
     /\ pc' = [pc EXCEPT ![h] = IF b = NoBox THEN "idle" ELSE "count"]
     /\ UNCHANGED <<mapVars, boxVars, msgVars, msg, batch, encoded, cleanVars, clockVars>>

\* Mailbox.Count under the read lock, and the answer "accepted".
Count(h) ==
  /\ pc[h] = "count" /\ ~Scanned(box[h])
  /\ box' = [box EXCEPT ![h] = NoBox]
  /\ pc' = [pc EXCEPT ![h] = "idle"]
  /\ UNCHANGED <<mapVars, boxVars, msgVars, target, msg, batch, encoded,
                 cleanVars, clockVars>>

-----------------------------------------------------------------------------
(* handlePull and handlePeek *)

\* GetMailbox of a pull (next = "drain") or of a peek (next = "view"); a miss
\* is answered with 404 and changes nothing.
Lookup(h, id, next) ==
  /\ pc[h] = "idle" /\ MapFree
  /\ mailboxes[id] # NoBox
  /\ box' = [box EXCEPT ![h] = mailboxes[id]]
  /\ pc' = [pc EXCEPT ![h] = next]
  /\ UNCHANGED <<mapVars, boxVars, msgVars, target, msg, batch, encoded,
                 cleanVars, clockVars>>

\* Fault: the messages are copied but stay in the queue.
PullWithoutRemoval(h) ==
  /\ pc[h] = "drain" /\ ~Scanned(box[h])
  /\ batch' = [batch EXCEPT ![h] = queue[box[h]]]
  /\ lastAccess' = [lastAccess EXCEPT ![box[h]] = now]
  /\ box' = [box EXCEPT ![h] = NoBox]
  /\ pc' = [pc EXCEPT ![h] = "encode"]
  /\ UNCHANGED <<mapVars, queue, stamp, accepts, msgVars, target, msg, encoded,
                 cleanVars, clockVars>>

\* Mailbox.Pull: the whole queue is taken under mb.mu.
Pull(h) ==
  LET b == box[h]
  IN /\ pc[h] = "drain" /\ ~Scanned(b)
     /\ batch' = [batch EXCEPT ![h] = queue[b]]
     /\ queue' = [queue EXCEPT ![b] = <<>>]
     /\ lastAccess' = [lastAccess EXCEPT ![b] = now]
     /\ box' = [box EXCEPT ![h] = NoBox]
     /\ pc' = [pc EXCEPT ![h] = "encode"]
     /\ UNCHANGED <<mapVars, stamp, accepts, msgVars, target, msg, encoded,
                    cleanVars, clockVars>>

\* One turn of handlePull's loop: the message is encoded, then wiped.
EncodeAndWipe(h) ==
  /\ pc[h] = "encode" /\ encoded[h] < Len(batch[h])
  /\ wiped' = wiped \cup {batch[h][encoded[h] + 1]}
  /\ encoded' = [encoded EXCEPT ![h] = @ + 1]
  /\ UNCHANGED <<mapVars, boxVars, createdAt, pc, target, box, msg, batch,
                 cleanVars, clockVars>>

\* Mailbox.Peek: the pointers of the queue are copied under the read lock.
Peek(h) ==
  LET b == box[h]
  IN /\ pc[h] = "view" /\ ~Scanned(b)
     /\ batch' = [batch EXCEPT ![h] = queue[b]]
     /\ box' = [box EXCEPT ![h] = NoBox]
     /\ pc' = [pc EXCEPT ![h] = "show"]
     /\ UNCHANGED <<mapVars, boxVars, msgVars, target, msg, encoded,
                    cleanVars, clockVars>>

\* The answer of a pull, once every message is encoded, or of a peek.
Respond(h) ==
  /\ \/ pc[h] = "encode" /\ encoded[h] = Len(batch[h])
     \/ pc[h] = "show"
  /\ pc' = [pc EXCEPT ![h] = "idle"]
  /\ batch' = [batch EXCEPT ![h] = <<>>]
  /\ encoded' = [encoded EXCEPT ![h] = 0]
  /\ UNCHANGED <<mapVars, boxVars, msgVars, target, box, msg, cleanVars, clockVars>>

-----------------------------------------------------------------------------
(* CleanupExpired *)

Expired(m) == cleanNow - createdAt[m] > MessageTTL

CleanStart ==
  /\ cleanPc = "idle"
  /\ cleanPc' = "next"
  /\ todo' = Live
  /\ cleanNow' = now
  /\ UNCHANGED <<mapVars, boxVars, msgVars, handlerVars, cleaning, cursor, clockVars>>

\* The next mailbox of the range over the map: mb.mu is taken.
CleanNext(id) ==
  /\ cleanPc = "next" /\ id \in todo
  /\ todo' = todo \ {id}
  /\ cleaning' = id
  /\ cursor' = 1
  /\ cleanPc' = "scan"
  /\ UNCHANGED <<mapVars, boxVars, msgVars, handlerVars, cleanNow, clockVars>>

\* Fault: an expired message is wiped but stays in the queue.
CleanScanWipeOnly ==
  LET m == queue[mailboxes[cleaning]][cursor]
  IN /\ cleanPc = "scan" /\ cursor <= Len(queue[mailboxes[cleaning]])
     /\ wiped' = IF Expired(m) THEN wiped \cup {m} ELSE wiped
     /\ cursor' = cursor + 1
     /\ UNCHANGED <<mapVars, boxVars, createdAt, handlerVars, cleanPc, todo,
                    cleaning, cleanNow, clockVars>>

\* One element of the queue: an expired message is wiped and removed.
CleanScan ==
  LET b == mailboxes[cleaning]
      m == queue[b][cursor]
  IN /\ cleanPc = "scan" /\ cursor <= Len(queue[b])
     /\ \/ /\ Expired(m)
           /\ wiped' = wiped \cup {m}
           /\ queue' = [queue EXCEPT ![b] = RemoveAt(@, cursor)]
           /\ UNCHANGED cursor
        \/ /\ ~Expired(m)
           /\ cursor' = cursor + 1
           /\ UNCHANGED <<wiped, queue>>
     /\ UNCHANGED <<mapVars, lastAccess, stamp, accepts, createdAt, handlerVars,
                    cleanPc, todo, cleaning, cleanNow, clockVars>>

\* Fault: the scan stops at the first message that has not expired, as if a
\* queue were always ordered by creation time.
CleanUnlockEarly ==
  LET q == queue[mailboxes[cleaning]]
  IN /\ cleanPc = "scan" /\ (cursor <= Len(q) => ~Expired(q[cursor]))
     /\ cleanPc' = "check"
     /\ cursor' = 0
     /\ UNCHANGED <<mapVars, boxVars, msgVars, handlerVars, todo, cleaning, cleanNow, clockVars>>

\* mb.mu is released.
CleanUnlock ==
  /\ cleanPc = "scan" /\ cursor > Len(queue[mailboxes[cleaning]])
  /\ cleanPc' = "check"
  /\ cursor' = 0
  /\ UNCHANGED <<mapVars, boxVars, msgVars, handlerVars, todo, cleaning, cleanNow, clockVars>>

\* Fault: an empty mailbox goes however lately it was used.
CleanCheckEmptyOnly ==
  LET idle == queue[mailboxes[cleaning]] = <<>>
  IN /\ cleanPc = "check"
     /\ cleanPc' = IF idle THEN "delete" ELSE "next"
     /\ cleaning' = IF idle THEN cleaning ELSE NoId
     /\ UNCHANGED <<mapVars, boxVars, msgVars, handlerVars, todo, cursor, cleanNow, clockVars>>

\* Len() and LastAccess are read without mb.mu.
CleanCheck ==
  LET b == mailboxes[cleaning]
      idle == queue[b] = <<>> /\ cleanNow - lastAccess[b] > 2 * MessageTTL
  IN /\ cleanPc = "check"
     /\ cleanPc' = IF idle THEN "delete" ELSE "next"
     /\ cleaning' = IF idle THEN cleaning ELSE NoId
     /\ UNCHANGED <<mapVars, boxVars, msgVars, handlerVars, todo, cursor, cleanNow, clockVars>>

\* Fault: the account stays counted.
CleanDeleteUncounted ==
  /\ cleanPc = "delete"
  /\ mailboxes' = [mailboxes EXCEPT ![cleaning] = NoBox]
  /\ cleaning' = NoId
  /\ cleanPc' = "next"
  /\ UNCHANGED <<accountCount, owner, boxVars, msgVars, handlerVars, todo, cursor,
                 cleanNow, clockVars>>

\* Fault: the count is lowered but the mailbox stays in the map.
CleanDeleteKept ==
  /\ cleanPc = "delete"
  /\ accountCount' = accountCount - 1
  /\ cleaning' = NoId
  /\ cleanPc' = "next"
  /\ UNCHANGED <<mailboxes, owner, boxVars, msgVars, handlerVars, todo, cursor,
                 cleanNow, clockVars>>

\* delete(ms.mailboxes, mboxID), whatever has been pushed since the check.
CleanDelete ==
  /\ cleanPc = "delete"
  /\ mailboxes' = [mailboxes EXCEPT ![cleaning] = NoBox]
  /\ accountCount' = accountCount - 1
  /\ cleaning' = NoId
  /\ cleanPc' = "next"
  /\ UNCHANGED <<owner, boxVars, msgVars, handlerVars, todo, cursor, cleanNow, clockVars>>

\* Fault: the pass returns without releasing ms.mu when it emptied the map.
CleanDoneHeld ==
  /\ cleanPc = "next" /\ todo = {} /\ Live # {}
  /\ cleanPc' = "idle"
  /\ cleanNow' = 0
  /\ UNCHANGED <<mapVars, boxVars, msgVars, handlerVars, todo, cleaning, cursor, clockVars>>

\* The map is exhausted and ms.mu released.
CleanDone ==
  /\ cleanPc = "next" /\ todo = {}
  /\ cleanPc' = "idle"
  /\ cleanNow' = 0
  /\ UNCHANGED <<mapVars, boxVars, msgVars, handlerVars, todo, cleaning, cursor, clockVars>>

-----------------------------------------------------------------------------
(* The environment *)

Tick ==
  /\ now < MaxTime
  /\ now' = now + 1
  /\ UNCHANGED <<mapVars, boxVars, msgVars, handlerVars, cleanVars, restarts>>

\* The process dies and is started again: nothing is persisted.
Restart ==
  /\ restarts < MaxRestarts
  /\ restarts' = restarts + 1
  /\ mailboxes' = [id \in MailboxIds |-> NoBox]
  /\ accountCount' = 0
  /\ owner' = [b \in Boxes |-> NoId]
  /\ lastAccess' = [b \in Boxes |-> 0]
  /\ queue' = [b \in Boxes |-> <<>>]
  /\ pc' = [h \in Handlers |-> "idle"]
  /\ target' = [h \in Handlers |-> NoId]
  /\ box' = [h \in Handlers |-> NoBox]
  /\ msg' = [h \in Handlers |-> NoMessage]
  /\ batch' = [h \in Handlers |-> <<>>]
  /\ encoded' = [h \in Handlers |-> 0]
  /\ cleanPc' = "idle" /\ todo' = {} /\ cleaning' = NoId
  /\ cursor' = 0 /\ cleanNow' = 0
  /\ UNCHANGED <<stamp, accepts, msgVars, now>>

Handle(h) ==
  \/ StoreCreate(h) \/ StoreStamp(h) \/ Push(h) \/ SizeLookup(h) \/ Count(h)
  \/ Pull(h) \/ EncodeAndWipe(h) \/ Peek(h) \/ Respond(h)

Arrive(h) ==
  \E id \in MailboxIds :
    \/ \E m \in Messages : StoreLookup(h, id, m)
    \/ Lookup(h, id, "drain")
    \/ Lookup(h, id, "view")

Clean ==
  \/ CleanStart \/ (\E id \in MailboxIds : CleanNext(id)) \/ CleanScan
  \/ CleanUnlock \/ CleanCheck \/ CleanDelete \/ CleanDone

Next ==
  \/ \E id \in MailboxIds : RegisterDevice(id)
  \/ \E h \in Handlers : Arrive(h) \/ Handle(h)
  \/ Clean
  \/ Tick
  \/ Restart

Spec == Init /\ [][Next]_vars

\* The scheduler runs a goroutine that can run (WF); a handler waiting for
\* ms.mu while the cleanup keeps taking it gets it in the end, since Go's
\* RWMutex serves waiting readers and writers in turn (SF).
Fairness ==
  /\ WF_vars(Clean)
  /\ \A h \in Handlers : SF_vars(Handle(h))

FairSpec == Spec /\ Fairness

-----------------------------------------------------------------------------
(* Properties *)

\* accountCount, which Stats reports and the limit of RegisterDevice is tested
\* against, is the number of mailboxes in the map, whoever created or deleted
\* them (RegisterDevice, the two paths of StoreMessage, CleanupExpired).
AccountsMatchMailboxes == accountCount = Cardinality(Live)

\* A message is in one place only: one position of one queue, or one position
\* of the batch of one pull.  Two pulls of the same mailbox never both get it.
EachMessageInOnePlace ==
  /\ \A a, b \in Boxes : \A i \in 1..Len(queue[a]), j \in 1..Len(queue[b]) :
       queue[a][i] = queue[b][j] => a = b /\ i = j
  /\ \A g, h \in Pulling : \A i \in 1..Len(batch[g]), j \in 1..Len(batch[h]) :
       batch[g][i] = batch[h][j] => g = h /\ i = j
  /\ \A h \in Pulling, b \in Boxes : \A i \in 1..Len(batch[h]), j \in 1..Len(queue[b]) :
       batch[h][i] # queue[b][j]

\* secureWipe never reaches a message a later pull can still return: a wiped
\* message is in no queue, and what a pull has yet to encode is not wiped, so
\* no pull answers with zeroed bytes or with a message answered before.
PullsIntact ==
  /\ \A b \in Boxes : \A i \in 1..Len(queue[b]) : queue[b][i] \notin wiped
  /\ \A h \in Pulling : \A i \in 1..Len(batch[h]) :
       i > encoded[h] => batch[h][i] \notin wiped

\* The double check of StoreMessage: two handlers whose first lookup of one id
\* missed never both install an object for it.  A mailbox in the map gives way
\* to no other: it can only be taken out.
LiveMailboxNotReplaced ==
  [][\A id \in Live : mailboxes'[id] \in {mailboxes[id], NoBox}]_vars

\* storage.go:235, "removes empty mailboxes not used for a long time": what the
\* cleanup takes out of the map is empty.
OnlyEmptyMailboxesDeleted ==
  [][\A id \in Live : cleanPc = "delete" /\ mailboxes'[id] = NoBox /\ restarts' = restarts
       => queue[mailboxes[id]] = <<>>]_vars

\* The strengthening of the invariants above that every step preserves.
\* The local variables of a handler fit the place it is at, and no two
\* handlers push one message.
HandlersInv ==
  \A h \in Handlers :
    /\ pc[h] \in {"create", "stamp", "push", "size"} => target[h] # NoId
    /\ pc[h] \in {"stamp", "push", "count", "drain", "view"} <=> box[h] # NoBox
    /\ pc[h] \in {"create", "stamp", "push"} <=> msg[h] # NoMessage
    /\ pc[h] \notin {"encode", "show"} => batch[h] = <<>>
    /\ pc[h] # "encode" => encoded[h] = 0
    /\ encoded[h] <= Len(batch[h])
    /\ \A g \in Handlers : msg[g] = msg[h] /\ g # h => msg[h] = NoMessage

\* What the cleanup works on is in the map, which nobody else can change.
CleanInv ==
  /\ cleanPc \in {"scan", "check", "delete"} => cleaning \in Live \ todo
  /\ todo \subseteq Live
  /\ cleanPc = "scan" => cursor > 0
  /\ cleanNow <= now

\* An object of the map belongs to the id it is found under.
OwnerInv == \A id \in Live : owner[mailboxes[id]] = id

\* Handlers work on allocated objects, and only those hold messages.
AllocatedInv ==
  /\ \A h \in Handlers : box[h] # NoBox => owner[box[h]] # NoId
  /\ \A b \in Boxes : owner[b] = NoId => queue[b] = <<>>

\* Queues and pulled batches hold accepted messages in order of acceptance;
\* a message still to be pushed has not been accepted.
OrderInv ==
  /\ \A m \in Messages : stamp[m] <= accepts
  /\ \A h \in Handlers : msg[h] # NoMessage => stamp[msg[h]] = 0
  /\ \A b \in Boxes : \A i \in 1..Len(queue[b]) :
       /\ stamp[queue[b][i]] > 0
       /\ \A j \in 1..Len(queue[b]) : i < j => stamp[queue[b][i]] < stamp[queue[b][j]]
  /\ \A h \in Pulling : \A i \in 1..Len(batch[h]) :
       /\ stamp[batch[h][i]] > 0
       /\ \A j \in 1..Len(batch[h]) : i < j => stamp[batch[h][i]] < stamp[batch[h][j]]

WipedInv == \A m \in wiped : stamp[m] > 0

BoundInv == \A b \in Boxes : Len(queue[b]) <= MaxMailboxSize \/ Len(queue[b]) <= 1

IInv ==
  /\ TypeOK /\ HandlersInv /\ CleanInv /\ OwnerInv /\ AllocatedInv
  /\ OrderInv /\ WipedInv /\ BoundInv
  /\ AccountsMatchMailboxes /\ EachMessageInOnePlace /\ PullsIntact

\* What the store shows of itself to MailboxPromise: a mailbox is what the map
\* holds for its id.  An object the map holds no longer is out of the reach of
\* every request but those that had looked it up before: its messages are
\* stray, its handlers late.
InMap(b) == owner[b] # NoId /\ mailboxes[owner[b]] = b

Held ==
  [id \in MailboxIds |-> IF mailboxes[id] = NoBox THEN {} ELSE ToSet(queue[mailboxes[id]])]

Used == [id \in MailboxIds |-> IF mailboxes[id] = NoBox THEN -1 ELSE lastAccess[mailboxes[id]]]

Found == [h \in Handlers |-> IF box[h] = NoBox THEN NoId ELSE owner[box[h]]]

Late == {h \in Handlers : box[h] # NoBox /\ ~InMap(box[h])}

Stray ==
  [id \in MailboxIds |->
     UNION {ToSet(queue[b]) : b \in {c \in Boxes : owner[c] = id /\ ~InMap(c)}}]

Doomed == IF cleanPc = "delete" THEN cleaning ELSE NoId

Answers == [h \in Handlers |-> IF pc[h] = "encode" THEN batch[h] ELSE <<>>]

Promise == INSTANCE MailboxPromise WITH
  Limit  <- MaxMailboxSize,
  TTL    <- MessageTTL,
  rank   <- stamp,
  held   <- Held,
  used   <- Used,
  born   <- createdAt,
  clock  <- now,
  found  <- Found,
  late   <- Late,
  stray  <- Stray,
  doomed <- Doomed,
  answer <- Answers

\* The store keeps the promise of MailboxPromise: an accepted message stays in
\* its mailbox, where every request for that id finds it, until a pull takes
\* all of the mailbox in order of acceptance, until it is the oldest of a full
\* mailbox, until it has outlived its TTL or the process ends.  The one other
\* way out is the cleanup's deletion: a mailbox that was empty and unused for
\* 2 * TTL when the cleanup looked may get a message, from a push that had
\* looked it up before, and takes it along.
KeepsPromise == Promise!Spec

\* The lifetime README and config promise: once a message of a mailbox has
\* outlived its TTL, the cleanup removes it even if nobody pulls.
ExpiredMessagesGo ==
  \A m \in Messages, id \in MailboxIds :
    (Holds(id, m) /\ now - createdAt[m] > MessageTTL) ~> ~Holds(id, m)

\* Every request that has been taken up is answered: no handler waits for a
\* lock for ever, in handlePush's second reading of the mailbox either.
RequestsAnswered == \A h \in Handlers : pc[h] # "idle" ~> pc[h] = "idle"

=============================================================================
