--------------------------- MODULE StorageProofs ---------------------------
(***************************************************************************)
(* The mailbox store for any number of mailboxes, messages and handlers    *)
(* and any limits: IInv is inductive, so the store counts its accounts     *)
(* right, gives a message out at most once and never in a wiped state.     *)
(*                                                                         *)
(* The proof goes part by part of IInv: types, the handlers' local         *)
(* variables, the map with the cleanup and the count, and last the content *)
(* of queues and batches, where the order of acceptance (stamp) is what    *)
(* makes a message recognisable wherever it is.                            *)
(***************************************************************************)
EXTENDS Storage, TLAPS, FiniteSetTheorems, SequenceTheorems

\* RemoveAt drops the k-th element and moves up the later ones: the unlinking
\* of one list element in CleanupExpired.
LEMMA RemoveAtProperties ==
  ASSUME NEW S, NEW s \in Seq(S), NEW k \in 1..Len(s)
  PROVE  /\ RemoveAt(s, k) \in Seq(S)
         /\ Len(RemoveAt(s, k)) = Len(s) - 1
         /\ \A i \in 1..(Len(s) - 1) : RemoveAt(s, k)[i] = IF i < k THEN s[i] ELSE s[i + 1]
<1> DEFINE l == SubSeq(s, 1, k - 1)
           r == SubSeq(s, k + 1, Len(s))
<1>1. /\ l \in Seq(S) /\ Len(l) = k - 1
      /\ \A i \in 1..(k - 1) : l[i] = s[i]
  BY SubSeqProperties
<1>2. /\ r \in Seq(S) /\ Len(r) = Len(s) - k
      /\ \A i \in 1..(Len(s) - k) : r[i] = s[k + i]
  BY SubSeqProperties
<1>3. RemoveAt(s, k) = l \o r
  BY DEF RemoveAt
<1> HIDE DEF l, r
<1>4. /\ l \o r \in Seq(S) /\ Len(l \o r) = Len(l) + Len(r)
      /\ \A i \in 1..(Len(l) + Len(r)) : (l \o r)[i] = IF i <= Len(l) THEN l[i] ELSE r[i - Len(l)]
  BY <1>1, <1>2, ConcatProperties
<1>5. k \in Nat /\ Len(s) \in Nat /\ k >= 1 /\ k <= Len(s)
  OBVIOUS
<1>6. ASSUME NEW i \in 1..(Len(s) - 1)
      PROVE  (l \o r)[i] = IF i < k THEN s[i] ELSE s[i + 1]
  <2>1. CASE i < k
    BY <1>1, <1>2, <1>4, <1>5, <2>1
  <2>2. CASE ~(i < k)
    <3>1. i - (k - 1) \in 1..(Len(s) - k)
      BY <1>5, <2>2
    <3>2. r[i - (k - 1)] = s[k + (i - (k - 1))] /\ k + (i - (k - 1)) = i + 1
      BY <1>2, <1>5, <3>1
    <3>3. (l \o r)[i] = r[i - (k - 1)]
      BY <1>1, <1>2, <1>4, <1>5, <2>2
    <3> QED
      BY <2>2, <3>2, <3>3
  <2> QED
    BY <2>1, <2>2
<1>7. Len(l) + Len(r) = Len(s) - 1
  BY <1>1, <1>2, <1>5
<1> QED
  BY <1>3, <1>4, <1>6, <1>7

\* The queue after Mailbox.Push: at most one message is given up, from the
\* front, and the new one is last; the length keeps to the limit, or to one.
LEMMA PushProperties ==
  ASSUME NEW q \in Seq(Messages), NEW m \in Messages
  PROVE  LET p == Append(Evicted(q), m)
         IN /\ p \in Seq(Messages)
            /\ \/ /\ Len(p) = Len(q) + 1
                  /\ \A i \in 1..Len(q) : p[i] = q[i]
                  /\ p[Len(q) + 1] = m
                  /\ Len(q) < MaxMailboxSize \/ Len(q) = 0
               \/ /\ Len(p) = Len(q) /\ Len(q) > 0
                  /\ \A i \in 1..(Len(q) - 1) : p[i] = q[i + 1]
                  /\ p[Len(q)] = m
  BY StorageAssumption DEF Evicted

\* A server that has just started satisfies the inductive invariant.
LEMMA InitInv == Init => IInv
<1> SUFFICES ASSUME Init PROVE IInv
  OBVIOUS
<1>1. TypeOK
  BY StorageAssumption DEF Init, TypeOK, HandlerPcs, CleanPcs
<1>2. HandlersInv /\ CleanInv /\ OwnerInv /\ AllocatedInv /\ OrderInv /\ WipedInv /\ BoundInv
  BY DEF Init, HandlersInv, CleanInv, OwnerInv, AllocatedInv, OrderInv, WipedInv, BoundInv, Live, Pulling
<1>3. Live = {}
  BY DEF Init, Live
<1>4. AccountsMatchMailboxes
  BY <1>3, FS_EmptySet DEF Init, AccountsMatchMailboxes
<1>5. EachMessageInOnePlace /\ PullsIntact
  BY DEF Init, EachMessageInOnePlace, PullsIntact, Pulling
<1> QED
  BY <1>1, <1>2, <1>4, <1>5 DEF IInv

\* Every step of a handler, of the cleanup and of the environment preserves
\* the types.
LEMMA TypeStep == IInv /\ [Next]_vars => TypeOK'
<1> SUFFICES ASSUME IInv, [Next]_vars PROVE TypeOK'
  OBVIOUS
<1> USE StorageAssumption DEF TypeOK, IInv, HandlerPcs, CleanPcs,
        mapVars, boxVars, msgVars, handlerVars, cleanVars, clockVars
<1>1. ASSUME NEW id \in MailboxIds, RegisterDevice(id) PROVE TypeOK'
  BY <1>1 DEF RegisterDevice, NewMailbox
<1>2. ASSUME NEW h \in Handlers, NEW id \in MailboxIds, NEW m \in Messages, StoreLookup(h, id, m)
      PROVE  TypeOK'
  BY <1>2 DEF StoreLookup
<1>3. ASSUME NEW h \in Handlers, NEW id \in MailboxIds,
             Lookup(h, id, "drain") \/ Lookup(h, id, "view")
      PROVE  TypeOK'
  BY <1>3 DEF Lookup
<1>4. ASSUME NEW h \in Handlers, StoreCreate(h) PROVE TypeOK'
  <2>1. target[h] \in MailboxIds
    BY <1>4 DEF StoreCreate, HandlersInv
  <2>2. CASE mailboxes[target[h]] # NoBox
    <3>1. /\ box' = [box EXCEPT ![h] = mailboxes[target[h]]]
          /\ pc' = [pc EXCEPT ![h] = "stamp"]
          /\ UNCHANGED <<mapVars, boxVars>>
          /\ UNCHANGED <<msgVars, target, msg, batch, encoded, cleanVars, clockVars>>
      BY <1>4, <2>2 DEF StoreCreate, NewMailbox
    <3>2. mailboxes[target[h]] \in Boxes \cup {NoBox}
      BY <2>1
    <3> QED
      BY <3>1, <3>2
  <2>3. CASE mailboxes[target[h]] = NoBox
    <3>1. PICK b \in Boxes : NewMailbox(target[h], b) /\ box' = [box EXCEPT ![h] = b]
      BY <1>4, <2>3 DEF StoreCreate
    <3>2. /\ owner' = [owner EXCEPT ![b] = target[h]]
          /\ mailboxes' = [mailboxes EXCEPT ![target[h]] = b]
          /\ accountCount' = accountCount + 1
          /\ lastAccess' = [lastAccess EXCEPT ![b] = now]
          /\ box' = [box EXCEPT ![h] = b]
          /\ UNCHANGED <<queue, stamp, accepts>>
      BY <3>1 DEF NewMailbox
    <3>3. /\ pc' = [pc EXCEPT ![h] = "stamp"]
          /\ UNCHANGED <<msgVars, target, msg, batch, encoded, cleanVars, clockVars>>
      BY <1>4 DEF StoreCreate
    <3> QED
      BY <2>1, <3>2, <3>3
  <2> QED
    BY <2>2, <2>3
<1>5. ASSUME NEW h \in Handlers, StoreStamp(h) PROVE TypeOK'
  BY <1>5 DEF StoreStamp, HandlersInv
<1>6. ASSUME NEW h \in Handlers, Push(h) PROVE TypeOK'
  <2>1. box[h] \in Boxes /\ msg[h] \in Messages
    BY <1>6 DEF Push, HandlersInv
  <2>2. Append(Evicted(queue[box[h]]), msg[h]) \in Seq(Messages)
    BY <2>1, PushProperties
  <2>3. /\ queue' = [queue EXCEPT ![box[h]] = Append(Evicted(queue[box[h]]), msg[h])]
        /\ lastAccess' = [lastAccess EXCEPT ![box[h]] = now]
        /\ accepts' = accepts + 1
        /\ stamp' = [stamp EXCEPT ![msg[h]] = accepts + 1]
    BY <1>6 DEF Push
  <2>4. /\ pc' = [pc EXCEPT ![h] = "size"]
        /\ box' = [box EXCEPT ![h] = NoBox]
        /\ msg' = [msg EXCEPT ![h] = NoMessage]
        /\ UNCHANGED <<mapVars, msgVars, target, batch, encoded, cleanVars, clockVars>>
    BY <1>6 DEF Push
  <2>5. /\ queue' \in [Boxes -> Seq(Messages)]
        /\ lastAccess' \in [Boxes -> Nat]
        /\ accepts' \in Nat
        /\ stamp' \in [Messages -> Nat]
    BY <2>1, <2>2, <2>3
  <2>6. /\ pc' \in [Handlers -> HandlerPcs]
        /\ target' \in [Handlers -> MailboxIds \cup {NoId}]
        /\ box' \in [Handlers -> Boxes \cup {NoBox}]
        /\ msg' \in [Handlers -> Messages \cup {NoMessage}]
    BY <2>4
  <2> QED
    BY <2>4, <2>5, <2>6
<1>7. ASSUME NEW h \in Handlers, Pull(h) PROVE TypeOK'
  BY <1>7 DEF Pull, HandlersInv
<1>8. ASSUME NEW h \in Handlers, EncodeAndWipe(h) PROVE TypeOK'
  BY SMTT(40), <1>8 DEF EncodeAndWipe, HandlersInv
<1>9. ASSUME NEW h \in Handlers, Peek(h) PROVE TypeOK'
  BY <1>9 DEF Peek, HandlersInv
<1>10. ASSUME NEW h \in Handlers, Respond(h) PROVE TypeOK'
  BY <1>10 DEF Respond
<1>11. ASSUME CleanStart PROVE TypeOK'
  BY <1>11 DEF CleanStart, Live
<1>12. ASSUME NEW id \in MailboxIds, CleanNext(id) PROVE TypeOK'
  BY <1>12 DEF CleanNext
<1>13. ASSUME CleanScan PROVE TypeOK'
  <2> DEFINE b == mailboxes[cleaning]
  <2>1. b \in Boxes /\ queue[b] \in Seq(Messages) /\ cursor \in 1..Len(queue[b])
    BY <1>13 DEF CleanScan, CleanInv, Live
  <2>2. RemoveAt(queue[b], cursor) \in Seq(Messages)
    BY <2>1, RemoveAtProperties
  <2>3. queue[b][cursor] \in Messages
    BY <2>1
  <2>4. /\ queue' \in [Boxes -> Seq(Messages)]
        /\ wiped' \in SUBSET Messages
        /\ cursor' \in Nat
    <3>1. CASE Expired(queue[b][cursor])
      <4>1. /\ queue' = [queue EXCEPT ![b] = RemoveAt(queue[b], cursor)]
            /\ wiped' = wiped \cup {queue[b][cursor]}
            /\ cursor' = cursor
        BY <1>13, <3>1 DEF CleanScan
      <4> QED
        BY <2>1, <2>2, <2>3, <4>1
    <3>2. CASE ~Expired(queue[b][cursor])
      BY <1>13, <3>2 DEF CleanScan
    <3> QED
      BY <3>1, <3>2
  <2> QED
    BY <1>13, <2>4 DEF CleanScan
<1>14. ASSUME CleanUnlock PROVE TypeOK'
  BY <1>14 DEF CleanUnlock
<1>15. ASSUME CleanCheck PROVE TypeOK'
  BY <1>15 DEF CleanCheck
<1>16. ASSUME CleanDelete PROVE TypeOK'
  <2>1. cleaning \in Live /\ IsFiniteSet(Live)
    BY <1>16, FS_Subset DEF CleanDelete, CleanInv, Live
  <2>2. accountCount > 0
    BY <2>1, FS_EmptySet, FS_CardinalityType DEF AccountsMatchMailboxes
  <2>3. accountCount - 1 \in Nat
    BY <2>2
  <2>4. mailboxes' \in [MailboxIds -> Boxes \cup {NoBox}]
    BY <1>16 DEF CleanDelete
  <2> QED
    BY <1>16, <2>3, <2>4 DEF CleanDelete
<1>17. ASSUME CleanDone PROVE TypeOK'
  BY <1>17 DEF CleanDone
<1>18. ASSUME Tick PROVE TypeOK'
  BY <1>18 DEF Tick
<1>19. ASSUME Restart PROVE TypeOK'
  BY <1>19 DEF Restart
<1>20. CASE UNCHANGED vars
  BY <1>20 DEF vars
<1>21. ASSUME NEW h \in Handlers, SizeLookup(h) PROVE TypeOK'
  BY <1>21 DEF SizeLookup, HandlersInv
<1>22. ASSUME NEW h \in Handlers, Count(h) PROVE TypeOK'
  BY <1>22 DEF Count
<1> QED
  BY <1>1, <1>2, <1>3, <1>4, <1>5, <1>6, <1>7, <1>8, <1>9, <1>10, <1>11, <1>12, <1>13,
     <1>14, <1>15, <1>16, <1>17, <1>18, <1>19, <1>20, <1>21, <1>22 DEF Next, Arrive, Handle, Clean

\* What a handler keeps in its local variables fits the place it is at.
Fits(h) ==
  /\ pc[h] \in {"create", "stamp", "push", "size"} => target[h] # NoId
  /\ pc[h] \in {"stamp", "push", "count", "drain", "view"} <=> box[h] # NoBox
  /\ pc[h] \in {"create", "stamp", "push"} <=> msg[h] # NoMessage
  /\ pc[h] \notin {"encode", "show"} => batch[h] = <<>>
  /\ pc[h] # "encode" => encoded[h] = 0
  /\ encoded[h] <= Len(batch[h])

\* A step of one handler keeps HandlersInv when its own variables fit again and
\* it has taken up no message another one holds.
LEMMA HandlerMoves ==
  ASSUME NEW h \in Handlers, HandlersInv, Fits(h)',
         \A g \in Handlers \ {h} :
           /\ pc'[g] = pc[g] /\ target'[g] = target[g] /\ box'[g] = box[g]
           /\ msg'[g] = msg[g] /\ batch'[g] = batch[g] /\ encoded'[g] = encoded[g],
         msg'[h] \in {msg[h], NoMessage} \/ \A g \in Handlers : msg[g] # msg'[h]
  PROVE  HandlersInv'
<1>1. ASSUME NEW g \in Handlers PROVE Fits(g)'
  BY <1>1 DEF HandlersInv, Fits
<1>2. ASSUME NEW f \in Handlers, NEW g \in Handlers, msg'[f] = msg'[g], f # g
      PROVE  msg'[g] = NoMessage
  <2>1. \A x, y \in Handlers : msg[x] = msg[y] /\ x # y => msg[y] = NoMessage
    BY DEF HandlersInv
  <2> QED
    BY <1>2, <2>1
<1> QED
  BY <1>1, <1>2 DEF HandlersInv, Fits

\* Every step keeps the local variables of a handler fit for the place it is
\* at, and a message in the hands of one handler only.
LEMMA HandlersStep == IInv /\ [Next]_vars => HandlersInv'
<1> SUFFICES ASSUME IInv, [Next]_vars PROVE HandlersInv'
  OBVIOUS
<1> USE StorageAssumption DEF IInv, TypeOK, HandlersInv, HandlerPcs,
        mapVars, boxVars, msgVars, handlerVars, cleanVars, clockVars
<1>1. ASSUME UNCHANGED handlerVars PROVE HandlersInv'
  BY <1>1
<1>2. ASSUME NEW h \in Handlers, NEW id \in MailboxIds, NEW m \in Messages, StoreLookup(h, id, m)
      PROVE  HandlersInv'
  <2>1. /\ pc[h] = "idle" /\ \A g \in Handlers : msg[g] # m
        /\ target' = [target EXCEPT ![h] = id]
        /\ msg' = [msg EXCEPT ![h] = m]
        /\ box' = [box EXCEPT ![h] = mailboxes[id]]
        /\ pc' = [pc EXCEPT ![h] = IF mailboxes[id] = NoBox THEN "create" ELSE "stamp"]
        /\ UNCHANGED <<batch, encoded>>
    BY <1>2 DEF StoreLookup
  <2>2. /\ pc'[h] \in {"create", "stamp"} /\ target'[h] = id /\ msg'[h] = m
        /\ pc'[h] = "stamp" <=> box'[h] # NoBox
        /\ batch'[h] = <<>> /\ encoded'[h] = 0
    BY <2>1
  <2>3. \A g \in Handlers \ {h} :
           /\ pc'[g] = pc[g] /\ target'[g] = target[g] /\ box'[g] = box[g]
           /\ msg'[g] = msg[g] /\ batch'[g] = batch[g] /\ encoded'[g] = encoded[g]
    BY <2>1
  <2>4. Fits(h)'
    BY <2>2 DEF Fits
  <2>5. HandlersInv /\ \A g \in Handlers : msg[g] # msg'[h]
    BY <2>1, <2>2
  <2> HIDE DEF IInv, TypeOK, HandlersInv
  <2> QED
    BY <2>3, <2>4, <2>5, HandlerMoves
<1>3. ASSUME NEW h \in Handlers, NEW id \in MailboxIds,
             Lookup(h, id, "drain") \/ Lookup(h, id, "view")
      PROVE  HandlersInv'
  <2>1. /\ pc[h] = "idle" /\ mailboxes[id] # NoBox
        /\ box' = [box EXCEPT ![h] = mailboxes[id]]
        /\ pc' = [pc EXCEPT ![h] = "drain"] \/ pc' = [pc EXCEPT ![h] = "view"]
        /\ UNCHANGED <<target, msg, batch, encoded>>
    BY <1>3 DEF Lookup
  <2>2. /\ pc'[h] \in {"drain", "view"} /\ box'[h] # NoBox
        /\ msg'[h] = NoMessage /\ batch'[h] = <<>> /\ encoded'[h] = 0
    BY <2>1
  <2>3. \A g \in Handlers \ {h} :
           /\ pc'[g] = pc[g] /\ target'[g] = target[g] /\ box'[g] = box[g]
           /\ msg'[g] = msg[g] /\ batch'[g] = batch[g] /\ encoded'[g] = encoded[g]
    BY <2>1
  <2>4. Fits(h)' /\ HandlersInv
    BY <2>2 DEF Fits
  <2> HIDE DEF IInv, TypeOK, HandlersInv
  <2> QED
    BY <2>2, <2>3, <2>4, HandlerMoves
<1>4. ASSUME NEW h \in Handlers, StoreCreate(h) PROVE HandlersInv'
  <2>1. PICK b \in Boxes :
          /\ pc[h] = "create" /\ pc' = [pc EXCEPT ![h] = "stamp"]
          /\ box' = [box EXCEPT ![h] = b]
          /\ UNCHANGED <<target, msg, batch, encoded>>
    BY <1>4 DEF StoreCreate
  <2> QED
    BY <2>1
<1>5. ASSUME NEW h \in Handlers, StoreStamp(h) PROVE HandlersInv'
  BY <1>5 DEF StoreStamp
<1>6. ASSUME NEW h \in Handlers, Push(h) PROVE HandlersInv'
  BY <1>6 DEF Push
<1>7. ASSUME NEW h \in Handlers, Pull(h) PROVE HandlersInv'
  BY <1>7 DEF Pull
<1>8. ASSUME NEW h \in Handlers, EncodeAndWipe(h) PROVE HandlersInv'
  BY <1>8 DEF EncodeAndWipe
<1>9. ASSUME NEW h \in Handlers, Peek(h) PROVE HandlersInv'
  BY <1>9 DEF Peek
<1>10. ASSUME NEW h \in Handlers, Respond(h) PROVE HandlersInv'
  BY <1>10 DEF Respond
<1>11. ASSUME Restart PROVE HandlersInv'
  BY <1>11 DEF Restart
<1>12. ASSUME NEW h \in Handlers, SizeLookup(h) PROVE HandlersInv'
  BY <1>12 DEF SizeLookup
<1>13. ASSUME NEW h \in Handlers, Count(h) PROVE HandlersInv'
  BY <1>13 DEF Count
<1> QED
  BY <1>1, <1>2, <1>3, <1>4, <1>5, <1>6, <1>7, <1>8, <1>9, <1>10, <1>11, <1>12, <1>13
     DEF Next, Arrive, Handle, Clean, RegisterDevice, CleanStart, CleanNext, CleanScan,
         CleanUnlock, CleanCheck, CleanDelete, CleanDone, Tick, vars

\* Every step keeps the map, the count of its mailboxes and the cleanup's view
\* of it together: an object is installed only where there is none, and only
\* the cleanup takes one out, which it has not yet visited twice.
LEMMA MapStep == IInv /\ [Next]_vars => CleanInv' /\ OwnerInv' /\ AccountsMatchMailboxes'
<1> SUFFICES ASSUME IInv, [Next]_vars PROVE CleanInv' /\ OwnerInv' /\ AccountsMatchMailboxes'
  OBVIOUS
<1> USE StorageAssumption DEF IInv, TypeOK, CleanPcs, Live,
        mapVars, boxVars, msgVars, handlerVars, cleanVars, clockVars
<1>1. IsFiniteSet(Live)
  BY FS_Subset
<1>2. ASSUME NEW id \in MailboxIds, NEW b \in Boxes, NewMailbox(id, b), mailboxes[id] = NoBox,
             MapFree, UNCHANGED <<cleanVars, clockVars>>
      PROVE  CleanInv' /\ OwnerInv' /\ AccountsMatchMailboxes'
  <2>1. Live' = Live \cup {id} /\ id \notin Live
    BY <1>2 DEF NewMailbox
  <2>2. AccountsMatchMailboxes'
    BY <1>1, <1>2, <2>1, FS_AddElement DEF NewMailbox, AccountsMatchMailboxes
  <2>3. CleanInv'
    BY <1>2 DEF NewMailbox, MapFree, CleanInv
  <2>4. OwnerInv'
    BY <1>2 DEF NewMailbox, OwnerInv
  <2> QED
    BY <2>2, <2>3, <2>4
<1>3. ASSUME NEW id \in MailboxIds, RegisterDevice(id)
      PROVE CleanInv' /\ OwnerInv' /\ AccountsMatchMailboxes'
  BY <1>2, <1>3 DEF RegisterDevice
<1>4. ASSUME UNCHANGED <<mailboxes, accountCount, owner, cleanVars>>, now' \in Nat, now' >= now
      PROVE CleanInv' /\ OwnerInv' /\ AccountsMatchMailboxes'
  BY <1>4 DEF CleanInv, OwnerInv, AccountsMatchMailboxes
<1>5. ASSUME NEW h \in Handlers, StoreCreate(h)
      PROVE CleanInv' /\ OwnerInv' /\ AccountsMatchMailboxes'
  <2>1. target[h] \in MailboxIds
    BY <1>5 DEF StoreCreate, HandlersInv
  <2>2. CASE mailboxes[target[h]] # NoBox
    BY <1>4, <1>5, <2>2 DEF StoreCreate
  <2>3. CASE mailboxes[target[h]] = NoBox
    BY <1>2, <1>5, <2>1, <2>3 DEF StoreCreate
  <2> QED
    BY <2>2, <2>3
<1>6. ASSUME CleanStart PROVE CleanInv' /\ OwnerInv' /\ AccountsMatchMailboxes'
  BY <1>6 DEF CleanStart, CleanInv, OwnerInv, AccountsMatchMailboxes
<1>7. ASSUME NEW id \in MailboxIds, CleanNext(id)
      PROVE CleanInv' /\ OwnerInv' /\ AccountsMatchMailboxes'
  BY <1>7 DEF CleanNext, CleanInv, OwnerInv, AccountsMatchMailboxes
<1>8. ASSUME CleanScan PROVE CleanInv' /\ OwnerInv' /\ AccountsMatchMailboxes'
  BY <1>8 DEF CleanScan, CleanInv, OwnerInv, AccountsMatchMailboxes
<1>9. ASSUME CleanUnlock PROVE CleanInv' /\ OwnerInv' /\ AccountsMatchMailboxes'
  BY <1>9 DEF CleanUnlock, CleanInv, OwnerInv, AccountsMatchMailboxes
<1>10. ASSUME CleanCheck PROVE CleanInv' /\ OwnerInv' /\ AccountsMatchMailboxes'
  BY <1>10 DEF CleanCheck, CleanInv, OwnerInv, AccountsMatchMailboxes
<1>11. ASSUME CleanDelete PROVE CleanInv' /\ OwnerInv' /\ AccountsMatchMailboxes'
  <2>1. cleaning \in Live /\ cleaning \notin todo
    BY <1>11 DEF CleanDelete, CleanInv
  <2>2. Live' = Live \ {cleaning}
    BY <1>11, <2>1 DEF CleanDelete
  <2>3. AccountsMatchMailboxes'
    <3> HIDE DEF Live
    <3>1. Cardinality(Live \ {cleaning}) = Cardinality(Live) - 1
      BY <1>1, <2>1, FS_RemoveElement
    <3>2. accountCount' = accountCount - 1
      BY <1>11 DEF CleanDelete
    <3> QED
      BY <2>2, <3>1, <3>2 DEF AccountsMatchMailboxes
  <2>4. CleanInv'
    BY <1>11, <2>1, <2>2 DEF CleanDelete, CleanInv
  <2>5. OwnerInv'
    BY <1>11, <2>2 DEF CleanDelete, OwnerInv
  <2> QED
    BY <2>3, <2>4, <2>5
<1>12. ASSUME CleanDone PROVE CleanInv' /\ OwnerInv' /\ AccountsMatchMailboxes'
  BY <1>12 DEF CleanDone, CleanInv, OwnerInv, AccountsMatchMailboxes
<1>13. ASSUME Restart PROVE CleanInv' /\ OwnerInv' /\ AccountsMatchMailboxes'
  <2>1. Live' = {}
    BY <1>13 DEF Restart
  <2>2. CleanInv' /\ OwnerInv'
    BY <1>13, <2>1 DEF Restart, CleanInv, OwnerInv
  <2>3. AccountsMatchMailboxes'
    <3> HIDE DEF Live
    <3> QED
      BY <1>13, <2>1, FS_EmptySet DEF Restart, AccountsMatchMailboxes
  <2> QED
    BY <2>2, <2>3
<1> HIDE DEF TypeOK
<1>14. now \in Nat
  BY DEF TypeOK
<1> QED
  BY <1>3, <1>4, <1>5, <1>6, <1>7, <1>8, <1>9, <1>10, <1>11, <1>12, <1>13, <1>14
     DEF Next, Arrive, Handle, Clean, StoreLookup, Lookup, StoreStamp, Push, SizeLookup, Count,
         Pull, EncodeAndWipe, Peek, Respond, Tick, vars

\* An object is allocated before a handler gets hold of it or a message gets
\* into it, and stays so until the process ends.
LEMMA AllocatedStep == IInv /\ [Next]_vars => AllocatedInv'
<1> SUFFICES ASSUME IInv, [Next]_vars PROVE AllocatedInv'
  OBVIOUS
<1> USE StorageAssumption DEF mapVars, boxVars, msgVars, handlerVars, cleanVars, clockVars
<1>1. /\ box \in [Handlers -> Boxes \cup {NoBox}] /\ owner \in [Boxes -> MailboxIds \cup {NoId}]
      /\ queue \in [Boxes -> Seq(Messages)] /\ mailboxes \in [MailboxIds -> Boxes \cup {NoBox}]
      /\ target \in [Handlers -> MailboxIds \cup {NoId}]
  BY DEF IInv, TypeOK
<1>2. /\ \A h \in Handlers : box[h] # NoBox => owner[box[h]] # NoId
      /\ \A b \in Boxes : owner[b] = NoId => queue[b] = <<>>
      /\ \A id \in MailboxIds : mailboxes[id] # NoBox => owner[mailboxes[id]] # NoId
  BY <1>1 DEF IInv, AllocatedInv, OwnerInv, Live
<1>3. ASSUME UNCHANGED owner,
             \A h \in Handlers : \/ box'[h] = box[h] \/ box'[h] = NoBox
                                 \/ \E id \in MailboxIds : box'[h] = mailboxes[id],
             \A b \in Boxes : queue'[b] = queue[b] \/ queue'[b] = <<>> \/ owner[b] # NoId
      PROVE  AllocatedInv'
  BY <1>1, <1>2, <1>3 DEF AllocatedInv
<1>4. ASSUME NEW id \in MailboxIds, NEW c \in Boxes, NewMailbox(id, c),
             \A h \in Handlers : box'[h] = box[h] \/ box'[h] = c
      PROVE  AllocatedInv'
  <2>1. owner[c] = NoId /\ UNCHANGED queue /\ \A b \in Boxes : owner'[b] = IF b = c THEN id ELSE owner[b]
    BY <1>1, <1>4 DEF NewMailbox
  <2> QED
    BY <1>1, <1>2, <1>4, <2>1 DEF AllocatedInv
<1>5. ASSUME NEW id \in MailboxIds, RegisterDevice(id) PROVE AllocatedInv'
  BY <1>4, <1>5 DEF RegisterDevice
<1>6. ASSUME NEW h \in Handlers, NEW id \in MailboxIds, NEW m \in Messages, StoreLookup(h, id, m)
      PROVE  AllocatedInv'
  BY <1>1, <1>3, <1>6 DEF StoreLookup
<1>7. ASSUME NEW h \in Handlers, NEW id \in MailboxIds,
             Lookup(h, id, "drain") \/ Lookup(h, id, "view")
      PROVE  AllocatedInv'
  BY <1>1, <1>3, <1>7 DEF Lookup
<1>8. ASSUME NEW h \in Handlers, StoreCreate(h) PROVE AllocatedInv'
  <2>1. target[h] \in MailboxIds
    BY <1>1, <1>8 DEF StoreCreate, IInv, HandlersInv
  <2>2. CASE mailboxes[target[h]] # NoBox
    BY <1>1, <1>3, <1>8, <2>1, <2>2 DEF StoreCreate
  <2>3. CASE mailboxes[target[h]] = NoBox
    BY <1>1, <1>4, <1>8, <2>1, <2>3 DEF StoreCreate
  <2> QED
    BY <2>2, <2>3
<1>9. ASSUME NEW h \in Handlers, Push(h) PROVE AllocatedInv'
  <2>1. box[h] \in Boxes /\ owner[box[h]] # NoId
    BY <1>1, <1>2, <1>9 DEF Push, IInv, HandlersInv
  <2>2. /\ UNCHANGED owner
        /\ \A g \in Handlers : box'[g] = box[g] \/ box'[g] = NoBox
        /\ \A b \in Boxes : b # box[h] => queue'[b] = queue[b]
    BY <1>1, <1>9 DEF Push
  <2> QED
    BY <1>3, <2>1, <2>2
<1>10. ASSUME NEW h \in Handlers, SizeLookup(h) PROVE AllocatedInv'
  <2>1. target[h] \in MailboxIds
    BY <1>1, <1>10 DEF SizeLookup, IInv, HandlersInv
  <2> QED
    BY <1>1, <1>3, <1>10, <2>1 DEF SizeLookup
<1>11. ASSUME NEW h \in Handlers, Count(h) \/ Peek(h) PROVE AllocatedInv'
  BY <1>1, <1>3, <1>11 DEF Count, Peek
<1>12. ASSUME NEW h \in Handlers, Pull(h) PROVE AllocatedInv'
  BY <1>1, <1>3, <1>12 DEF Pull
<1>13. ASSUME CleanScan PROVE AllocatedInv'
  <2>1. mailboxes[cleaning] \in Boxes /\ owner[mailboxes[cleaning]] # NoId
    BY <1>1, <1>2, <1>13 DEF CleanScan, IInv, CleanInv, Live
  <2>2. /\ UNCHANGED <<owner, box>>
        /\ \A b \in Boxes : b # mailboxes[cleaning] => queue'[b] = queue[b]
    BY <1>1, <1>13 DEF CleanScan
  <2> QED
    BY <1>3, <2>1, <2>2
<1>14. ASSUME Restart PROVE AllocatedInv'
  BY <1>14 DEF Restart, AllocatedInv
<1>15. ASSUME UNCHANGED <<owner, box, queue>> PROVE AllocatedInv'
  BY <1>3, <1>15
<1> QED
  BY <1>5, <1>6, <1>7, <1>8, <1>9, <1>10, <1>11, <1>12, <1>13, <1>14, <1>15
     DEF Next, Arrive, Handle, Clean, StoreStamp, EncodeAndWipe, Respond, CleanStart, CleanNext,
         CleanUnlock, CleanCheck, CleanDelete, CleanDone, Tick, vars

\* The part of IInv that is about messages.
ContentInv ==
  OrderInv /\ WipedInv /\ BoundInv /\ EachMessageInOnePlace /\ PullsIntact

\* Push appends m to the queue of b, after giving up its first message when
\* it is full: every other entry of the new queues is an entry of an old one.
LEMMA PushContent ==
  ASSUME NEW h \in Handlers, IInv, Push(h)
  PROVE  ContentInv'
<1> DEFINE b == box[h]
           m == msg[h]
           p == Append(Evicted(queue[b]), m)
<1>1. /\ b \in Boxes /\ m \in Messages /\ stamp[m] = 0
      /\ queue \in [Boxes -> Seq(Messages)] /\ stamp \in [Messages -> Nat]
      /\ accepts \in Nat /\ wiped \subseteq Messages
      /\ batch \in [Handlers -> Seq(Messages)] /\ msg \in [Handlers -> Messages \cup {NoMessage}]
      /\ pc \in [Handlers -> HandlerPcs]
  BY DEF Push, HandlersInv, OrderInv, IInv, TypeOK
<1>2. OrderInv /\ WipedInv /\ BoundInv /\ EachMessageInOnePlace /\ PullsIntact /\ HandlersInv
  BY DEF IInv
<1>3. /\ queue' = [queue EXCEPT ![b] = p]
      /\ stamp' = [stamp EXCEPT ![m] = accepts + 1] /\ accepts' = accepts + 1
      /\ msg' = [msg EXCEPT ![h] = NoMessage]
      /\ pc[h] = "push" /\ pc' = [pc EXCEPT ![h] = "size"]
      /\ UNCHANGED <<wiped, batch, encoded>>
  BY DEF Push, msgVars
<1>4. /\ p \in Seq(Messages)
      /\ \/ /\ Len(p) = Len(queue[b]) + 1
            /\ \A i \in 1..Len(queue[b]) : p[i] = queue[b][i]
            /\ p[Len(queue[b]) + 1] = m
            /\ Len(queue[b]) < MaxMailboxSize \/ Len(queue[b]) = 0
         \/ /\ Len(p) = Len(queue[b]) /\ Len(queue[b]) > 0
            /\ \A i \in 1..(Len(queue[b]) - 1) : p[i] = queue[b][i + 1]
            /\ p[Len(queue[b])] = m
  BY <1>1, PushProperties
<1>5. m # NoMessage
  BY <1>1, StorageAssumption
<1> HIDE DEF b, m, p
<1>6. Len(queue[b]) \in Nat /\ Len(p) \in Nat /\ Len(p) > 0
  BY <1>1, <1>4
<1>7. PICK d \in {0, 1} : \A i \in 1..Len(p) :
        IF i = Len(p) THEN p[i] = m
        ELSE i + d \in 1..Len(queue[b]) /\ p[i] = queue[b][i + d]
  <2>1. CASE Len(p) = Len(queue[b]) + 1
    <3>1. \A i \in 1..Len(p) :
            IF i = Len(p) THEN p[i] = m
            ELSE i + 0 \in 1..Len(queue[b]) /\ p[i] = queue[b][i + 0]
      BY <1>4, <1>6, <2>1
    <3> QED
      BY <3>1
  <2>2. CASE Len(p) = Len(queue[b])
    <3>1. \A i \in 1..Len(p) :
            IF i = Len(p) THEN p[i] = m
            ELSE i + 1 \in 1..Len(queue[b]) /\ p[i] = queue[b][i + 1]
      BY <1>4, <1>6, <2>2
    <3> QED
      BY <3>1
  <2> QED
    BY <1>4, <2>1, <2>2
<1> DEFINE new(a, i) == a = b /\ i = Len(p)
           old(a, i) == IF a = b THEN i + d ELSE i
<1>8. \A a \in Boxes : Len(queue'[a]) \in Nat /\ Len(queue[a]) \in Nat
  BY <1>1, <1>3, <1>6
<1>9. ASSUME NEW a \in Boxes, NEW i \in 1..Len(queue'[a])
      PROVE  /\ new(a, i) => queue'[a][i] = m
             /\ ~new(a, i) => /\ old(a, i) \in 1..Len(queue[a])
                              /\ queue'[a][i] = queue[a][old(a, i)]
  <2>1. CASE a = b
    BY <1>1, <1>3, <1>6, <1>7, <2>1
  <2>2. CASE a # b
    BY <1>1, <1>3, <2>2
  <2> QED
    BY <2>1, <2>2
<1>10. ASSUME NEW a \in Boxes, NEW i \in 1..Len(queue'[a]), NEW j \in 1..Len(queue'[a]), i < j
       PROVE  ~new(a, i) /\ (~new(a, j) => old(a, i) < old(a, j))
  BY <1>1, <1>3, <1>6, <1>8, <1>10
<1>11. \A a \in Boxes : \A i \in 1..Len(queue[a]) : queue[a][i] \in Messages /\ queue[a][i] # m
  BY <1>1, <1>2 DEF OrderInv
<1>12. \A g \in Pulling : \A i \in 1..Len(batch[g]) : batch[g][i] \in Messages /\ batch[g][i] # m
  BY <1>1, <1>2 DEF OrderInv, Pulling
<1>13. \A n \in Messages : stamp'[n] = IF n = m THEN accepts + 1 ELSE stamp[n]
  BY <1>1, <1>3
<1>14. /\ Pulling' = Pulling
       /\ UNCHANGED <<batch, encoded, wiped>>
  BY <1>1, <1>3 DEF Pulling
<1>15. \A a, c \in Boxes : \A i, j \in Nat : old(a, i) = old(a, j) => i = j
  OBVIOUS
<1> HIDE DEF new, old
<1>16. OrderInv'
  <2>1. \A n \in Messages : stamp'[n] <= accepts'
    BY <1>1, <1>2, <1>3, <1>13 DEF OrderInv
  <2>2. ASSUME NEW g \in Handlers, msg'[g] # NoMessage PROVE stamp'[msg'[g]] = 0
    <3>1. g # h /\ msg'[g] = msg[g] /\ msg[g] \in Messages
      BY <1>1, <1>3, <2>2
    <3>2. msg[g] # m
      BY <1>2, <1>5, <3>1, <2>2 DEF HandlersInv, m
    <3> QED
      BY <1>2, <1>13, <2>2, <3>1, <3>2 DEF OrderInv
  <2>3. ASSUME NEW a \in Boxes, NEW i \in 1..Len(queue'[a]) PROVE stamp'[queue'[a][i]] > 0
    <3>1. CASE new(a, i)
      BY <1>1, <1>9, <1>13, <3>1
    <3>2. CASE ~new(a, i)
      <4>1. /\ old(a, i) \in 1..Len(queue[a]) /\ queue'[a][i] = queue[a][old(a, i)]
            /\ queue[a][old(a, i)] \in Messages /\ queue[a][old(a, i)] # m
        BY <1>9, <1>11, <3>2
      <4> QED
        BY <1>2, <1>13, <4>1 DEF OrderInv
    <3> QED
      BY <3>1, <3>2
  <2>4. ASSUME NEW a \in Boxes, NEW i \in 1..Len(queue'[a]), NEW j \in 1..Len(queue'[a]), i < j
        PROVE  stamp'[queue'[a][i]] < stamp'[queue'[a][j]]
    <3> DEFINE k == old(a, i)
    <3>1. k \in 1..Len(queue[a]) /\ queue'[a][i] = queue[a][k] /\ queue[a][k] # m /\ queue[a][k] \in Messages
      BY <1>9, <1>10, <1>11, <2>4
    <3>2. CASE new(a, j)
      <4>1. stamp'[queue'[a][j]] = accepts + 1 /\ stamp'[queue'[a][i]] = stamp[queue[a][k]]
        BY <1>1, <1>9, <1>13, <3>1, <3>2
      <4>2. stamp[queue[a][k]] <= accepts
        BY <1>2, <3>1 DEF OrderInv
      <4> QED
        BY <1>1, <3>1, <4>1, <4>2
    <3>3. CASE ~new(a, j)
      <4>1. old(a, j) \in 1..Len(queue[a]) /\ k < old(a, j) /\ queue'[a][j] = queue[a][old(a, j)]
        BY <1>9, <1>10, <2>4, <3>3
      <4>2. stamp[queue[a][k]] < stamp[queue[a][old(a, j)]]
        BY <1>2, <3>1, <4>1 DEF OrderInv
      <4> QED
        BY <1>11, <1>13, <3>1, <4>1, <4>2
    <3> QED
      BY <3>2, <3>3
  <2>5. ASSUME NEW g \in Pulling, NEW i \in 1..Len(batch[g])
        PROVE  stamp'[batch[g][i]] = stamp[batch[g][i]]
    BY <1>12, <1>13
  <2> QED
    BY <1>2, <1>14, <2>1, <2>2, <2>3, <2>4, <2>5 DEF OrderInv
<1>17. WipedInv'
  <2>1. ASSUME NEW n \in wiped PROVE stamp'[n] > 0
    <3>1. n \in Messages
      BY <1>1
    <3>2. stamp[n] > 0
      BY <1>2 DEF WipedInv
    <3>3. stamp'[n] = (IF n = m THEN accepts + 1 ELSE stamp[n]) /\ accepts \in Nat
      BY <1>1, <1>13, <3>1
    <3> QED
      BY <3>2, <3>3
  <2> QED
    BY <1>14, <2>1 DEF WipedInv
<1>18. BoundInv'
  <2>1. ASSUME NEW a \in Boxes PROVE Len(queue'[a]) <= MaxMailboxSize \/ Len(queue'[a]) <= 1
    <3>1. CASE a # b
      BY <1>1, <1>2, <1>3, <3>1 DEF BoundInv
    <3>2. CASE a = b
      <4>1. queue'[a] = p
        BY <1>1, <1>3, <3>2
      <4> QED
        BY <1>1, <1>2, <1>4, <1>6, <4>1, StorageAssumption DEF BoundInv
    <3> QED
      BY <3>1, <3>2
  <2> QED
    BY <2>1 DEF BoundInv
<1>19. EachMessageInOnePlace'
  <2>1. ASSUME NEW a \in Boxes, NEW c \in Boxes,
               NEW i \in 1..Len(queue'[a]), NEW j \in 1..Len(queue'[c]),
               queue'[a][i] = queue'[c][j]
        PROVE  a = c /\ i = j
    <3>1. CASE new(a, i) /\ new(c, j)
      BY <3>1 DEF new
    <3>2. CASE ~new(a, i) /\ ~new(c, j)
      <4>1. a = c /\ old(a, i) = old(c, j)
        <5> DEFINE k == old(a, i)
                   l == old(c, j)
        <5>1. /\ k \in 1..Len(queue[a]) /\ queue'[a][i] = queue[a][k]
              /\ l \in 1..Len(queue[c]) /\ queue'[c][j] = queue[c][l]
          BY <1>9, <3>2
        <5> HIDE DEF k, l
        <5>2. queue[a][k] = queue[c][l]
          BY <2>1, <5>1
        <5>3. \A x, y \in Boxes : \A u \in 1..Len(queue[x]), v \in 1..Len(queue[y]) :
                queue[x][u] = queue[y][v] => x = y /\ u = v
          BY <1>2 DEF EachMessageInOnePlace
        <5>4. a = c /\ k = l
          BY <5>1, <5>2, <5>3
        <5> QED
          BY <5>4 DEF k, l
      <4>2. i \in Nat /\ j \in Nat
        BY <1>8
      <4> QED
        BY <1>15, <4>1, <4>2
    <3>3. CASE new(a, i) /\ ~new(c, j)
      BY <1>9, <1>11, <2>1, <3>3
    <3>4. CASE ~new(a, i) /\ new(c, j)
      BY SMTT(40), <1>9, <1>11, <2>1, <3>4
    <3> QED
      BY <3>1, <3>2, <3>3, <3>4
  <2>2. ASSUME NEW g \in Pulling, NEW a \in Boxes,
               NEW i \in 1..Len(batch[g]), NEW j \in 1..Len(queue'[a])
        PROVE  batch[g][i] # queue'[a][j]
    BY <1>2, <1>9, <1>12 DEF EachMessageInOnePlace
  <2> QED
    BY SMTT(40), <1>2, <1>14, <2>1, <2>2 DEF EachMessageInOnePlace
<1>20. PullsIntact'
  <2>1. m \notin wiped
    BY <1>1, <1>2 DEF WipedInv
  <2>2. ASSUME NEW a \in Boxes, NEW i \in 1..Len(queue'[a]) PROVE queue'[a][i] \notin wiped
    BY <1>2, <1>9, <2>1 DEF PullsIntact
  <2> QED
    BY <1>2, <1>14, <2>2 DEF PullsIntact
<1> QED
  BY <1>16, <1>17, <1>18, <1>19, <1>20 DEF ContentInv

\* What a handler pulls leaves the queue in the same step.
LEMMA PullContent ==
  ASSUME NEW h \in Handlers, IInv, Pull(h)
  PROVE  ContentInv'
<1> DEFINE b == box[h]
<1>1. /\ b \in Boxes /\ queue \in [Boxes -> Seq(Messages)] /\ wiped \subseteq Messages
      /\ batch \in [Handlers -> Seq(Messages)] /\ pc \in [Handlers -> HandlerPcs]
      /\ encoded \in [Handlers -> Nat] /\ encoded[h] = 0
  BY DEF Pull, HandlersInv, IInv, TypeOK
<1>2. OrderInv /\ WipedInv /\ BoundInv /\ EachMessageInOnePlace /\ PullsIntact /\ HandlersInv
  BY DEF IInv
<1>3. /\ queue' = [queue EXCEPT ![b] = <<>>]
      /\ batch' = [batch EXCEPT ![h] = queue[b]]
      /\ pc[h] = "drain" /\ pc' = [pc EXCEPT ![h] = "encode"]
      /\ UNCHANGED <<wiped, encoded, stamp, accepts, msg>>
  BY DEF Pull, msgVars
<1> HIDE DEF b
<1>4. ASSUME NEW a \in Boxes, NEW i \in 1..Len(queue'[a])
      PROVE  a # b /\ queue'[a] = queue[a] /\ i \in 1..Len(queue[a])
  BY <1>1, <1>3
<1>5. Pulling' = Pulling \cup {h} /\ h \notin Pulling
  BY <1>1, <1>3 DEF Pulling
<1>6. batch'[h] = queue[b] /\ \A g \in Pulling : batch'[g] = batch[g]
  BY <1>1, <1>3, <1>5 DEF Pulling
<1> HIDE DEF Pulling
<1>7. OrderInv'
  <2>1. ASSUME NEW a \in Boxes, NEW i \in 1..Len(queue'[a])
        PROVE  /\ stamp[queue'[a][i]] > 0
               /\ \A j \in 1..Len(queue'[a]) : i < j => stamp[queue'[a][i]] < stamp[queue'[a][j]]
    BY <1>2, <1>4 DEF OrderInv
  <2>2. ASSUME NEW g \in Pulling', NEW i \in 1..Len(batch'[g])
        PROVE  /\ stamp[batch'[g][i]] > 0
               /\ \A j \in 1..Len(batch'[g]) : i < j => stamp[batch'[g][i]] < stamp[batch'[g][j]]
    <3>1. CASE g = h
      BY <1>1, <1>2, <1>6, <3>1 DEF OrderInv
    <3>2. CASE g \in Pulling
      BY <1>2, <1>6, <3>2 DEF OrderInv
    <3> QED
      BY <1>5, <3>1, <3>2
  <2> QED
    BY <1>2, <1>3, <2>1, <2>2 DEF OrderInv
<1>8. WipedInv' /\ BoundInv'
  <2>1. ASSUME NEW a \in Boxes PROVE Len(queue'[a]) <= MaxMailboxSize \/ Len(queue'[a]) <= 1
    BY <1>1, <1>2, <1>3 DEF BoundInv
  <2> QED
    BY <1>2, <1>3, <2>1 DEF WipedInv, BoundInv
<1>9. EachMessageInOnePlace'
  <2>a. \A x, y \in Boxes : \A i \in 1..Len(queue[x]), j \in 1..Len(queue[y]) :
          queue[x][i] = queue[y][j] => x = y /\ i = j
    BY <1>2 DEF EachMessageInOnePlace
  <2>b. \A f, g \in Pulling : \A i \in 1..Len(batch[f]), j \in 1..Len(batch[g]) :
          batch[f][i] = batch[g][j] => f = g /\ i = j
    BY <1>2 DEF EachMessageInOnePlace
  <2>c. \A g \in Pulling, x \in Boxes : \A i \in 1..Len(batch[g]), j \in 1..Len(queue[x]) :
          batch[g][i] # queue[x][j]
    BY <1>2 DEF EachMessageInOnePlace
  <2>1. ASSUME NEW a \in Boxes, NEW c \in Boxes,
               NEW i \in 1..Len(queue'[a]), NEW j \in 1..Len(queue'[c]),
               queue'[a][i] = queue'[c][j]
        PROVE  a = c /\ i = j
    BY <1>4, <2>1, <2>a
  <2>2. ASSUME NEW g \in Pulling', NEW a \in Boxes,
               NEW i \in 1..Len(batch'[g]), NEW j \in 1..Len(queue'[a])
        PROVE  batch'[g][i] # queue'[a][j]
    <3>1. CASE g = h
      <4>1. i \in 1..Len(queue[b]) /\ batch'[g][i] = queue[b][i]
        BY <1>6, <3>1
      <4>2. a # b /\ j \in 1..Len(queue[a]) /\ queue'[a][j] = queue[a][j]
        BY <1>4
      <4> QED
        BY <1>1, <2>a, <4>1, <4>2
    <3>2. CASE g \in Pulling
      BY <1>4, <1>6, <2>c, <3>2
    <3> QED
      BY <1>5, <3>1, <3>2
  <2>3. ASSUME NEW f \in Pulling', NEW g \in Pulling',
               NEW i \in 1..Len(batch'[f]), NEW j \in 1..Len(batch'[g]),
               batch'[f][i] = batch'[g][j]
        PROVE  f = g /\ i = j
    <3>1. CASE f = h /\ g = h
      BY <1>1, <1>6, <2>3, <2>a, <3>1
    <3>2. CASE f = h /\ g \in Pulling
      BY SMTT(40), <1>1, <1>6, <2>3, <2>c, <3>2
    <3>3. CASE f \in Pulling /\ g = h
      <4>1. batch'[f] = batch[f] /\ batch'[g] = queue[b]
        BY <1>6, <3>3
      <4>2. batch[f][i] # queue[b][j]
        BY <1>1, <2>c, <3>3, <4>1
      <4> QED
        BY <2>3, <4>1, <4>2
    <3>4. CASE f \in Pulling /\ g \in Pulling
      BY <1>6, <2>3, <2>b, <3>4
    <3> QED
      BY <1>5, <3>1, <3>2, <3>3, <3>4
  <2> QED
    BY <2>1, <2>2, <2>3 DEF EachMessageInOnePlace
<1>10. PullsIntact'
  <2>1. ASSUME NEW a \in Boxes, NEW i \in 1..Len(queue'[a]) PROVE queue'[a][i] \notin wiped
    BY <1>2, <1>4 DEF PullsIntact
  <2>2. ASSUME NEW g \in Pulling', NEW i \in 1..Len(batch'[g]), i > encoded[g]
        PROVE  batch'[g][i] \notin wiped
    <3>1. CASE g = h
      BY <1>1, <1>2, <1>6, <3>1 DEF PullsIntact
    <3>2. CASE g \in Pulling
      BY <1>2, <1>6, <2>2, <3>2 DEF PullsIntact
    <3> QED
      BY <1>5, <3>1, <3>2
  <2> QED
    BY <1>3, <2>1, <2>2 DEF PullsIntact
<1> QED
  BY <1>7, <1>8, <1>9, <1>10 DEF ContentInv

\* The message that is wiped is in no queue, and is encoded.
LEMMA EncodeContent ==
  ASSUME NEW h \in Handlers, IInv, EncodeAndWipe(h)
  PROVE  ContentInv'
<1> DEFINE k == encoded[h] + 1
           m == batch[h][k]
<1>1. /\ h \in Pulling /\ batch \in [Handlers -> Seq(Messages)] /\ encoded \in [Handlers -> Nat]
      /\ k \in 1..Len(batch[h]) /\ pc' = pc
      /\ encoded' = [encoded EXCEPT ![h] = k]
      /\ wiped' = wiped \cup {m}
      /\ UNCHANGED <<queue, stamp, accepts, batch, msg>>
  BY DEF EncodeAndWipe, IInv, TypeOK, Pulling, boxVars
<1>2. OrderInv /\ WipedInv /\ BoundInv /\ EachMessageInOnePlace /\ PullsIntact
  BY DEF IInv
<1>3. Pulling' = Pulling
  BY <1>1 DEF Pulling
<1> HIDE DEF k, m, Pulling
<1>4. OrderInv' /\ BoundInv' /\ EachMessageInOnePlace'
  <2>1. OrderInv' /\ BoundInv'
    BY <1>1, <1>2, <1>3 DEF OrderInv, BoundInv
  <2>2. EachMessageInOnePlace'
    <3>1. \A a, c \in Boxes : \A i \in 1..Len(queue[a]), j \in 1..Len(queue[c]) :
            queue[a][i] = queue[c][j] => a = c /\ i = j
      BY <1>2 DEF EachMessageInOnePlace
    <3>2. \A f, g \in Pulling : \A i \in 1..Len(batch[f]), j \in 1..Len(batch[g]) :
            batch[f][i] = batch[g][j] => f = g /\ i = j
      BY <1>2 DEF EachMessageInOnePlace
    <3>3. \A g \in Pulling, a \in Boxes : \A i \in 1..Len(batch[g]), j \in 1..Len(queue[a]) :
            batch[g][i] # queue[a][j]
      BY <1>2 DEF EachMessageInOnePlace
    <3> QED
      BY <1>1, <1>3, <3>1, <3>2, <3>3 DEF EachMessageInOnePlace
  <2> QED
    BY <2>1, <2>2
<1>5. WipedInv'
  BY <1>1, <1>2 DEF WipedInv, OrderInv, m
<1>6. PullsIntact'
  <2>1. ASSUME NEW b \in Boxes, NEW i \in 1..Len(queue[b]) PROVE queue[b][i] \notin wiped'
    BY <1>1, <1>2 DEF PullsIntact, EachMessageInOnePlace, m
  <2>2. ASSUME NEW g \in Pulling, NEW i \in 1..Len(batch[g]), i > encoded'[g]
        PROVE  batch[g][i] \notin wiped'
    <3>1. i > encoded[g] /\ (g = h => i # k)
      BY <1>1, <2>2 DEF Pulling, k
    <3>2. batch[g][i] # m
      BY <1>1, <1>2, <3>1 DEF EachMessageInOnePlace, m
    <3> QED
      BY <1>1, <1>2, <3>1, <3>2 DEF PullsIntact
  <2> QED
    BY <1>1, <1>3, <2>1, <2>2 DEF PullsIntact
<1> QED
  BY <1>4, <1>5, <1>6 DEF ContentInv

\* The expired message at the cursor leaves the queue in the step that wipes
\* it; every other entry keeps its place relative to the rest.
LEMMA ScanContent ==
  ASSUME IInv, CleanScan, Expired(queue[mailboxes[cleaning]][cursor])
  PROVE  ContentInv'
<1> DEFINE b == mailboxes[cleaning]
           m == queue[b][cursor]
           r == RemoveAt(queue[b], cursor)
           old(a, i) == IF a = b /\ i >= cursor THEN i + 1 ELSE i
<1>1. /\ b \in Boxes /\ queue \in [Boxes -> Seq(Messages)] /\ cursor \in 1..Len(queue[b])
      /\ m \in Messages
  BY DEF CleanScan, IInv, TypeOK, CleanInv, Live
<1>2. OrderInv /\ WipedInv /\ BoundInv /\ EachMessageInOnePlace /\ PullsIntact
  BY DEF IInv
<1>3. /\ queue' = [queue EXCEPT ![b] = r]
      /\ wiped' = wiped \cup {m}
      /\ UNCHANGED <<stamp, accepts, pc, msg, batch, encoded>>
  BY DEF CleanScan, handlerVars
<1>4. /\ r \in Seq(Messages) /\ Len(r) = Len(queue[b]) - 1
      /\ \A i \in 1..(Len(queue[b]) - 1) :
           r[i] = IF i < cursor THEN queue[b][i] ELSE queue[b][i + 1]
  BY <1>1, RemoveAtProperties
<1>5. cursor \in Nat /\ Len(queue[b]) \in Nat
  BY <1>1
<1> HIDE DEF b, m, r
<1>6. ASSUME NEW a \in Boxes, NEW i \in 1..Len(queue'[a])
      PROVE  /\ old(a, i) \in 1..Len(queue[a]) /\ queue'[a][i] = queue[a][old(a, i)]
             /\ a = b => old(a, i) # cursor
             /\ i \in Nat
             /\ Len(queue'[a]) <= Len(queue[a])
  <2>1. CASE a = b
    BY <1>1, <1>3, <1>4, <1>5, <2>1
  <2>2. CASE a # b
    BY <1>1, <1>3, <2>2
  <2> QED
    BY <2>1, <2>2
<1>7. \A a \in Boxes : \A i, j \in Nat :
        /\ i < j => old(a, i) < old(a, j)
        /\ old(a, i) = old(a, j) => i = j
  BY <1>5
<1>8. Pulling' = Pulling
  BY <1>3 DEF Pulling
<1>9. \A x, y \in Boxes : \A i \in 1..Len(queue[x]), j \in 1..Len(queue[y]) :
        queue[x][i] = queue[y][j] => x = y /\ i = j
  BY <1>2 DEF EachMessageInOnePlace
<1>10. \A g \in Pulling, x \in Boxes : \A i \in 1..Len(batch[g]), j \in 1..Len(queue[x]) :
         batch[g][i] # queue[x][j]
  BY <1>2 DEF EachMessageInOnePlace
<1> HIDE DEF old, Pulling
<1>11. OrderInv'
  <2>1. ASSUME NEW a \in Boxes, NEW i \in 1..Len(queue'[a])
        PROVE  stamp[queue'[a][i]] > 0
    BY <1>2, <1>6 DEF OrderInv
  <2>2. ASSUME NEW a \in Boxes, NEW i \in 1..Len(queue'[a]), NEW j \in 1..Len(queue'[a]), i < j
        PROVE  stamp[queue'[a][i]] < stamp[queue'[a][j]]
    <3>1. /\ old(a, i) < old(a, j)
          /\ old(a, i) \in 1..Len(queue[a]) /\ queue'[a][i] = queue[a][old(a, i)]
          /\ old(a, j) \in 1..Len(queue[a]) /\ queue'[a][j] = queue[a][old(a, j)]
      BY <1>6, <1>7, <2>2
    <3> QED
      BY <1>2, <3>1 DEF OrderInv
  <2> QED
    BY <1>2, <1>3, <1>8, <2>1, <2>2 DEF OrderInv
<1>12. WipedInv'
  BY <1>1, <1>2, <1>3 DEF WipedInv, OrderInv, m
<1>13. BoundInv'
  <2>1. ASSUME NEW a \in Boxes PROVE Len(queue'[a]) <= MaxMailboxSize \/ Len(queue'[a]) <= 1
    <3>1. CASE a = b
      BY SMTT(40), <1>1, <1>2, <1>3, <1>4, <1>5, <3>1, StorageAssumption DEF BoundInv
    <3>2. CASE a # b
      BY <1>1, <1>2, <1>3, <3>2 DEF BoundInv
    <3> QED
      BY <3>1, <3>2
  <2> QED
    BY <2>1 DEF BoundInv
<1>14. EachMessageInOnePlace'
  <2>1. ASSUME NEW a \in Boxes, NEW c \in Boxes,
               NEW i \in 1..Len(queue'[a]), NEW j \in 1..Len(queue'[c]),
               queue'[a][i] = queue'[c][j]
        PROVE  a = c /\ i = j
    <3>1. a = c /\ old(a, i) = old(c, j) /\ i \in Nat /\ j \in Nat
      BY SMTT(40), <1>6, <1>9, <2>1
    <3> QED
      BY <1>7, <3>1
  <2>2. ASSUME NEW g \in Pulling, NEW a \in Boxes,
               NEW i \in 1..Len(batch[g]), NEW j \in 1..Len(queue'[a])
        PROVE  batch[g][i] # queue'[a][j]
    BY SMTT(40), <1>6, <1>10
  <2>3. \A f, g \in Pulling : \A i \in 1..Len(batch[f]), j \in 1..Len(batch[g]) :
          batch[f][i] = batch[g][j] => f = g /\ i = j
    BY <1>2 DEF EachMessageInOnePlace
  <2> QED
    BY <1>3, <1>8, <2>1, <2>2, <2>3 DEF EachMessageInOnePlace
<1>15. PullsIntact'
  <2>1. ASSUME NEW a \in Boxes, NEW i \in 1..Len(queue'[a]) PROVE queue'[a][i] \notin wiped'
    <3>1. queue'[a][i] # m
      <4>1. /\ old(a, i) \in 1..Len(queue[a]) /\ queue'[a][i] = queue[a][old(a, i)]
            /\ a = b => old(a, i) # cursor
        BY <1>6
      <4>2. queue[a][old(a, i)] = queue[b][cursor] => a = b /\ old(a, i) = cursor
        BY <1>1, <1>9, <4>1
      <4> QED
        BY <4>1, <4>2 DEF m
    <3>2. queue'[a][i] \notin wiped
      BY <1>2, <1>6 DEF PullsIntact
    <3> QED
      BY <1>3, <3>1, <3>2
  <2>2. ASSUME NEW g \in Pulling, NEW i \in 1..Len(batch[g]), i > encoded[g]
        PROVE  batch[g][i] \notin wiped'
    <3>1. batch[g][i] # m
      BY <1>1, <1>10 DEF m
    <3>2. batch[g][i] \notin wiped
      BY <1>2, <2>2 DEF PullsIntact
    <3> QED
      BY <1>3, <3>1, <3>2
  <2> QED
    BY <1>3, <1>8, <2>1, <2>2 DEF PullsIntact
<1> QED
  BY <1>11, <1>12, <1>13, <1>14, <1>15 DEF ContentInv

\* A step that moves no message: queues, stamps and wiped payloads stay, and
\* no batch becomes a pulled one.
LEMMA FrameContent ==
  ASSUME IInv, UNCHANGED <<queue, stamp, accepts, wiped>>,
         \A h \in Handlers : pc'[h] = "encode" =>
           pc[h] = "encode" /\ batch'[h] = batch[h] /\ encoded'[h] = encoded[h],
         \A h \in Handlers : msg'[h] # NoMessage => stamp[msg'[h]] = 0
  PROVE  ContentInv'
<1>1. OrderInv /\ WipedInv /\ BoundInv /\ EachMessageInOnePlace /\ PullsIntact
  BY DEF IInv
<1>2. /\ Pulling' \subseteq Pulling
      /\ \A h \in Pulling' : batch'[h] = batch[h] /\ encoded'[h] = encoded[h]
  BY DEF Pulling
<1> HIDE DEF Pulling
<1>3. OrderInv'
  <2>1. \A h \in Pulling' : \A i \in 1..Len(batch'[h]) :
          /\ stamp[batch'[h][i]] > 0
          /\ \A j \in 1..Len(batch'[h]) : i < j => stamp[batch'[h][i]] < stamp[batch'[h][j]]
    BY <1>1, <1>2 DEF OrderInv
  <2> QED
    BY <1>1, <2>1 DEF OrderInv
<1>4. WipedInv' /\ BoundInv'
  BY <1>1 DEF WipedInv, BoundInv
<1>5. EachMessageInOnePlace'
  <2>1. \A x, y \in Boxes : \A i \in 1..Len(queue'[x]), j \in 1..Len(queue'[y]) :
          queue'[x][i] = queue'[y][j] => x = y /\ i = j
    BY <1>1 DEF EachMessageInOnePlace
  <2>2. \A f, g \in Pulling' : \A i \in 1..Len(batch'[f]), j \in 1..Len(batch'[g]) :
          batch'[f][i] = batch'[g][j] => f = g /\ i = j
    <3>1. \A f, g \in Pulling : \A i \in 1..Len(batch[f]), j \in 1..Len(batch[g]) :
            batch[f][i] = batch[g][j] => f = g /\ i = j
      BY <1>1 DEF EachMessageInOnePlace
    <3> QED
      BY <1>2, <3>1
  <2>3. \A g \in Pulling', x \in Boxes : \A i \in 1..Len(batch'[g]), j \in 1..Len(queue'[x]) :
          batch'[g][i] # queue'[x][j]
    <3>1. \A g \in Pulling, x \in Boxes : \A i \in 1..Len(batch[g]), j \in 1..Len(queue[x]) :
            batch[g][i] # queue[x][j]
      BY <1>1 DEF EachMessageInOnePlace
    <3> QED
      BY <1>2, <3>1
  <2> QED
    BY <2>1, <2>2, <2>3 DEF EachMessageInOnePlace
<1>6. PullsIntact'
  BY <1>1, <1>2 DEF PullsIntact
<1> QED
  BY <1>3, <1>4, <1>5, <1>6 DEF ContentInv

\* Every step preserves what IInv says of messages.
LEMMA ContentStep == IInv /\ [Next]_vars => ContentInv'
<1> SUFFICES ASSUME IInv, [Next]_vars PROVE ContentInv'
  OBVIOUS
<1> USE DEF mapVars, boxVars, msgVars, handlerVars, cleanVars, clockVars
<1>1. /\ pc \in [Handlers -> HandlerPcs] /\ msg \in [Handlers -> Messages \cup {NoMessage}]
      /\ batch \in [Handlers -> Seq(Messages)] /\ encoded \in [Handlers -> Nat]
      /\ \A h \in Handlers : msg[h] # NoMessage => stamp[msg[h]] = 0
  BY DEF IInv, TypeOK, OrderInv
<1>2. ASSUME UNCHANGED <<queue, stamp, accepts, wiped, pc, msg, batch, encoded>>
      PROVE  ContentInv'
  BY <1>1, <1>2, FrameContent
<1>3. ASSUME NEW h \in Handlers, NEW id \in MailboxIds, NEW m \in Messages, StoreLookup(h, id, m)
      PROVE  ContentInv'
  BY <1>1, <1>3, FrameContent DEF StoreLookup
<1>4. ASSUME NEW h \in Handlers, NEW id \in MailboxIds,
             Lookup(h, id, "drain") \/ Lookup(h, id, "view")
      PROVE  ContentInv'
  BY <1>1, <1>4, FrameContent DEF Lookup
<1>5. ASSUME NEW h \in Handlers, StoreCreate(h) PROVE ContentInv'
  <2>1. /\ UNCHANGED <<queue, stamp, accepts, wiped, msg, batch, encoded>>
        /\ pc' = [pc EXCEPT ![h] = "stamp"]
    BY <1>5 DEF StoreCreate, NewMailbox
  <2> QED
    BY <1>1, <2>1, FrameContent
<1>6. ASSUME NEW h \in Handlers, StoreStamp(h) PROVE ContentInv'
  BY <1>1, <1>6, FrameContent DEF StoreStamp
<1>7. ASSUME NEW h \in Handlers, Peek(h) PROVE ContentInv'
  BY <1>1, <1>7, FrameContent DEF Peek
<1>8. ASSUME NEW h \in Handlers, Respond(h) PROVE ContentInv'
  BY <1>1, <1>8, FrameContent DEF Respond
<1>12. ASSUME NEW h \in Handlers, SizeLookup(h) \/ Count(h) PROVE ContentInv'
  <2>1. /\ UNCHANGED <<queue, stamp, accepts, wiped, msg, batch, encoded>>
        /\ \E l \in {"idle", "count"} : pc' = [pc EXCEPT ![h] = l]
    BY <1>12 DEF SizeLookup, Count
  <2> QED
    BY <1>1, <2>1, FrameContent
<1>9. ASSUME CleanScan PROVE ContentInv'
  <2>1. CASE Expired(queue[mailboxes[cleaning]][cursor])
    BY <1>9, <2>1, ScanContent
  <2>2. CASE ~Expired(queue[mailboxes[cleaning]][cursor])
    BY <1>2, <1>9, <2>2 DEF CleanScan
  <2> QED
    BY <2>1, <2>2
<1>10. ASSUME Restart PROVE ContentInv'
  <2>1. /\ \A b \in Boxes : queue'[b] = <<>>
        /\ \A h \in Handlers : pc'[h] = "idle" /\ msg'[h] = NoMessage
        /\ UNCHANGED <<stamp, accepts, wiped>>
    BY <1>10 DEF Restart
  <2>2. OrderInv /\ WipedInv
    BY DEF IInv
  <2>3. Pulling' = {}
    BY <2>1 DEF Pulling
  <2>4. \A b \in Boxes : Len(queue'[b]) = 0
    BY <2>1
  <2> QED
    BY <2>1, <2>2, <2>3, <2>4
       DEF ContentInv, OrderInv, WipedInv, BoundInv, EachMessageInOnePlace, PullsIntact
<1>11. ASSUME UNCHANGED vars PROVE ContentInv'
  BY <1>2, <1>11 DEF vars
<1> QED
  BY <1>2, <1>3, <1>4, <1>5, <1>6, <1>7, <1>8, <1>12, <1>9, <1>10, <1>11,
     PushContent, PullContent, EncodeContent
     DEF Next, Arrive, Handle, Clean, RegisterDevice, NewMailbox, CleanStart, CleanNext,
         CleanUnlock, CleanCheck, CleanDelete, CleanDone, Tick

-----------------------------------------------------------------------------

\* Every reachable state satisfies the inductive invariant, whatever the sizes,
\* the number of handlers and the interleaving of handlers and cleanup.
THEOREM Invariance == Spec => []IInv
<1>1. Init => IInv
  BY InitInv
<1>2. IInv /\ [Next]_vars => IInv'
  BY TypeStep, HandlersStep, MapStep, AllocatedStep, ContentStep DEF IInv, ContentInv
<1> QED
  BY <1>1, <1>2, PTL DEF Spec

\* Type correctness of the store and of the handlers' local variables.
THEOREM TypeCorrect == Spec => []TypeOK
  BY Invariance, PTL DEF IInv

\* Stats and the limit of RegisterDevice see the true number of mailboxes.
THEOREM AccountsCounted == Spec => []AccountsMatchMailboxes
  BY Invariance, PTL DEF IInv

\* A message is delivered at most once: it is never in two queues, in two
\* pulled batches or in both.
THEOREM AtMostOnce == Spec => []EachMessageInOnePlace
  BY Invariance, PTL DEF IInv

\* No pull answers with a wiped payload or with a message answered before.
THEOREM DeliveredIntact == Spec => []PullsIntact
  BY Invariance, PTL DEF IInv

\* The second lookup of StoreMessage and the test of RegisterDevice keep two
\* requests from installing one object over another: what the map holds for an
\* id is never replaced, only taken out.
THEOREM SingleInstall == Spec => LiveMailboxNotReplaced
<1> DEFINE Kept == \A id \in Live : mailboxes'[id] \in {mailboxes[id], NoBox}
<1>1. IInv /\ [Next]_vars => Kept
  <2> SUFFICES ASSUME IInv, [Next]_vars, NEW id \in Live PROVE mailboxes'[id] \in {mailboxes[id], NoBox}
    OBVIOUS
  <2> USE DEF IInv, TypeOK, Live, mapVars, boxVars, msgVars, handlerVars, cleanVars, clockVars
  <2>1. ASSUME NEW i \in MailboxIds, RegisterDevice(i) PROVE mailboxes'[id] \in {mailboxes[id], NoBox}
    BY <2>1 DEF RegisterDevice, NewMailbox
  <2>2. ASSUME NEW h \in Handlers, StoreCreate(h) PROVE mailboxes'[id] \in {mailboxes[id], NoBox}
    BY <2>2 DEF StoreCreate, NewMailbox
  <2>3. ASSUME CleanDelete PROVE mailboxes'[id] \in {mailboxes[id], NoBox}
    BY <2>3 DEF CleanDelete
  <2>4. ASSUME Restart PROVE mailboxes'[id] \in {mailboxes[id], NoBox}
    BY <2>4 DEF Restart
  <2>5. ASSUME UNCHANGED mailboxes PROVE mailboxes'[id] \in {mailboxes[id], NoBox}
    BY <2>5
  <2> QED
    BY <2>1, <2>2, <2>3, <2>4, <2>5
       DEF Next, Arrive, Handle, Clean, StoreLookup, Lookup, StoreStamp, Push, SizeLookup, Count, Pull,
           EncodeAndWipe, Peek, Respond, CleanStart, CleanNext, CleanScan, CleanUnlock, CleanCheck, CleanDone, Tick, vars
<1> QED
  BY <1>1, Invariance, PTL DEF Spec, LiveMailboxNotReplaced
=============================================================================
