------------------------- MODULE StorageRefinement -------------------------
(***************************************************************************)
(* The mailbox store implements MailboxPromise, for any number of          *)
(* mailboxes, messages and handlers and any limits: with the mailbox of an *)
(* id read as the messages in the queue the map holds for it, an object    *)
(* the map no longer holds as stray messages, and the batch of a pull as   *)
(* its answer, every step of Storage that IInv allows is a step of the     *)
(* promise or changes nothing of it.                                       *)
(***************************************************************************)
EXTENDS StorageProofs

\* The promise's set operators are those of the store.
LEMMA PromiseOperators ==
  \A S : Promise!ToSet(S) = ToSet(S) /\ Promise!Cardinality(S) = Cardinality(S)
<1>1. \A S : Promise!ToSet(S) = ToSet(S)
  BY DEF Promise!ToSet, ToSet
<1>2. \A S : Promise!Cardinality(S) = Cardinality(S)
  BY DEF Promise!Cardinality, Cardinality
<1> QED
  BY <1>1, <1>2

\* A list without repetition has as many elements as places.
LEMMA ListSize ==
  ASSUME NEW S, NEW s \in Seq(S), IsInjective(s)
  PROVE  IsFiniteSet(ToSet(s)) /\ Cardinality(ToSet(s)) = Len(s)
<1> DEFINE I == 1..Len(s)
           T == ToSet(s)
<1>1. Len(s) \in Nat /\ DOMAIN s = I /\ T = {s[i] : i \in I}
  BY DEF ToSet
<1>2. IsFiniteSet(I) /\ Cardinality(I) = Len(s)
  BY <1>1, FS_Interval
<1>3. s \in [I -> T]
  BY <1>1
<1>4. s \in Surjection(I, T)
  BY <1>1, <1>3 DEF Surjection
<1>5. s \in Injection(I, T)
  BY <1>1, <1>3 DEF IsInjective, Injection
<1> HIDE DEF I, T
<1>6. IsFiniteSet(T) /\ (Cardinality(T) = Cardinality(I) <=> s \in Injection(I, T))
  BY <1>2, <1>4, FS_Surjection
<1> QED
  BY <1>2, <1>5, <1>6 DEF T

\* What Mailbox.Push makes of the content of a queue.
LEMMA PushedContent ==
  ASSUME NEW q \in Seq(Messages), NEW m \in Messages, IsInjective(q)
  PROVE  LET out == IF Len(q) >= MaxMailboxSize /\ q # <<>> THEN {q[1]} ELSE {}
         IN  ToSet(Append(Evicted(q), m)) = (ToSet(q) \ out) \cup {m}
<1> DEFINE p == Append(Evicted(q), m)
<1>1. /\ Len(q) \in Nat /\ DOMAIN q = 1..Len(q)
      /\ \A i, j \in 1..Len(q) : q[i] = q[j] => i = j
  BY DEF IsInjective
<1>2. CASE Len(q) >= MaxMailboxSize /\ q # <<>>
  <2>1. /\ p \in Seq(Messages) /\ Len(p) = Len(q) /\ Len(q) > 0
        /\ \A i \in 1..(Len(q) - 1) : p[i] = q[i + 1]
        /\ p[Len(q)] = m
    BY <1>2, StorageAssumption DEF Evicted
  <2>2. ToSet(p) \subseteq (ToSet(q) \ {q[1]}) \cup {m}
    <3> SUFFICES ASSUME NEW i \in 1..Len(q), p[i] # m PROVE p[i] \in ToSet(q) \ {q[1]}
      BY <2>1 DEF ToSet
    <3>1. i \in 1..(Len(q) - 1) /\ i + 1 \in 1..Len(q) /\ 1 \in 1..Len(q) /\ i + 1 # 1
      BY <1>1, <2>1
    <3>2. p[i] = q[i + 1] /\ q[i + 1] # q[1]
      BY <1>1, <2>1, <3>1
    <3> QED
      BY <1>1, <3>1, <3>2 DEF ToSet
  <2>3. (ToSet(q) \ {q[1]}) \cup {m} \subseteq ToSet(p)
    <3>1. m \in ToSet(p)
      BY <1>1, <2>1 DEF ToSet
    <3>2. ASSUME NEW j \in 1..Len(q), q[j] # q[1] PROVE q[j] \in ToSet(p)
      <4>1. j - 1 \in 1..(Len(q) - 1) /\ j - 1 \in 1..Len(p) /\ (j - 1) + 1 = j
        BY <1>1, <2>1, <3>2
      <4>2. p[j - 1] = q[j]
        BY <2>1, <4>1
      <4> QED
        BY <2>1, <4>1, <4>2 DEF ToSet
    <3> QED
      BY <1>1, <3>1, <3>2 DEF ToSet
  <2> QED
    BY <1>2, <2>2, <2>3
<1>3. CASE ~(Len(q) >= MaxMailboxSize /\ q # <<>>)
  <2>1. p = Append(q, m)
    BY <1>3 DEF Evicted
  <2>2. /\ p \in Seq(Messages) /\ Len(p) = Len(q) + 1
        /\ \A i \in 1..Len(q) : p[i] = q[i]
        /\ p[Len(q) + 1] = m
    BY <2>1
  <2>3. ToSet(p) \subseteq ToSet(q) \cup {m}
    BY <1>1, <2>2 DEF ToSet
  <2>4. ToSet(q) \cup {m} \subseteq ToSet(p)
    BY <1>1, <2>2 DEF ToSet
  <2> QED
    BY <1>3, <2>3, <2>4
<1> QED
  BY <1>2, <1>3

\* What the scan of CleanupExpired makes of it when it unlinks an element.
LEMMA RemovedContent ==
  ASSUME NEW q \in Seq(Messages), NEW k \in 1..Len(q), IsInjective(q)
  PROVE  ToSet(RemoveAt(q, k)) = ToSet(q) \ {q[k]}
<1> DEFINE r == RemoveAt(q, k)
<1>1. /\ Len(q) \in Nat /\ DOMAIN q = 1..Len(q)
      /\ \A i, j \in 1..Len(q) : q[i] = q[j] => i = j
  BY DEF IsInjective
<1>2. /\ r \in Seq(Messages) /\ Len(r) = Len(q) - 1
      /\ \A i \in 1..(Len(q) - 1) : r[i] = IF i < k THEN q[i] ELSE q[i + 1]
  BY RemoveAtProperties
<1> HIDE DEF r
<1>3. ToSet(r) \subseteq ToSet(q) \ {q[k]}
  <2> SUFFICES ASSUME NEW i \in 1..(Len(q) - 1) PROVE r[i] \in ToSet(q) \ {q[k]}
    BY <1>2 DEF ToSet
  <2> DEFINE j == IF i < k THEN i ELSE i + 1
  <2>1. j \in 1..Len(q) /\ j # k /\ r[i] = q[j]
    BY <1>1, <1>2
  <2>2. q[j] # q[k]
    BY <1>1, <2>1
  <2> QED
    BY <1>1, <2>1, <2>2 DEF ToSet
<1>4. ToSet(q) \ {q[k]} \subseteq ToSet(r)
  <2> SUFFICES ASSUME NEW j \in 1..Len(q), j # k PROVE q[j] \in ToSet(r)
    BY <1>1 DEF ToSet
  <2> DEFINE i == IF j < k THEN j ELSE j - 1
  <2>1. i \in 1..(Len(q) - 1) /\ (i < k <=> j < k) /\ (j > k => i + 1 = j)
    BY <1>1
  <2>2. r[i] = q[j]
    BY <1>1, <1>2, <2>1
  <2> QED
    BY <1>2, <2>1, <2>2 DEF ToSet
<1> QED
  BY <1>3, <1>4 DEF r

\* A queue repeats no message, so it is as long as its content is large.
Unrepeated ==
  \A b \in Boxes : /\ queue[b] \in Seq(Messages) /\ IsInjective(queue[b])
                   /\ Cardinality(ToSet(queue[b])) = Len(queue[b])

\* The queues the store can have are of this kind.
LEMMA QueuesUnrepeated == IInv => Unrepeated
<1> SUFFICES ASSUME IInv, NEW b \in Boxes
             PROVE  /\ queue[b] \in Seq(Messages) /\ IsInjective(queue[b])
                    /\ Cardinality(ToSet(queue[b])) = Len(queue[b])
  BY DEF Unrepeated
<1>1. queue[b] \in Seq(Messages) /\ DOMAIN queue[b] = 1..Len(queue[b])
  BY DEF IInv, TypeOK
<1>2. IsInjective(queue[b])
  BY <1>1 DEF IInv, EachMessageInOnePlace, IsInjective
<1> QED
  BY <1>1, <1>2, ListSize

-----------------------------------------------------------------------------
(* What a step changes of the promise's variables *)

\* The map, its objects and the handlers' pointers: an object the map holds
\* belongs to the id it is found under, a handler's object to some id, and an
\* object not yet allocated is empty.
LEMMA Shape ==
  IInv => /\ mailboxes \in [MailboxIds -> Boxes \cup {NoBox}] /\ NoBox \notin Boxes
          /\ owner \in [Boxes -> MailboxIds \cup {NoId}] /\ NoId \notin MailboxIds
          /\ queue \in [Boxes -> Seq(Messages)] /\ lastAccess \in [Boxes -> Nat]
          /\ box \in [Handlers -> Boxes \cup {NoBox}]
          /\ pc \in [Handlers -> HandlerPcs] /\ batch \in [Handlers -> Seq(Messages)]
          /\ \A id \in MailboxIds : mailboxes[id] # NoBox =>
               mailboxes[id] \in Boxes /\ owner[mailboxes[id]] = id
          /\ \A h \in Handlers : box[h] # NoBox =>
               box[h] \in Boxes /\ owner[box[h]] \in MailboxIds
          /\ \A b \in Boxes : owner[b] = NoId => queue[b] = <<>>
  BY StorageAssumption DEF IInv, TypeOK, OwnerInv, AllocatedInv, Live

\* A step of one handler that neither takes a batch nor answers a pull leaves
\* the answers alone.
LEMMA AnswersStay ==
  ASSUME \A h \in Handlers : (pc[h] = "encode" \/ pc'[h] = "encode") =>
                                pc'[h] = pc[h] /\ batch'[h] = batch[h]
  PROVE  Answers' = Answers
<1> SUFFICES ASSUME NEW h \in Handlers PROVE Answers'[h] = Answers[h]
  BY DEF Answers
<1>1. CASE pc[h] = "encode" \/ pc'[h] = "encode"
  BY <1>1 DEF Answers
<1>2. CASE pc[h] # "encode" /\ pc'[h] # "encode"
  BY <1>2 DEF Answers
<1> QED
  BY <1>1, <1>2

\* A step that leaves the map and its objects alone.
LEMMA MailStays ==
  ASSUME UNCHANGED <<mailboxes, owner, queue, lastAccess>>
  PROVE  UNCHANGED <<Held, Used, Stray>>
  BY DEF Held, Used, Stray, InMap

\* A step that leaves the map and the handlers' pointers alone.
LEMMA RequestsStay ==
  ASSUME UNCHANGED <<mailboxes, owner, box>>
  PROVE  UNCHANGED <<Found, Late>>
  BY DEF Found, Late, InMap

\* A new object under an id that had none opens that mailbox, empty, and
\* touches no other object and no handler.
LEMMA NewMailboxOpens ==
  ASSUME IInv, NEW id \in MailboxIds, NEW c \in Boxes, NewMailbox(id, c), mailboxes[id] = NoBox
  PROVE  /\ Promise!Open(id) /\ UNCHANGED <<Held, Stray>>
         /\ owner'[c] = id /\ InMap(c)'
         /\ \A h \in Handlers : box[h] # c
         /\ \A b \in Boxes \ {c} : owner'[b] = owner[b] /\ (InMap(b)' <=> InMap(b))
<1>1. /\ owner[c] = NoId /\ owner' = [owner EXCEPT ![c] = id]
      /\ mailboxes' = [mailboxes EXCEPT ![id] = c]
      /\ lastAccess' = [lastAccess EXCEPT ![c] = now]
      /\ queue' = queue
  BY DEF NewMailbox
<1>2. /\ mailboxes \in [MailboxIds -> Boxes \cup {NoBox}] /\ NoBox \notin Boxes
      /\ owner \in [Boxes -> MailboxIds \cup {NoId}] /\ NoId \notin MailboxIds
      /\ lastAccess \in [Boxes -> Nat] /\ queue[c] = <<>>
      /\ \A j \in MailboxIds : mailboxes[j] # NoBox => mailboxes[j] \in Boxes /\ owner[mailboxes[j]] = j
      /\ \A h \in Handlers : box[h] # NoBox => owner[box[h]] \in MailboxIds
  BY <1>1, Shape
<1>3. /\ mailboxes'[id] = c /\ \A j \in MailboxIds \ {id} : mailboxes'[j] = mailboxes[j] /\ mailboxes[j] # c
      /\ owner'[c] = id /\ \A b \in Boxes \ {c} : owner'[b] = owner[b] /\ lastAccess'[b] = lastAccess[b]
      /\ lastAccess'[c] = now
  BY <1>1, <1>2
<1>4. Held' = Held
  <2> SUFFICES ASSUME NEW j \in MailboxIds PROVE Held'[j] = Held[j]
    BY DEF Held
  <2>1. ToSet(queue[c]) = {}
    BY <1>2 DEF ToSet
  <2>2. CASE j = id
    BY <1>1, <1>2, <1>3, <2>1, <2>2 DEF Held
  <2>3. CASE j # id
    BY <1>1, <1>2, <1>3, <2>3 DEF Held
  <2> QED
    BY <2>2, <2>3
<1>5. Used' = [Used EXCEPT ![id] = now] /\ Used[id] = -1
  <2>1. ASSUME NEW j \in MailboxIds PROVE Used'[j] = IF j = id THEN now ELSE Used[j]
    BY <1>2, <1>3 DEF Used
  <2> QED
    BY <2>1 DEF Used
<1>6. InMap(c)' /\ \A b \in Boxes \ {c} : InMap(b)' <=> InMap(b)
  BY <1>2, <1>3 DEF InMap
<1>7. Stray' = Stray
  <2> SUFFICES ASSUME NEW j \in MailboxIds PROVE Stray'[j] = Stray[j]
    BY DEF Stray
  <2>1. {b \in Boxes : owner'[b] = j /\ ~InMap(b)'} = {b \in Boxes : owner[b] = j /\ ~InMap(b)} \ {c}
    BY <1>3, <1>6
  <2>2. c \notin {b \in Boxes : owner[b] = j /\ ~InMap(b)}
    BY <1>1, <1>2
  <2> QED
    BY <1>1, <2>1, <2>2 DEF Stray
<1>8. \A h \in Handlers : box[h] # c
  BY <1>1, <1>2
<1> QED
  BY <1>3, <1>4, <1>5, <1>6, <1>7, <1>8 DEF Promise!Open, Promise!Never

\* A handler without a mailbox gets hold of the object the map holds for id.
LEMMA PointerFinds ==
  ASSUME IInv, NEW h \in Handlers, NEW id \in MailboxIds, NEW b \in Boxes,
         box[h] = NoBox, box' = [box EXCEPT ![h] = b], owner'[b] = id, InMap(b)',
         \A g \in Handlers \ {h}, a \in Boxes : box[g] = a =>
           owner'[a] = owner[a] /\ (InMap(a)' <=> InMap(a))
  PROVE  /\ Found[h] = NoId /\ Found' = [Found EXCEPT ![h] = id]
         /\ Late' = Late
<1>1. box \in [Handlers -> Boxes \cup {NoBox}] /\ NoBox \notin Boxes
  BY Shape
<1>2. box'[h] = b /\ \A g \in Handlers \ {h} : box'[g] = box[g]
  BY <1>1
<1>3. ASSUME NEW g \in Handlers PROVE Found'[g] = IF g = h THEN id ELSE Found[g]
  BY <1>1, <1>2 DEF Found
<1>4. ASSUME NEW g \in Handlers PROVE g \in Late' <=> g \in Late
  BY <1>1, <1>2 DEF Late
<1>5. Late' = Late
  BY <1>4 DEF Late
<1>6. Found[h] = NoId
  BY DEF Found
<1>7. Found' = [Found EXCEPT ![h] = id]
  <2>1. /\ Found = [g \in Handlers |-> Found[g]]
        /\ Found' = [g \in Handlers |-> Found'[g]]
    BY DEF Found
  <2> QED
    BY <1>3, <2>1
<1> QED
  BY <1>5, <1>6, <1>7

\* A handler lets go of its object; the map stays.
LEMMA PointerReleases ==
  ASSUME IInv, NEW h \in Handlers, box[h] # NoBox, box' = [box EXCEPT ![h] = NoBox],
         UNCHANGED <<mailboxes, owner>>
  PROVE  Promise!Release(h) /\ Found[h] = owner[box[h]] /\ (h \in Late <=> ~InMap(box[h]))
<1>1. /\ box \in [Handlers -> Boxes \cup {NoBox}] /\ NoId \notin MailboxIds
      /\ owner[box[h]] \in MailboxIds
  BY Shape
<1>2. ASSUME NEW g \in Handlers PROVE Found'[g] = IF g = h THEN NoId ELSE Found[g]
  BY <1>1 DEF Found
<1>3. ASSUME NEW g \in Handlers PROVE g \in Late' <=> g \in Late /\ g # h
  BY <1>1 DEF Late, InMap
<1> QED
  BY <1>1, <1>2, <1>3 DEF Found, Late, Promise!Release

\* One object's queue or access time changes: if the map holds it, only the
\* mailbox of its id does, otherwise only the stray messages of that id.
LEMMA OneObjectChanges ==
  ASSUME IInv, NEW b \in Boxes, owner[b] \in MailboxIds, UNCHANGED <<mailboxes, owner>>,
         \A a \in Boxes \ {b} : queue'[a] = queue[a] /\ lastAccess'[a] = lastAccess[a]
  PROVE  LET id == owner[b]
         IN /\ InMap(b) => /\ Held[id] = ToSet(queue[b]) /\ Used[id] = lastAccess[b]
                           /\ Held' = [Held EXCEPT ![id] = ToSet(queue'[b])]
                           /\ Used' = [Used EXCEPT ![id] = lastAccess'[b]]
                           /\ Stray' = Stray
            /\ ~InMap(b) => /\ Held' = Held /\ Used' = Used
                            /\ Stray' = [Stray EXCEPT ![id] = Stray'[id]]
                            /\ \A m : m \in Stray'[id] <=>
                                 \/ m \in ToSet(queue'[b])
                                 \/ \E a \in Boxes \ {b} : /\ owner[a] = id /\ ~InMap(a)
                                                           /\ m \in ToSet(queue[a])
                            /\ \A m : m \in Stray[id] <=>
                                 \/ m \in ToSet(queue[b])
                                 \/ \E a \in Boxes \ {b} : /\ owner[a] = id /\ ~InMap(a)
                                                           /\ m \in ToSet(queue[a])
<1> DEFINE id == owner[b]
<1>1. /\ mailboxes \in [MailboxIds -> Boxes \cup {NoBox}] /\ NoBox \notin Boxes
      /\ NoId \notin MailboxIds
      /\ \A j \in MailboxIds : mailboxes[j] # NoBox => mailboxes[j] \in Boxes /\ owner[mailboxes[j]] = j
  BY Shape
<1>2. \A a \in Boxes : InMap(a)' <=> InMap(a)
  BY DEF InMap
<1>3. ASSUME NEW j \in MailboxIds, mailboxes[j] # b
      PROVE  Held'[j] = Held[j] /\ Used'[j] = Used[j]
  BY <1>1, <1>3 DEF Held, Used
<1>4. ASSUME NEW j \in MailboxIds PROVE
        /\ \A m : m \in Stray'[j] <=> \E a \in Boxes : owner[a] = j /\ ~InMap(a) /\ m \in ToSet(queue'[a])
        /\ \A m : m \in Stray[j] <=> \E a \in Boxes : owner[a] = j /\ ~InMap(a) /\ m \in ToSet(queue[a])
  BY <1>2 DEF Stray
<1>5. ASSUME NEW j \in MailboxIds, j # id \/ InMap(b) PROVE Stray'[j] = Stray[j]
  <2>1. ASSUME NEW m PROVE m \in Stray'[j] <=> m \in Stray[j]
    BY <1>4, <1>5
  <2> QED
    BY <2>1
<1>6. CASE InMap(b)
  <2>1. mailboxes[id] = b /\ \A j \in MailboxIds \ {id} : mailboxes[j] # b
    BY <1>1, <1>6 DEF InMap
  <2>2. Held[id] = ToSet(queue[b]) /\ Used[id] = lastAccess[b]
    BY <1>1, <2>1 DEF Held, Used
  <2>3. Held'[id] = ToSet(queue'[b]) /\ Used'[id] = lastAccess'[b]
    BY <1>1, <2>1 DEF Held, Used
  <2>4. Held' = [Held EXCEPT ![id] = ToSet(queue'[b])]
    BY <1>3, <2>1, <2>3 DEF Held
  <2>5. Used' = [Used EXCEPT ![id] = lastAccess'[b]]
    <3>1. \A j \in MailboxIds : Used'[j] = IF j = id THEN lastAccess'[b] ELSE Used[j]
      BY <1>3, <2>1, <2>3
    <3> HIDE DEF id
    <3> QED
      BY <3>1 DEF Used
  <2>6. Stray' = Stray
    BY <1>5, <1>6 DEF Stray
  <2> QED
    BY <1>6, <2>2, <2>4, <2>5, <2>6
<1>7. CASE ~InMap(b)
  <2>1. \A j \in MailboxIds : mailboxes[j] # b
    BY <1>1, <1>7 DEF InMap
  <2>2. Held' = Held /\ Used' = Used
    BY <1>3, <2>1 DEF Held, Used
  <2>3. Stray' = [Stray EXCEPT ![id] = Stray'[id]]
    <3>1. \A j \in MailboxIds : Stray'[j] = IF j = id THEN Stray'[id] ELSE Stray[j]
      BY <1>5
    <3> HIDE DEF id
    <3> QED
      BY <3>1 DEF Stray
  <2>4. /\ \A m : m \in Stray'[id] <=>
             \/ m \in ToSet(queue'[b])
             \/ \E a \in Boxes \ {b} : owner[a] = id /\ ~InMap(a) /\ m \in ToSet(queue[a])
        /\ \A m : m \in Stray[id] <=>
             \/ m \in ToSet(queue[b])
             \/ \E a \in Boxes \ {b} : owner[a] = id /\ ~InMap(a) /\ m \in ToSet(queue[a])
    BY <1>4, <1>7
  <2> QED
    BY <1>7, <2>2, <2>3, <2>4
<1> QED
  BY <1>6, <1>7

-----------------------------------------------------------------------------
(* The steps of the store *)

\* RegisterDevice opens the mailbox.
LEMMA RegisterRegisters ==
  ASSUME IInv, NEW id \in MailboxIds, RegisterDevice(id)
  PROVE  Promise!Register(id)
<1> USE DEF mapVars, boxVars, msgVars, handlerVars, cleanVars, clockVars
<1>1. PICK c \in Boxes : NewMailbox(id, c)
  BY DEF RegisterDevice
<1>2. /\ mailboxes[id] = NoBox /\ cleanPc = "idle"
      /\ UNCHANGED <<stamp, createdAt, now, box, pc, batch, cleanPc, cleaning>>
  BY <1>1 DEF RegisterDevice, MapFree, NewMailbox
<1>3. /\ Promise!Open(id) /\ UNCHANGED <<Held, Stray>>
      /\ \A h \in Handlers : box[h] # c
      /\ \A b \in Boxes \ {c} : owner'[b] = owner[b] /\ (InMap(b)' <=> InMap(b))
  BY <1>1, <1>2, NewMailboxOpens
<1>4. UNCHANGED <<Found, Late>>
  <2>1. \A h \in Handlers : box[h] \in Boxes \cup {NoBox}
    BY Shape
  <2>2. Found' = Found
    BY <1>2, <1>3, <2>1 DEF Found
  <2>3. ASSUME NEW h \in Handlers PROVE h \in Late' <=> h \in Late
    BY <1>2, <1>3, <2>1 DEF Late
  <2>4. Late' = Late
    BY <2>3 DEF Late
  <2> QED
    BY <2>2, <2>4
<1>5. UNCHANGED Answers
  BY <1>2, AnswersStay
<1>6. Doomed = NoId /\ UNCHANGED Doomed
  BY <1>2 DEF Doomed
<1> QED
  BY <1>2, <1>3, <1>4, <1>5, <1>6 DEF Promise!Register, Promise!requestVars

\* A lookup that hits finds the mailbox of the id: the first of a push, a pull
\* or a peek, the second of StoreMessage, and that for the queue size.
LEMMA LookupFinds ==
  ASSUME IInv, NEW h \in Handlers, NEW id \in MailboxIds, MapFree, UNCHANGED cleanPc,
         mailboxes[id] # NoBox, box[h] = NoBox, box' = [box EXCEPT ![h] = mailboxes[id]],
         UNCHANGED <<mailboxes, owner, queue, lastAccess, stamp, createdAt, now>>,
         UNCHANGED Answers
  PROVE  Promise!Find(h, id)
<1>1. PICK b \in Boxes : mailboxes[id] = b /\ owner[b] = id
  BY Shape
<1>2. InMap(b)' /\ \A a \in Boxes : InMap(a)' <=> InMap(a)
  <2>1. InMap(b)' /\ owner'[b] = id
    BY <1>1, StorageAssumption DEF InMap
  <2>2. \A a \in Boxes : InMap(a)' <=> InMap(a)
    BY DEF InMap
  <2> QED
    BY <2>1, <2>2
<1>3. Found[h] = NoId /\ Found' = [Found EXCEPT ![h] = id] /\ Late' = Late
  BY <1>1, <1>2, PointerFinds
<1>4. UNCHANGED <<Held, Used, Stray>>
  BY MailStays
<1>5. Used[id] # -1
  <2>1. lastAccess[b] \in Nat
    BY Shape
  <2> QED
    BY <1>1, <2>1 DEF Used
<1>6. Doomed = NoId /\ UNCHANGED Doomed
  BY DEF Doomed, MapFree
<1> QED
  BY <1>3, <1>4, <1>5, <1>6 DEF Promise!Find, Promise!Never

\* StoreMessage's creation of a mailbox opens and finds it.
LEMMA CreateFinds ==
  ASSUME IInv, NEW h \in Handlers, StoreCreate(h)
  PROVE  Promise!Find(h, target[h]) /\ target[h] \in MailboxIds
<1> USE DEF mapVars, boxVars, msgVars, handlerVars, cleanVars, clockVars
<1> DEFINE id == target[h]
<1>1. /\ id \in MailboxIds /\ box[h] = NoBox /\ pc \in [Handlers -> HandlerPcs]
  BY DEF StoreCreate, IInv, TypeOK, HandlersInv
<1>2. /\ cleanPc = "idle" /\ pc[h] = "create" /\ pc' = [pc EXCEPT ![h] = "stamp"]
      /\ UNCHANGED <<stamp, createdAt, now, batch, cleanPc>>
  BY DEF StoreCreate, MapFree, NewMailbox
<1>3. UNCHANGED Answers
  BY <1>1, <1>2, AnswersStay
<1>4. CASE mailboxes[id] # NoBox
  BY <1>1, <1>2, <1>3, <1>4, LookupFinds DEF StoreCreate, MapFree
<1>5. CASE mailboxes[id] = NoBox
  <2>1. PICK c \in Boxes : NewMailbox(id, c) /\ box' = [box EXCEPT ![h] = c]
    BY <1>5 DEF StoreCreate
  <2>2. /\ Promise!Open(id) /\ UNCHANGED <<Held, Stray>>
        /\ owner'[c] = id /\ InMap(c)'
        /\ \A g \in Handlers : box[g] # c
        /\ \A b \in Boxes \ {c} : owner'[b] = owner[b] /\ (InMap(b)' <=> InMap(b))
    BY <1>1, <1>5, <2>1, NewMailboxOpens
  <2>3. \A g \in Handlers : box[g] # NoBox => box[g] \in Boxes
    BY Shape
  <2>4. Found[h] = NoId /\ Found' = [Found EXCEPT ![h] = id] /\ Late' = Late
    BY <1>1, <2>1, <2>2, <2>3, PointerFinds
  <2>5. Doomed = NoId /\ UNCHANGED Doomed
    BY <1>2 DEF Doomed
  <2> QED
    BY <1>1, <1>2, <1>3, <2>2, <2>4, <2>5 DEF Promise!Find
<1> QED
  BY <1>1, <1>4, <1>5

\* Mailbox.Peek and Mailbox.Count only look.
LEMMA ReadersLook ==
  ASSUME IInv, NEW h \in Handlers, Peek(h) \/ Count(h)
  PROVE  Promise!Look(h)
<1> USE DEF mapVars, boxVars, msgVars, handlerVars, cleanVars, clockVars
<1>1. /\ pc \in [Handlers -> HandlerPcs] /\ batch \in [Handlers -> Seq(Messages)] /\ box[h] # NoBox
  BY DEF Peek, Count, IInv, TypeOK, HandlersInv
<1>2. /\ box' = [box EXCEPT ![h] = NoBox]
      /\ UNCHANGED <<mailboxes, owner, queue, lastAccess, stamp, createdAt, now, cleanPc, cleaning>>
  BY DEF Peek, Count
<1>3. \A g \in Handlers : (pc[g] = "encode" \/ pc'[g] = "encode") =>
                             pc'[g] = pc[g] /\ batch'[g] = batch[g]
  BY <1>1 DEF Peek, Count
<1>4. Promise!Release(h)
  BY <1>1, <1>2, PointerReleases
<1>5. UNCHANGED <<Held, Used, Stray, Answers, Doomed>>
  BY <1>2, <1>3, MailStays, AnswersStay DEF Doomed
<1> QED
  BY <1>2, <1>4, <1>5 DEF Promise!Look, Promise!mailboxVars

\* StoreMessage writes the creation time of a message nobody holds yet.
LEMMA StampPrepares ==
  ASSUME IInv, NEW h \in Handlers, StoreStamp(h)
  PROVE  Promise!Prepare(msg[h]) /\ msg[h] \in Messages
<1> USE DEF mapVars, boxVars, msgVars, handlerVars, cleanVars, clockVars
<1>1. msg[h] \in Messages /\ stamp[msg[h]] = 0 /\ pc \in [Handlers -> HandlerPcs]
  BY DEF IInv, TypeOK, HandlersInv, OrderInv, StoreStamp
<1>2. /\ createdAt' = [createdAt EXCEPT ![msg[h]] = now]
      /\ UNCHANGED <<mailboxes, owner, queue, lastAccess, box, stamp, now, batch, cleanPc, cleaning>>
      /\ pc[h] = "stamp" /\ pc' = [pc EXCEPT ![h] = "push"]
  BY DEF StoreStamp
<1>3. UNCHANGED <<Held, Used, Stray, Found, Late, Doomed>>
  BY <1>2, MailStays, RequestsStay DEF Doomed
<1>4. UNCHANGED Answers
  BY <1>1, <1>2, AnswersStay
<1> QED
  BY <1>1, <1>2, <1>3, <1>4 DEF Promise!Prepare, Promise!mailboxVars, Promise!requestVars

\* Mailbox.Push accepts a message: into the mailbox, in place of the oldest when
\* it is full, or into an object the map has dropped.
LEMMA PushAccepts ==
  ASSUME IInv, IInv', NEW h \in Handlers, Push(h)
  PROVE  (Promise!Accept(h, msg[h]) \/ Promise!AcceptLate(h, msg[h])) /\ msg[h] \in Messages
<1> USE DEF mapVars, boxVars, msgVars, handlerVars, cleanVars, clockVars
<1> DEFINE b == box[h]
           m == msg[h]
           q == queue[b]
           id == owner[b]
           out == IF Len(q) >= MaxMailboxSize /\ q # <<>> THEN {q[1]} ELSE {}
<1>1. /\ b \in Boxes /\ b # NoBox /\ id \in MailboxIds /\ m \in Messages /\ stamp[m] = 0
      /\ queue \in [Boxes -> Seq(Messages)] /\ lastAccess \in [Boxes -> Nat]
      /\ pc \in [Handlers -> HandlerPcs]
      /\ stamp \in [Messages -> Nat] /\ accepts \in Nat /\ \A n \in Messages : stamp[n] <= accepts
  BY StorageAssumption DEF IInv, TypeOK, HandlersInv, OrderInv, AllocatedInv, Push
<1>2. /\ queue' = [queue EXCEPT ![b] = Append(Evicted(q), m)]
      /\ lastAccess' = [lastAccess EXCEPT ![b] = now]
      /\ stamp' = [stamp EXCEPT ![m] = accepts + 1]
      /\ box' = [box EXCEPT ![h] = NoBox]
      /\ pc[h] = "push" /\ pc' = [pc EXCEPT ![h] = "size"]
      /\ UNCHANGED <<mailboxes, owner, createdAt, now, batch, cleanPc, cleaning>>
  BY DEF Push
<1>3. q \in Seq(Messages) /\ IsInjective(q) /\ Cardinality(ToSet(q)) = Len(q)
  BY <1>1, QueuesUnrepeated DEF Unrepeated
<1>4. ToSet(queue'[b]) = (ToSet(q) \ out) \cup {m}
  BY <1>1, <1>2, <1>3, PushedContent
<1>5. Promise!Release(h) /\ Found[h] = id /\ (h \in Late <=> ~InMap(b))
  BY <1>1, <1>2, PointerReleases
<1>6. UNCHANGED <<Answers, Doomed>>
  BY <1>1, <1>2, AnswersStay DEF Doomed
<1>7. Promise!Rank(m)
  <2>1. stamp'[m] = accepts + 1 /\ stamp' = [stamp EXCEPT ![m] = stamp'[m]]
    BY <1>1, <1>2
  <2>2. \A n \in Messages : stamp[n] < stamp'[m]
    BY <1>1, <2>1
  <2> QED
    BY <1>1, <2>1, <2>2 DEF Promise!Rank
<1>8. \A a \in Boxes \ {b} : queue'[a] = queue[a] /\ lastAccess'[a] = lastAccess[a]
  BY <1>1, <1>2
<1>9. lastAccess'[b] = now
  BY <1>1, <1>2
<1> HIDE DEF b
<1>10. CASE InMap(b)
  <2>1. /\ Held[id] = ToSet(q) /\ Held' = [Held EXCEPT ![id] = ToSet(queue'[b])]
        /\ Used' = [Used EXCEPT ![id] = now] /\ Stray' = Stray
    BY <1>1, <1>2, <1>8, <1>9, <1>10, OneObjectChanges
  <2>2. out \in Promise!Overflow(id)
    <3>1. CASE Len(q) >= MaxMailboxSize /\ q # <<>>
      <4>1. 1 \in 1..Len(q) /\ q[1] \in ToSet(q)
        BY <1>3, <3>1 DEF ToSet
      <4>2. \A n \in ToSet(q) : stamp[q[1]] <= stamp[n]
        <5> SUFFICES ASSUME NEW i \in 1..Len(q) PROVE stamp[q[1]] <= stamp[q[i]]
          BY <1>3 DEF ToSet
        <5>1. i = 1 \/ (1 < i /\ stamp[q[1]] < stamp[q[i]])
          BY <1>1, <4>1 DEF IInv, OrderInv
        <5>2. stamp[q[1]] \in Nat /\ stamp[q[i]] \in Nat
          BY <1>1, <1>3, <4>1
        <5> QED
          BY <5>1, <5>2
      <4>3. Promise!Cardinality(Held[id]) >= MaxMailboxSize
        BY <1>3, <2>1, <3>1, PromiseOperators
      <4> QED
        BY <2>1, <3>1, <4>1, <4>2, <4>3 DEF Promise!Overflow
    <3>2. CASE ~(Len(q) >= MaxMailboxSize /\ q # <<>>)
      BY <3>2 DEF Promise!Overflow
    <3> QED
      BY <3>1, <3>2
  <2>3. Held'[id] = ToSet(queue'[b])
    BY <1>1, <2>1 DEF Held
  <2>4. Held' = [Held EXCEPT ![id] = (Held[id] \ out) \cup {m}]
    BY <1>4, <2>1
  <2>5. Promise!Cardinality(Held'[id]) <= MaxMailboxSize \/ Held'[id] = {m}
    <3>1. /\ queue'[b] \in Seq(Messages) /\ Cardinality(ToSet(queue'[b])) = Len(queue'[b])
          /\ Len(queue'[b]) <= MaxMailboxSize \/ Len(queue'[b]) <= 1
      <4>1. Unrepeated'
        BY QueuesUnrepeated, PTL
      <4>2. BoundInv'
        BY DEF IInv
      <4> QED
        BY <1>1, <4>1, <4>2 DEF BoundInv, Unrepeated
    <3>2. m \in ToSet(queue'[b])
      BY <1>4
    <3>3. CASE Len(queue'[b]) <= 1
      BY <2>3, <3>1, <3>2, <3>3 DEF ToSet
    <3>4. CASE Len(queue'[b]) <= MaxMailboxSize
      BY <2>3, <3>1, <3>4, PromiseOperators
    <3> QED
      BY <3>1, <3>3, <3>4
  <2>6. \E o \in Promise!Overflow(id) : Held' = [Held EXCEPT ![id] = (Held[id] \ o) \cup {m}]
    BY <2>2, <2>4
  <2> HIDE DEF id, m
  <2> QED
    BY <1>2, <1>5, <1>6, <1>7, <1>10, <2>1, <2>5, <2>6, <1>1 DEF Promise!Accept, Promise!Use, m
<1>11. CASE ~InMap(b)
  <2> DEFINE Elsewhere(n) == \E a \in Boxes \ {b} : owner[a] = id /\ ~InMap(a) /\ n \in ToSet(queue[a])
  <2>1. /\ Held' = Held /\ Used' = Used /\ Stray' = [Stray EXCEPT ![id] = Stray'[id]]
        /\ \A n : n \in Stray'[id] <=> n \in ToSet(queue'[b]) \/ Elsewhere(n)
        /\ \A n : n \in Stray[id] <=> n \in ToSet(queue[b]) \/ Elsewhere(n)
    BY <1>1, <1>2, <1>8, <1>11, OneObjectChanges
  <2> HIDE DEF Elsewhere, id, out
  <2>2. m \in Stray'[id] /\ Stray'[id] \subseteq Stray[id] \cup {m}
    BY <1>4, <2>1
  <2> HIDE DEF m
  <2> QED
    BY <1>1, <1>2, <1>5, <1>6, <1>7, <1>11, <2>1, <2>2
       DEF Promise!AcceptLate, Promise!mailboxVars, m
<1> QED
  BY <1>1, <1>10, <1>11 DEF b

\* Mailbox.Pull takes the content of the object, in order of acceptance: that
\* of the mailbox, or stray messages if the map has dropped the object.
LEMMA PullTakes ==
  ASSUME IInv, NEW h \in Handlers, Pull(h)
  PROVE  Promise!Take(h) \/ Promise!TakeLate(h)
<1> USE DEF mapVars, boxVars, msgVars, handlerVars, cleanVars, clockVars
<1> DEFINE b == box[h]
           q == queue[b]
           id == owner[b]
<1>1. /\ b \in Boxes /\ b # NoBox /\ id \in MailboxIds
      /\ queue \in [Boxes -> Seq(Messages)] /\ lastAccess \in [Boxes -> Nat]
      /\ pc \in [Handlers -> HandlerPcs] /\ batch \in [Handlers -> Seq(Messages)]
  BY StorageAssumption DEF IInv, TypeOK, HandlersInv, AllocatedInv, Pull
<1>2. /\ pc[h] = "drain" /\ pc' = [pc EXCEPT ![h] = "encode"]
      /\ batch' = [batch EXCEPT ![h] = q] /\ queue' = [queue EXCEPT ![b] = <<>>]
      /\ lastAccess' = [lastAccess EXCEPT ![b] = now] /\ box' = [box EXCEPT ![h] = NoBox]
      /\ UNCHANGED <<mailboxes, owner, stamp, createdAt, now, cleanPc, cleaning>>
  BY DEF Pull
<1>3. Promise!Release(h) /\ Found[h] = id /\ (h \in Late <=> ~InMap(b))
  BY <1>1, <1>2, PointerReleases
<1>4. Promise!Return(h, ToSet(q))
  <2>1. Answers[h] = <<>> /\ Answers'[h] = q
    BY <1>1, <1>2 DEF Answers
  <2>2. Answers' = [Answers EXCEPT ![h] = Answers'[h]]
    <3>1. \A g \in Handlers \ {h} : pc'[g] = pc[g] /\ batch'[g] = batch[g]
      BY <1>1, <1>2
    <3> QED
      BY <3>1 DEF Answers
  <2>3. Promise!Lists(q, ToSet(q))
    <3>1. \A i, j \in 1..Len(q) : i < j => stamp[q[i]] < stamp[q[j]]
      BY <1>1 DEF IInv, OrderInv
    <3> QED
      BY <3>1, PromiseOperators DEF Promise!Lists
  <2>4. Promise!Lists(Answers'[h], ToSet(q))
    BY <2>1, <2>3
  <2> QED
    BY <2>1, <2>2, <2>4 DEF Promise!Return
<1>5. UNCHANGED Doomed
  BY <1>2 DEF Doomed
<1>6. \A a \in Boxes \ {b} : queue'[a] = queue[a] /\ lastAccess'[a] = lastAccess[a]
  BY <1>1, <1>2
<1>7. lastAccess'[b] = now /\ ToSet(queue'[b]) = {}
  BY <1>1, <1>2 DEF ToSet
<1>8. q \in Seq(Messages) /\ DOMAIN q = 1..Len(q)
  BY <1>1
<1> HIDE DEF b
<1>9. CASE InMap(b)
  <2>1. /\ Held[id] = ToSet(q) /\ Held' = [Held EXCEPT ![id] = {}]
        /\ Used' = [Used EXCEPT ![id] = now] /\ Stray' = Stray
    BY <1>1, <1>2, <1>6, <1>7, <1>9, OneObjectChanges
  <2>2. Promise!Return(h, Held[id])
    BY <1>4, <2>1
  <2> HIDE DEF id
  <2> QED
    BY <1>2, <1>3, <1>5, <1>9, <2>1, <2>2 DEF Promise!Take, Promise!Use
<1>10. CASE ~InMap(b)
  <2> DEFINE Elsewhere(n) == \E a \in Boxes \ {b} : owner[a] = id /\ ~InMap(a) /\ n \in ToSet(queue[a])
  <2>1. /\ Held' = Held /\ Used' = Used /\ Stray' = [Stray EXCEPT ![id] = Stray'[id]]
        /\ \A n : n \in Stray'[id] <=> n \in ToSet(queue'[b]) \/ Elsewhere(n)
        /\ \A n : n \in Stray[id] <=> n \in ToSet(queue[b]) \/ Elsewhere(n)
    BY <1>1, <1>2, <1>6, <1>10, OneObjectChanges
  <2>2. ASSUME NEW n \in ToSet(q) PROVE ~Elsewhere(n)
    <3>1. PICK i \in 1..Len(q) : n = q[i]
      BY <1>8 DEF ToSet
    <3>2. ASSUME NEW a \in Boxes \ {b}, n \in ToSet(queue[a]) PROVE FALSE
      <4>1. PICK j \in 1..Len(queue[a]) : n = queue[a][j]
        <5>1. DOMAIN queue[a] = 1..Len(queue[a])
          BY <1>1
        <5> QED
          BY <3>2, <5>1 DEF ToSet
      <4> QED
        BY <1>1, <3>1, <4>1 DEF IInv, EachMessageInOnePlace
    <3> QED
      BY <3>2
  <2> HIDE DEF Elsewhere, id
  <2>3. ToSet(q) \subseteq Stray[id] /\ Stray'[id] = Stray[id] \ ToSet(q)
    BY <1>7, <2>1, <2>2
  <2>4. \E S \in SUBSET Stray[id] : /\ Promise!Return(h, S)
                                    /\ Stray' = [Stray EXCEPT ![id] = Stray[id] \ S]
    BY <1>4, <2>1, <2>3
  <2> QED
    BY <1>2, <1>3, <1>5, <1>10, <2>1, <2>4 DEF Promise!TakeLate, Promise!mailboxVars
<1> QED
  BY <1>9, <1>10

\* The answer of a pull is sent, or that of a peek, of which the promise knows
\* nothing.
LEMMA RespondAnswers ==
  ASSUME IInv, NEW h \in Handlers, Respond(h)
  PROVE  Promise!Answer(h) \/ UNCHANGED Promise!vars
<1> USE DEF mapVars, boxVars, msgVars, handlerVars, cleanVars, clockVars
<1>1. /\ pc[h] \in {"encode", "show"} /\ pc' = [pc EXCEPT ![h] = "idle"]
      /\ batch' = [batch EXCEPT ![h] = <<>>]
      /\ UNCHANGED <<mailboxes, owner, queue, lastAccess, box, stamp, createdAt, now, cleanPc, cleaning>>
  BY DEF Respond
<1>2. pc \in [Handlers -> HandlerPcs] /\ batch \in [Handlers -> Seq(Messages)]
  BY DEF IInv, TypeOK
<1>3. UNCHANGED <<Held, Used, Stray, Found, Late, Doomed>>
  BY <1>1, MailStays, RequestsStay DEF Doomed
<1>4. CASE pc[h] = "encode"
  <2>1. Answers'[h] = <<>> /\ \A g \in Handlers \ {h} : pc'[g] = pc[g] /\ batch'[g] = batch[g]
    BY <1>1, <1>2 DEF Answers
  <2>2. Answers' = [Answers EXCEPT ![h] = <<>>]
    BY <2>1 DEF Answers
  <2> QED
    BY <1>1, <1>3, <2>2 DEF Promise!Answer, Promise!mailboxVars, Promise!requestVars
<1>5. CASE pc[h] = "show"
  <2>1. \A g \in Handlers : (pc[g] = "encode" \/ pc'[g] = "encode") =>
                               pc'[g] = pc[g] /\ batch'[g] = batch[g]
    BY <1>1, <1>2, <1>5
  <2>2. UNCHANGED Answers
    BY <2>1, AnswersStay
  <2> QED
    BY <1>1, <1>3, <2>2 DEF Promise!vars, Promise!mailboxVars, Promise!requestVars
<1> QED
  BY <1>1, <1>4, <1>5

\* What CleanupExpired unlinks has outlived its TTL by the clock of the pass,
\* so by the present one.
LEMMA ScanExpires ==
  ASSUME IInv, CleanScan, Expired(queue[mailboxes[cleaning]][cursor])
  PROVE  \E id \in MailboxIds, m \in Messages : Promise!Expire(id, m)
<1> USE DEF mapVars, boxVars, msgVars, handlerVars, cleanVars, clockVars
<1> DEFINE b == mailboxes[cleaning]
           q == queue[b]
           m == q[cursor]
<1>1. /\ cleaning \in MailboxIds /\ b \in Boxes /\ b # NoBox /\ owner[b] = cleaning
      /\ q \in Seq(Messages) /\ cursor \in 1..Len(q)
      /\ queue \in [Boxes -> Seq(Messages)] /\ lastAccess \in [Boxes -> Nat]
  BY StorageAssumption DEF IInv, TypeOK, CleanScan, CleanInv, OwnerInv, Live
<1>2. /\ cleanNow <= now /\ createdAt \in [Messages -> Nat] /\ now \in Nat /\ cleanNow \in Nat
  BY DEF IInv, TypeOK, CleanInv
<1>3. /\ queue' = [queue EXCEPT ![b] = RemoveAt(q, cursor)]
      /\ UNCHANGED <<mailboxes, owner, lastAccess, box, stamp, createdAt, now, pc, batch, cleanPc, cleaning>>
  BY DEF CleanScan
<1>4. m \in Messages /\ m \in ToSet(q) /\ IsInjective(q)
  <2>1. m \in Messages /\ m \in ToSet(q)
    BY <1>1 DEF ToSet
  <2>2. IsInjective(q)
    BY <1>1, QueuesUnrepeated DEF Unrepeated
  <2> QED
    BY <2>1, <2>2
<1>5. ToSet(RemoveAt(q, cursor)) = ToSet(q) \ {m}
  BY <1>1, <1>4, RemovedContent
<1>6. /\ \A a \in Boxes \ {b} : queue'[a] = queue[a] /\ lastAccess'[a] = lastAccess[a]
      /\ ToSet(queue'[b]) = ToSet(q) \ {m} /\ lastAccess'[b] = lastAccess[b]
      /\ InMap(b)
  BY <1>1, <1>3, <1>5, StorageAssumption DEF InMap
<1> HIDE DEF b
<1>7. /\ Held[cleaning] = ToSet(q) /\ Used[cleaning] = lastAccess[b]
      /\ Held' = [Held EXCEPT ![cleaning] = ToSet(queue'[b])]
      /\ Used' = [Used EXCEPT ![cleaning] = lastAccess'[b]]
      /\ Stray' = Stray
  BY <1>1, <1>3, <1>6, OneObjectChanges
<1>8. UNCHANGED <<Used, Found, Late, Doomed, Answers>>
  <2>1. UNCHANGED Used
    BY <1>3, <1>6, <1>7 DEF Used
  <2> QED
    BY <1>3, <2>1, RequestsStay, AnswersStay DEF Doomed
<1>9. now - createdAt[m] > MessageTTL
  BY <1>2, <1>4, StorageAssumption DEF Expired, b
<1>10. Held' = [Held EXCEPT ![cleaning] = Held[cleaning] \ {m}] /\ m \in Held[cleaning]
  BY <1>4, <1>6, <1>7
<1>11. Promise!Expire(cleaning, m)
  BY <1>3, <1>7, <1>8, <1>9, <1>10 DEF Promise!Expire, Promise!requestVars
<1> QED
  BY <1>1, <1>4, <1>11

\* The mailbox the cleanup decides to delete is empty and unused for twice the
\* TTL by the clock of the pass, so by the present one.
LEMMA CheckCondemns ==
  ASSUME IInv, CleanCheck
  PROVE  (\E id \in MailboxIds : Promise!Condemn(id)) \/ UNCHANGED Promise!vars
<1> USE DEF mapVars, boxVars, msgVars, handlerVars, cleanVars, clockVars
<1> DEFINE b == mailboxes[cleaning]
           idle == queue[b] = <<>> /\ cleanNow - lastAccess[b] > 2 * MessageTTL
<1>1. /\ cleaning \in MailboxIds /\ b \in Boxes /\ b # NoBox /\ NoId \notin MailboxIds
      /\ lastAccess[b] \in Nat /\ cleanNow \in Nat /\ now \in Nat /\ cleanNow <= now
  BY StorageAssumption DEF IInv, TypeOK, CleanCheck, CleanInv, Live
<1>2. /\ cleanPc = "check" /\ cleanPc' = (IF idle THEN "delete" ELSE "next")
      /\ cleaning' = (IF idle THEN cleaning ELSE NoId)
      /\ UNCHANGED <<mailboxes, owner, queue, lastAccess, box, stamp, createdAt, now, pc, batch>>
  BY DEF CleanCheck
<1>3. UNCHANGED <<Held, Used, Stray, Found, Late, Answers>> /\ Doomed = NoId
  BY <1>2, MailStays, RequestsStay, AnswersStay DEF Doomed
<1>4. CASE idle
  <2>1. Held[cleaning] = {} /\ Used[cleaning] = lastAccess[b]
    BY <1>1, <1>4 DEF Held, Used, ToSet
  <2>2. now - lastAccess[b] > 2 * MessageTTL
    BY <1>1, <1>4, StorageAssumption
  <2>3. Doomed' = cleaning
    BY <1>2, <1>4 DEF Doomed
  <2>4. Promise!Condemn(cleaning)
    <3>1. Used[cleaning] # -1
      BY <1>1, <2>1
    <3> HIDE DEF b
    <3> QED
      BY <1>2, <1>3, <2>1, <2>2, <2>3, <3>1
         DEF Promise!Condemn, Promise!Never, Promise!mailboxVars, Promise!requestVars
  <2> QED
    BY <1>1, <2>4
<1>5. CASE ~idle
  <2>1. UNCHANGED Doomed
    BY <1>2, <1>3, <1>5 DEF Doomed
  <2> QED
    BY <1>2, <1>3, <2>1 DEF Promise!vars, Promise!mailboxVars, Promise!requestVars
<1> QED
  BY <1>4, <1>5

\* The deletion drops the mailbox with what has been pushed since the check,
\* and leaves late whoever has a pointer to it.
LEMMA DeleteDrops ==
  ASSUME IInv, CleanDelete
  PROVE  Promise!Drop
<1> USE DEF mapVars, boxVars, msgVars, handlerVars, cleanVars, clockVars
<1> DEFINE b == mailboxes[cleaning]
<1>1. /\ cleaning \in MailboxIds /\ b \in Boxes /\ b # NoBox /\ owner[b] = cleaning
  BY StorageAssumption DEF IInv, TypeOK, CleanDelete, CleanInv, OwnerInv, Live
<1>2. /\ mailboxes \in [MailboxIds -> Boxes \cup {NoBox}] /\ NoBox \notin Boxes
      /\ owner \in [Boxes -> MailboxIds \cup {NoId}] /\ NoId \notin MailboxIds
      /\ box \in [Handlers -> Boxes \cup {NoBox}]
      /\ \A h \in Handlers : box[h] # NoBox => box[h] \in Boxes /\ owner[box[h]] \in MailboxIds
  BY Shape
<1>3. /\ cleanPc = "delete" /\ cleanPc' = "next"
      /\ mailboxes' = [mailboxes EXCEPT ![cleaning] = NoBox]
      /\ UNCHANGED <<owner, queue, lastAccess, box, stamp, createdAt, now, pc, batch>>
  BY DEF CleanDelete
<1>4. Doomed = cleaning /\ Doomed' = NoId
  BY <1>3 DEF Doomed
<1>5. /\ mailboxes'[cleaning] = NoBox
      /\ \A id \in MailboxIds \ {cleaning} : mailboxes'[id] = mailboxes[id]
      /\ InMap(b)
      /\ \A a \in Boxes : InMap(a)' <=> InMap(a) /\ a # b
  BY <1>1, <1>2, <1>3 DEF InMap
<1> HIDE DEF b
<1>6. Held' = [Held EXCEPT ![cleaning] = {}] /\ Held[cleaning] = ToSet(queue[b])
  <2>1. \A id \in MailboxIds : Held'[id] = IF id = cleaning THEN {} ELSE Held[id]
    BY <1>3, <1>5 DEF Held
  <2>2. Held[cleaning] = ToSet(queue[b])
    BY <1>1, <1>2 DEF Held, b
  <2>3. Held = [id \in MailboxIds |-> Held[id]] /\ Held' = [id \in MailboxIds |-> Held'[id]]
    BY DEF Held
  <2> QED
    BY <2>1, <2>2, <2>3
<1>7. Used' = [Used EXCEPT ![cleaning] = -1]
  <2>1. \A id \in MailboxIds : Used'[id] = IF id = cleaning THEN -1 ELSE Used[id]
    BY <1>3, <1>5 DEF Used
  <2>2. Used = [id \in MailboxIds |-> Used[id]] /\ Used' = [id \in MailboxIds |-> Used'[id]]
    BY DEF Used
  <2> QED
    BY <2>1, <2>2
<1>8. Stray' = [Stray EXCEPT ![cleaning] = Stray[cleaning] \cup Held[cleaning]]
  <2>1. ASSUME NEW id \in MailboxIds
        PROVE  Stray'[id] = IF id = cleaning THEN Stray[id] \cup ToSet(queue[b]) ELSE Stray[id]
    <3> DEFINE Out == {a \in Boxes : owner[a] = id /\ ~InMap(a)}
               Out2 == {a \in Boxes : owner'[a] = id /\ ~InMap(a)'}
    <3>1. Stray[id] = UNION {ToSet(queue[a]) : a \in Out}
      BY DEF Stray
    <3>2. Stray'[id] = UNION {ToSet(queue[a]) : a \in Out2}
      BY <1>3 DEF Stray
    <3>3. Out2 = IF id = cleaning THEN Out \cup {b} ELSE Out
      BY <1>1, <1>3, <1>5
    <3> HIDE DEF Out, Out2
    <3> QED
      BY <3>1, <3>2, <3>3
  <2>2. Stray = [id \in MailboxIds |-> Stray[id]] /\ Stray' = [id \in MailboxIds |-> Stray'[id]]
    BY DEF Stray
  <2> QED
    BY <1>6, <2>1, <2>2
<1>9. Late' = Late \cup {h \in Handlers : Found[h] = cleaning}
  <2>1. ASSUME NEW h \in Handlers PROVE h \in Late' <=> h \in Late \/ Found[h] = cleaning
    <3>1. CASE box[h] = NoBox
      BY <1>1, <1>2, <1>3, <3>1 DEF Late, Found
    <3>2. CASE box[h] # NoBox
      <4>1. PICK a \in Boxes : box[h] = a /\ owner[a] \in MailboxIds
        BY <1>2, <3>2
      <4>2. h \in Late' <=> ~InMap(a)'
        BY <1>2, <1>3, <4>1 DEF Late, InMap
      <4>3. (h \in Late <=> ~InMap(a)) /\ Found[h] = owner[a]
        BY <1>2, <4>1 DEF Late, Found
      <4>4. owner[a] = cleaning => a = b \/ ~InMap(a)
        BY DEF InMap, b
      <4> QED
        BY <1>1, <1>5, <4>2, <4>3, <4>4
    <3> QED
      BY <3>1, <3>2
  <2>2. Late \subseteq Handlers /\ Late' \subseteq Handlers
    BY DEF Late
  <2> QED
    BY <2>1, <2>2
<1>10. UNCHANGED <<Found, Answers>>
  BY <1>3, AnswersStay DEF Found
<1> QED
  BY <1>1, <1>2, <1>3, <1>4, <1>6, <1>7, <1>8, <1>9, <1>10 DEF Promise!Drop, Promise!Never

\* Nothing survives a restart of the process.
LEMMA RestartRestarts == Restart => Promise!Restart
<1> SUFFICES ASSUME Restart PROVE Promise!Restart
  OBVIOUS
<1>1. /\ mailboxes' = [id \in MailboxIds |-> NoBox] /\ owner' = [b \in Boxes |-> NoId]
      /\ queue' = [b \in Boxes |-> <<>>] /\ pc' = [h \in Handlers |-> "idle"]
      /\ box' = [h \in Handlers |-> NoBox] /\ cleanPc' = "idle"
      /\ UNCHANGED <<stamp, createdAt, now>>
  BY DEF Restart, msgVars
<1>2. Held' = [id \in MailboxIds |-> {}] /\ Used' = [id \in MailboxIds |-> -1]
  BY <1>1 DEF Held, Used
<1>3. Stray' = [id \in MailboxIds |-> {}]
  BY <1>1, StorageAssumption DEF Stray
<1>4. Found' = [h \in Handlers |-> NoId] /\ Late' = {} /\ Doomed' = NoId
  BY <1>1 DEF Found, Late, Doomed
<1>5. Answers' = [h \in Handlers |-> <<>>]
  BY <1>1 DEF Answers
<1> QED
  BY <1>1, <1>2, <1>3, <1>4, <1>5 DEF Promise!Restart, Promise!Never

\* The clock of the store is the clock of the promise.
LEMMA TickTicks == Tick => Promise!Tick
<1> SUFFICES ASSUME Tick PROVE Promise!Tick
  OBVIOUS
<1>1. /\ now' = now + 1
      /\ UNCHANGED <<mailboxes, owner, queue, lastAccess, box, stamp, createdAt, pc, batch, cleanPc, cleaning>>
  BY DEF Tick, mapVars, boxVars, msgVars, handlerVars, cleanVars
<1>2. UNCHANGED <<Held, Used, Stray, Found, Late, Doomed, Answers>>
  BY <1>1, MailStays, RequestsStay, AnswersStay DEF Doomed
<1> QED
  BY <1>1, <1>2 DEF Promise!Tick, Promise!mailboxVars, Promise!requestVars

\* A lookup that misses, the encoding of a pulled message, and the cleanup's
\* way from one mailbox to the next: nothing of it concerns the promise.
LEMMA Unseen ==
  ASSUME UNCHANGED <<mailboxes, owner, queue, lastAccess, box, stamp, createdAt, now, Doomed, Answers>>
  PROVE  UNCHANGED Promise!vars
  BY MailStays, RequestsStay DEF Promise!vars, Promise!mailboxVars, Promise!requestVars

\* The requests' lookups: a hit finds a mailbox, a miss is unseen.
LEMMA LookupPromised ==
  ASSUME IInv, NEW h \in Handlers,
         \/ \E id \in MailboxIds :
              \/ \E m \in Messages : StoreLookup(h, id, m)
              \/ Lookup(h, id, "drain") \/ Lookup(h, id, "view")
         \/ SizeLookup(h)
  PROVE  (\E id \in MailboxIds : Promise!Find(h, id)) \/ UNCHANGED Promise!vars
<1> USE DEF mapVars, boxVars, msgVars, handlerVars, cleanVars, clockVars
<1>1. PICK id \in MailboxIds, l \in HandlerPcs \ {"encode"} :
        /\ MapFree /\ pc[h] \in {"idle", "size"} /\ pc' = [pc EXCEPT ![h] = l]
        /\ box' = [box EXCEPT ![h] = mailboxes[id]]
        /\ UNCHANGED <<mailboxes, owner, queue, lastAccess, stamp, createdAt, now, batch, cleanPc, cleaning>>
  <2>1. ASSUME NEW id \in MailboxIds, NEW m \in Messages, StoreLookup(h, id, m)
        PROVE  \E l \in HandlerPcs \ {"encode"} : pc' = [pc EXCEPT ![h] = l]
    BY <2>1 DEF StoreLookup, HandlerPcs
  <2>2. ASSUME NEW id \in MailboxIds, Lookup(h, id, "drain") \/ Lookup(h, id, "view")
        PROVE  \E l \in HandlerPcs \ {"encode"} : pc' = [pc EXCEPT ![h] = l]
    BY <2>2 DEF Lookup, HandlerPcs
  <2>3. ASSUME SizeLookup(h)
        PROVE  /\ target[h] \in MailboxIds
               /\ \E l \in HandlerPcs \ {"encode"} : pc' = [pc EXCEPT ![h] = l]
    BY <2>3 DEF SizeLookup, HandlerPcs, IInv, TypeOK, HandlersInv
  <2>4. CASE \E id \in MailboxIds, m \in Messages : StoreLookup(h, id, m)
    BY <2>1, <2>4 DEF StoreLookup
  <2>5. CASE \E id \in MailboxIds : Lookup(h, id, "drain") \/ Lookup(h, id, "view")
    BY <2>2, <2>5 DEF Lookup
  <2>6. CASE SizeLookup(h)
    BY <2>3, <2>6 DEF SizeLookup
  <2> QED
    BY <2>4, <2>5, <2>6
<1>2. /\ box[h] = NoBox /\ box \in [Handlers -> Boxes \cup {NoBox}]
      /\ pc \in [Handlers -> HandlerPcs] /\ batch \in [Handlers -> Seq(Messages)]
  BY <1>1 DEF IInv, TypeOK, HandlersInv
<1>3. UNCHANGED <<Answers, Doomed>>
  <2>1. \A g \in Handlers : (pc[g] = "encode" \/ pc'[g] = "encode") =>
                               pc'[g] = pc[g] /\ batch'[g] = batch[g]
    BY <1>1, <1>2
  <2> QED
    BY <1>1, <2>1, AnswersStay DEF Doomed
<1>4. CASE mailboxes[id] # NoBox
  BY <1>1, <1>2, <1>3, <1>4, LookupFinds
<1>5. CASE mailboxes[id] = NoBox
  <2>1. UNCHANGED box
    BY <1>1, <1>2, <1>5
  <2> QED
    BY <1>1, <1>3, <2>1, Unseen
<1> QED
  BY <1>4, <1>5

\* Every step of the store is a step of the promise, or none.
LEMMA StepPromised == IInv /\ IInv' /\ [Next]_vars => [Promise!Next]_(Promise!vars)
<1> SUFFICES ASSUME IInv, IInv', [Next]_vars PROVE Promise!Next \/ UNCHANGED Promise!vars
  OBVIOUS
<1> USE DEF mapVars, boxVars, msgVars, handlerVars, cleanVars, clockVars
<1>1. ASSUME NEW id \in MailboxIds, RegisterDevice(id) PROVE Promise!Next
  BY <1>1, RegisterRegisters DEF Promise!Next
<1>2. ASSUME NEW h \in Handlers, Arrive(h) \/ SizeLookup(h)
      PROVE  Promise!Next \/ UNCHANGED Promise!vars
  <2>1. (\E id \in MailboxIds : Promise!Find(h, id)) \/ UNCHANGED Promise!vars
    BY <1>2, LookupPromised DEF Arrive
  <2> QED
    BY <2>1 DEF Promise!Next
<1>3. ASSUME NEW h \in Handlers, StoreCreate(h) PROVE Promise!Next
  BY <1>3, CreateFinds DEF Promise!Next
<1>4. ASSUME NEW h \in Handlers, StoreStamp(h) PROVE Promise!Next
  BY <1>4, StampPrepares DEF Promise!Next
<1>5. ASSUME NEW h \in Handlers, Push(h) PROVE Promise!Next
  BY <1>5, PushAccepts DEF Promise!Next
<1>6. ASSUME NEW h \in Handlers, Peek(h) \/ Count(h) PROVE Promise!Next
  BY <1>6, ReadersLook DEF Promise!Next
<1>7. ASSUME NEW h \in Handlers, Pull(h) PROVE Promise!Next
  BY <1>7, PullTakes DEF Promise!Next
<1>8. ASSUME NEW h \in Handlers, Respond(h) PROVE Promise!Next \/ UNCHANGED Promise!vars
  BY <1>8, RespondAnswers DEF Promise!Next
<1>9. ASSUME NEW h \in Handlers, EncodeAndWipe(h) PROVE UNCHANGED Promise!vars
  <2>1. UNCHANGED <<Answers, Doomed>>
    BY <1>9, AnswersStay DEF EncodeAndWipe, Doomed
  <2> QED
    BY <1>9, <2>1, Unseen DEF EncodeAndWipe
<1>10. ASSUME CleanScan PROVE Promise!Next \/ UNCHANGED Promise!vars
  <2>1. CASE Expired(queue[mailboxes[cleaning]][cursor])
    BY <1>10, <2>1, ScanExpires DEF Promise!Next
  <2>2. CASE ~Expired(queue[mailboxes[cleaning]][cursor])
    <3>1. UNCHANGED <<mailboxes, owner, queue, lastAccess, box, stamp, createdAt, now, pc, batch, cleanPc, cleaning>>
      BY <1>10, <2>2 DEF CleanScan
    <3> QED
      BY <3>1, Unseen, AnswersStay DEF Doomed
  <2> QED
    BY <2>1, <2>2
<1>11. ASSUME CleanCheck PROVE Promise!Next \/ UNCHANGED Promise!vars
  BY <1>11, CheckCondemns DEF Promise!Next
<1>12. ASSUME CleanDelete PROVE Promise!Next
  BY <1>12, DeleteDrops DEF Promise!Next
<1>13. ASSUME CleanStart \/ (\E id \in MailboxIds : CleanNext(id)) \/ CleanUnlock \/ CleanDone
       PROVE  UNCHANGED Promise!vars
  <2>1. /\ UNCHANGED <<mailboxes, owner, queue, lastAccess, box, stamp, createdAt, now, pc, batch>>
        /\ cleanPc # "delete" /\ cleanPc' # "delete"
    BY <1>13 DEF CleanStart, CleanNext, CleanUnlock, CleanDone
  <2> QED
    BY <2>1, Unseen, AnswersStay DEF Doomed
<1>14. ASSUME Tick \/ Restart PROVE Promise!Next
  BY <1>14, TickTicks, RestartRestarts DEF Promise!Next
<1>15. ASSUME UNCHANGED vars PROVE UNCHANGED Promise!vars
  BY <1>15, Unseen, AnswersStay DEF vars, Doomed
<1> QED
  BY <1>1, <1>2, <1>3, <1>4, <1>5, <1>6, <1>7, <1>8, <1>9, <1>10, <1>11, <1>12, <1>13, <1>14, <1>15
     DEF Next, Handle, Clean

\* The store keeps its promise: whatever requests, the cleanup and restarts do
\* to each other, an accepted message stays in the mailbox the map holds for
\* its id until a pull gets all of that mailbox in order, until it is the
\* oldest of a full one, outlives its TTL or the process ends; the exception is
\* a mailbox that was empty and unused for 2 * MessageTTL when the cleanup
\* looked at it: deleted, it takes along what a push that had looked it up
\* before puts into it.
THEOREM Refinement == Spec => KeepsPromise
<1>1. Init => Promise!Init
  <2> SUFFICES ASSUME Init PROVE Promise!Init
    OBVIOUS
  <2>1. Held = [id \in MailboxIds |-> {}] /\ Used = [id \in MailboxIds |-> -1]
    BY DEF Init, Held, Used
  <2>2. Stray = [id \in MailboxIds |-> {}]
    BY StorageAssumption DEF Init, Stray
  <2>3. /\ Found = [h \in Handlers |-> NoId] /\ Late = {} /\ Doomed = NoId
        /\ Answers = [h \in Handlers |-> <<>>]
    BY DEF Init, Found, Late, Doomed, Answers
  <2> QED
    BY <2>1, <2>2, <2>3 DEF Init, Promise!Init, Promise!Never
<1> QED
  BY <1>1, StepPromised, Invariance, PTL DEF Spec, KeepsPromise, Promise!Spec
=============================================================================
