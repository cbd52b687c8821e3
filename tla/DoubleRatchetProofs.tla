------------------------ MODULE DoubleRatchetProofs ------------------------
(***************************************************************************)
(* The Double Ratchet for every MaxSkip and any number of messages.  Lost, *)
(* repeated and reordered at will: the skip list stays within its limit,   *)
(* no two messages are encrypted under one key, and no message opens       *)
(* twice.  In an orderly network: every message opens unless too many      *)
(* before it are missing, and the roots of the peers agree.                *)
(*                                                                         *)
(* Sending is about chains: the last secret of a chain names the pair it   *)
(* was made with, so chains of different pairs, or of different peers,     *)
(* differ.  Receiving is about length: a new chain is longer than all that *)
(* were left behind, so no key behind is ever derived again.               *)
(*                                                                         *)
(* The orderly network is about turns: the peer that is ahead has made     *)
(* exactly one ratchet step more than the other (Ahead), so the first      *)
(* message from a pair not yet seen makes the receiving chain its sender   *)
(* has sent on (Matches).  A skip list then counts only messages that are  *)
(* missing (Lost).                                                         *)
(***************************************************************************)
EXTENDS DoubleRatchet, TLAPS, FiniteSetTheorems, SequenceTheorems

\* There are two peers, and each is the other of the other.
LEMMA OtherPeer ==
  ASSUME NEW p \in Peers
  PROVE  /\ Other(p) \in Peers /\ Other(p) # p /\ Other(Other(p)) = p
         /\ \A q \in Peers : q = p \/ q = Other(p)
         /\ p # "nobody"
BY DEF Peers, Other

\* A ratchet step, field by field.
LEMMA RatchetedFields ==
  ASSUME NEW d \in Ratchets, NEW r \in Pairs
  PROVE  LET e == Ratcheted(d, r)
         IN /\ NextPair(d.self).owner = d.self.owner /\ NextPair(d.self).i = d.self.i + 1
            /\ e \in Ratchets
            /\ e.root = Append(Append(d.root, Secret(d.self, r)), Secret(NextPair(d.self), r))
            /\ e.self = NextPair(d.self) /\ e.remote = r
            /\ e.send.chain = e.root /\ e.send.n = 0
            /\ e.recv.chain = Append(d.root, Secret(d.self, r)) /\ e.recv.n = 0
            /\ ~e.stepNeeded /\ e.skipped = d.skipped /\ e.skippedCount = d.skippedCount
<1> DEFINE root1 == Append(d.root, Secret(d.self, r))
           self2 == NextPair(d.self)
           root2 == Append(root1, Secret(self2, r))
<1>1. d.self \in Pairs /\ self2 = [owner |-> d.self.owner, i |-> d.self.i + 1] /\ self2 \in Pairs
  BY DEF Ratchets, Pairs, NextPair
<1>2. Secret(d.self, r) \in SUBSET Pairs /\ Secret(self2, r) \in SUBSET Pairs
  BY <1>1 DEF Secret
<1>3. root1 \in RootKeys /\ root2 \in RootKeys
  BY <1>2 DEF Ratchets, RootKeys
<1> DEFINE new == [root |-> root2, self |-> self2, remote |-> r,
                   send |-> [chain |-> root2, n |-> 0], recv |-> [chain |-> root1, n |-> 0],
                   stepNeeded |-> FALSE, skipped |-> d.skipped, skippedCount |-> d.skippedCount]
<1>4. Ratcheted(d, r) = new
  <2> HIDE DEF root1, self2, root2
  <2>1. Ratcheted(d, r) =
          [d EXCEPT !.root = root2, !.self = self2, !.remote = r,
                    !.recv = [chain |-> root1, n |-> 0], !.send = [chain |-> root2, n |-> 0],
                    !.stepNeeded = FALSE]
    BY DEF Ratcheted, root1, self2, root2
  <2> QED
    BY <2>1 DEF Ratchets
<1>5. new \in Ratchets
  <2> HIDE DEF root1, self2, root2
  <2> QED
    BY <1>1, <1>3 DEF Ratchets, MessageKeys
<1> QED
  BY SMTT(40), <1>1, <1>4, <1>5

\* What p has when it has looked at the header of a message.
LEMMA TurnedFields ==
  ASSUME TypeOK, NEW p \in Peers, NEW m \in [dh : Pairs, n : Nat, key : MessageKeys]
  PROVE  LET d == Turned(p, m)
         IN /\ d \in Ratchets
            /\ d.skipped = dr[p].skipped /\ d.skippedCount = dr[p].skippedCount
            /\ d = dr[p] \/ d = Ratcheted(dr[p], m.dh)
            /\ d = dr[p] => ~dr[p].stepNeeded /\ dr[p].remote = m.dh
<1>1. dr[p] \in Ratchets /\ m.dh \in Pairs
  BY DEF TypeOK
<1>2. CASE dr[p].stepNeeded \/ dr[p].remote # m.dh
  <2>1. Turned(p, m) = Ratcheted(dr[p], m.dh)
    BY <1>2 DEF Turned
  <2>2. /\ Ratcheted(dr[p], m.dh) \in Ratchets
        /\ Ratcheted(dr[p], m.dh).skipped = dr[p].skipped
        /\ Ratcheted(dr[p], m.dh).skippedCount = dr[p].skippedCount
        /\ ~Ratcheted(dr[p], m.dh).stepNeeded /\ Ratcheted(dr[p], m.dh).remote = m.dh
    BY <1>1, RatchetedFields
  <2>3. Ratcheted(dr[p], m.dh) # dr[p]
    BY <1>2, <2>2
  <2> QED
    BY <2>1, <2>2, <2>3
<1>3. CASE ~(dr[p].stepNeeded \/ dr[p].remote # m.dh)
  BY <1>1, <1>3 DEF Turned
<1> QED
  BY <1>2, <1>3

\* The skip list takes up the keys from the receiving chain's next to n.
LEMMA SkippedToFields ==
  ASSUME NEW d \in Ratchets, NEW n \in Nat, n >= d.recv.n
  PROVE  LET passed == d.recv.n..(n - 1)
             fresh == {[chain |-> d.recv.chain, n |-> i] : i \in passed}
             e == SkippedTo(d, n)
         IN /\ e \in Ratchets
            /\ e.root = d.root /\ e.self = d.self /\ e.remote = d.remote /\ e.send = d.send
            /\ e.recv = [chain |-> d.recv.chain, n |-> n] /\ e.stepNeeded = d.stepNeeded
            /\ e.skipped = {k \in d.skipped : k.n \notin passed} \cup fresh
            /\ e.skippedCount = d.skippedCount + (n - d.recv.n)
            /\ IsFiniteSet(fresh) /\ Cardinality(fresh) <= n - d.recv.n
<1> DEFINE passed == d.recv.n..(n - 1)
           fresh == {[chain |-> d.recv.chain, n |-> i] : i \in passed}
<1>1. d.recv.n \in Nat /\ d.recv.chain \in RootKeys /\ d.skippedCount \in Nat /\ d.skipped \subseteq MessageKeys
      /\ d.recv \in MessageKeys
  BY DEF Ratchets, MessageKeys
<1>2. IsFiniteSet(passed) /\ Cardinality(passed) = n - d.recv.n
  <2>1. d.recv.n \in Int /\ n - 1 \in Int /\ (d.recv.n > n - 1 <=> n = d.recv.n)
    BY <1>1
  <2>2. IsFiniteSet(passed) /\ Cardinality(passed) = IF d.recv.n > n - 1 THEN 0 ELSE (n - 1) - d.recv.n + 1
    BY <2>1, FS_Interval
  <2> HIDE DEF passed
  <2> QED
    BY <1>1, <2>1, <2>2
<1>3. IsFiniteSet(fresh) /\ Cardinality(fresh) <= n - d.recv.n
  <2> DEFINE f == [i \in passed |-> [chain |-> d.recv.chain, n |-> i]]
  <2>1. f \in Surjection(passed, fresh)
    BY DEF Surjection
  <2> QED
    BY <1>2, <2>1, FS_Surjection
<1>4. SkippedTo(d, n) =
        [d EXCEPT !.skipped = {k \in d.skipped : k.n \notin passed} \cup fresh,
                  !.skippedCount = d.skippedCount + (n - d.recv.n),
                  !.recv.n = n]
  BY <1>2 DEF SkippedTo
<1>5. fresh \subseteq MessageKeys
  BY <1>1 DEF MessageKeys
<1> DEFINE list == {k \in d.skipped : k.n \notin passed} \cup fresh
<1>6. list \subseteq MessageKeys
  BY <1>1, <1>5
<1> HIDE DEF list
<1>7. SkippedTo(d, n) =
        [root |-> d.root, self |-> d.self, remote |-> d.remote, send |-> d.send,
         recv |-> [chain |-> d.recv.chain, n |-> n], stepNeeded |-> d.stepNeeded,
         skipped |-> list, skippedCount |-> d.skippedCount + (n - d.recv.n)]
  <2>1. SkippedTo(d, n) = [d EXCEPT !.skipped = list, !.skippedCount = d.skippedCount + (n - d.recv.n),
                                    !.recv.n = n]
    BY <1>4 DEF list
  <2>2. [d.recv EXCEPT !.n = n] = [chain |-> d.recv.chain, n |-> n]
    BY <1>1 DEF MessageKeys
  <2> QED
    BY <2>1, <2>2 DEF Ratchets
<1>8. SkippedTo(d, n) \in Ratchets
  BY <1>1, <1>6, <1>7 DEF Ratchets, MessageKeys
<1> QED
  BY <1>3, <1>7, <1>8 DEF list

\* The skip list is a list, and within its limit.
SkipInv == (\A p \in Peers : IsFiniteSet(dr[p].skipped)) /\ SkipListBounded

\* What every outcome of Decrypt has in common: nothing of the ratchet changes
\* after the header but the receiving chain's place and the skip list; only
\* keys that were passed over enter the list, and a message opens with a key
\* of the list, which leaves it, or with one that was passed.
Outcome(p, i, ok) ==
  LET m == sent[Other(p)][i]
      d == Turned(p, m)
      e == dr'[p]
      passed(key) == key.chain = d.recv.chain /\ d.recv.n <= key.n /\ key.n < e.recv.n
  IN /\ i \in 1..Len(sent[Other(p)])
     /\ e \in Ratchets
     /\ dr' = [dr EXCEPT ![p] = e]
     /\ got' = [got EXCEPT ![p] = Append(@, [i |-> i, ok |-> ok])]
     /\ sent' = sent
     /\ e.root = d.root /\ e.self = d.self /\ e.remote = d.remote /\ e.send = d.send
     /\ e.stepNeeded = d.stepNeeded /\ e.recv.chain = d.recv.chain /\ e.recv.n >= d.recv.n
     /\ \A key \in e.skipped : key \in d.skipped \/ passed(key)
     /\ ok => \/ m.key \in d.skipped /\ m.key \notin e.skipped
              \/ passed(m.key) /\ m.key \notin e.skipped \ d.skipped
     /\ IsFiniteSet(e.skipped) /\ Cardinality(e.skipped) <= e.skippedCount
     /\ e.skippedCount <= MaxSkip

\* Whatever way Decrypt goes, it has an outcome as described.
LEMMA DecryptOutcome ==
  ASSUME TypeOK, SkipInv, NEW p \in Peers, NEW i, Decrypt(p, i)
  PROVE  \E ok \in BOOLEAN : Outcome(p, i, ok)
<1> DEFINE m == sent[Other(p)][i]
           d == Turned(p, m)
<1>1. /\ i \in 1..Len(sent[Other(p)]) /\ m \in [dh : Pairs, n : Nat, key : MessageKeys]
      /\ m.n \in Nat /\ m.key \in MessageKeys
  <2>1. i \in DOMAIN sent[Other(p)]
    BY DEF Decrypt, DecryptTooFar, DecryptNext, DecryptSkipped, DecryptUnknown, Arrives
  <2>2. sent[Other(p)] \in Seq([dh : Pairs, n : Nat, key : MessageKeys])
    BY OtherPeer DEF TypeOK
  <2>3. i \in 1..Len(sent[Other(p)])
    BY <2>1, <2>2, LenProperties
  <2>4. sent[Other(p)][i] \in [dh : Pairs, n : Nat, key : MessageKeys]
    BY <2>2, <2>3, ElementOfSeq
  <2> QED
    BY <2>3, <2>4
<1>2. /\ d \in Ratchets
      /\ IsFiniteSet(d.skipped) /\ Cardinality(d.skipped) <= d.skippedCount /\ d.skippedCount <= MaxSkip
  BY <1>1, TurnedFields DEF SkipInv, SkipListBounded
<1>3. /\ d.recv \in MessageKeys /\ d.recv.n \in Nat /\ d.recv.chain \in RootKeys
      /\ d.skipped \subseteq MessageKeys /\ d.skippedCount \in Nat /\ MaxSkip \in Nat
      /\ Cardinality(d.skipped) \in Nat
  BY <1>2, FS_CardinalityType, RatchetAssumption DEF Ratchets, MessageKeys
<1> HIDE DEF m, d
<1>4. ASSUME NEW e \in Ratchets, NEW ok \in BOOLEAN, Opened(p, i, e, ok)
      PROVE  /\ dr'[p] = e /\ dr' = [dr EXCEPT ![p] = e] /\ sent' = sent
             /\ got' = [got EXCEPT ![p] = Append(@, [i |-> i, ok |-> ok])]
  BY <1>4 DEF Opened, TypeOK
<1>5. CASE \E ok \in BOOLEAN : ~ok /\ Opened(p, i, d, ok)
  <2>1. PICK ok \in BOOLEAN : ~ok /\ Opened(p, i, d, ok)
    BY <1>5
  <2>2. /\ dr'[p] = d /\ dr' = [dr EXCEPT ![p] = dr'[p]] /\ sent' = sent
        /\ got' = [got EXCEPT ![p] = Append(@, [i |-> i, ok |-> ok])]
    BY <1>2, <1>4, <2>1
  <2>3. d.recv.n >= d.recv.n
    BY <1>3
  <2>4. Outcome(p, i, ok)
    BY <1>1, <1>2, <2>1, <2>2, <2>3, Zenon DEF Outcome, m, d
  <2> QED
    BY <2>4
<1>6. CASE DecryptNext(p, i)
  <2> DEFINE s == SkippedTo(d, m.n)
             new == {[chain |-> d.recv.chain, n |-> k] : k \in d.recv.n..(m.n - 1)}
             old == {k \in d.skipped : k.n \notin d.recv.n..(m.n - 1)}
             e == [s EXCEPT !.recv.n = @ + 1]
  <2>1. /\ m.n >= d.recv.n /\ ~TooFar(d, m.n) /\ Opened(p, i, e, m.key = s.recv)
    BY <1>6 DEF DecryptNext, m, d
  <2>2. /\ s \in Ratchets
        /\ s.root = d.root /\ s.self = d.self /\ s.remote = d.remote /\ s.send = d.send
        /\ s.recv = [chain |-> d.recv.chain, n |-> m.n] /\ s.stepNeeded = d.stepNeeded
        /\ s.skipped = old \cup new
        /\ s.skippedCount = d.skippedCount + (m.n - d.recv.n)
        /\ IsFiniteSet(new) /\ Cardinality(new) <= m.n - d.recv.n
    BY <1>1, <1>2, <2>1, SkippedToFields
  <2> HIDE DEF s
  <2>3. /\ e \in Ratchets
        /\ e.root = d.root /\ e.self = d.self /\ e.remote = d.remote /\ e.send = d.send
        /\ e.recv = [chain |-> d.recv.chain, n |-> m.n + 1] /\ e.stepNeeded = d.stepNeeded
        /\ e.skipped = s.skipped /\ e.skippedCount = s.skippedCount
    <3>1. [s.recv EXCEPT !.n = @ + 1] = [chain |-> d.recv.chain, n |-> m.n + 1]
      BY <2>2
    <3>2. e = [s EXCEPT !.recv = [chain |-> d.recv.chain, n |-> m.n + 1]]
      BY <3>1
    <3>3. [chain |-> d.recv.chain, n |-> m.n + 1] \in MessageKeys
      BY <1>1, <1>3 DEF MessageKeys
    <3> HIDE DEF e
    <3> QED
      <4>1. e.recv = [chain |-> d.recv.chain, n |-> m.n + 1] /\ e.skipped = s.skipped
        BY <2>2, <3>2 DEF Ratchets
      <4>2. e.root = s.root /\ e.self = s.self /\ e.remote = s.remote /\ e.send = s.send
        BY <2>2, <3>2 DEF Ratchets
      <4>3. e.stepNeeded = s.stepNeeded /\ e.skippedCount = s.skippedCount
        BY <2>2, <3>2 DEF Ratchets
      <4>4. e \in Ratchets
        BY <2>2, <3>2, <3>3 DEF Ratchets
      <4> QED
        BY <2>2, <4>1, <4>2, <4>3, <4>4
  <2>4. /\ IsFiniteSet(s.skipped) /\ Cardinality(s.skipped) <= s.skippedCount
        /\ s.skippedCount <= MaxSkip
    <3>1. IsFiniteSet(old) /\ Cardinality(old) <= Cardinality(d.skipped)
      BY <1>2, FS_Subset
    <3>2. IsFiniteSet(old \cup new) /\ Cardinality(old \cup new) <= Cardinality(old) + Cardinality(new)
      <4>1. /\ IsFiniteSet(old \cup new)
            /\ Cardinality(old \cup new) = Cardinality(old) + Cardinality(new) - Cardinality(old \cap new)
        BY <2>2, <3>1, FS_Union
      <4>2. Cardinality(old \cap new) \in Nat /\ Cardinality(old) \in Nat /\ Cardinality(new) \in Nat
        BY <2>2, <3>1, FS_Intersection, FS_CardinalityType
      <4> QED
        BY <4>1, <4>2
    <3>3. /\ Cardinality(old) \in Nat /\ Cardinality(new) \in Nat
          /\ Cardinality(old \cup new) \in Nat
      BY <2>2, <3>1, <3>2, FS_CardinalityType
    <3>4. d.skippedCount + (m.n - d.recv.n) <= MaxSkip
      BY <1>1, <1>2, <1>3, <2>1 DEF TooFar
    <3>5. m.n - d.recv.n \in Nat /\ Cardinality(new) <= m.n - d.recv.n
      BY <1>1, <1>3, <2>1, <2>2
    <3>6. Cardinality(old) <= d.skippedCount
      BY <1>2, <1>3, <3>1, <3>3
    <3> HIDE DEF old, new
    <3>7. Cardinality(old \cup new) <= d.skippedCount + (m.n - d.recv.n)
      BY <1>3, <3>2, <3>3, <3>5, <3>6
    <3> QED
      BY <2>2, <3>2, <3>4, <3>7
  <2>5. \A key \in s.skipped : key \in d.skipped \/
          (key.chain = d.recv.chain /\ d.recv.n <= key.n /\ key.n < m.n + 1 /\ key.n # m.n)
    BY <1>1, <1>3, <2>2
  <2>6. (m.key = s.recv) => /\ m.key.chain = d.recv.chain /\ d.recv.n <= m.key.n /\ m.key.n < m.n + 1
                            /\ m.key.n = m.n
    BY <1>1, <1>3, <2>1, <2>2
  <2> DEFINE ok == m.key = s.recv
  <2>7. /\ dr'[p] = e /\ dr' = [dr EXCEPT ![p] = e] /\ sent' = sent
        /\ got' = [got EXCEPT ![p] = Append(@, [i |-> i, ok |-> ok])]
    BY <1>4, <2>1, <2>3
  <2> HIDE DEF e, old, new, ok
  <2>8. ok => /\ m.key.chain = d.recv.chain /\ d.recv.n <= m.key.n /\ m.key.n < m.n + 1
              /\ m.key \notin s.skipped \ d.skipped
    BY <2>5, <2>6 DEF ok
  <2>9. e.recv.n = m.n + 1 /\ e.recv.chain = d.recv.chain /\ e.recv.n >= d.recv.n
    BY <1>1, <1>3, <2>1, <2>3
  <2>10. ok \in BOOLEAN
    BY DEF ok
  <2>11. Outcome(p, i, ok)
    BY <1>1, <2>3, <2>4, <2>5, <2>7, <2>8, <2>9 DEF Outcome, m, d
  <2> QED
    BY <2>10, <2>11
<1>7. CASE DecryptSkipped(p, i)
  <2>1. PICK key \in d.skipped :
          /\ Skipped(d, m, key)
          /\ Opened(p, i, [d EXCEPT !.skipped = @ \ {key}, !.skippedCount = @ - 1], m.key = key)
    BY <1>7 DEF DecryptSkipped, m, d
  <2> DEFINE e == [d EXCEPT !.skipped = @ \ {key}, !.skippedCount = @ - 1]
             ok == m.key = key
  <2>2. /\ IsFiniteSet(d.skipped \ {key})
        /\ Cardinality(d.skipped \ {key}) = Cardinality(d.skipped) - 1
        /\ Cardinality(d.skipped \ {key}) \in Nat
    BY <1>2, FS_RemoveElement, FS_CardinalityType
  <2>3. d.skippedCount - 1 \in Nat /\ d.skippedCount - 1 <= MaxSkip
        /\ Cardinality(d.skipped \ {key}) <= d.skippedCount - 1
    BY <1>2, <1>3, <2>2
  <2>4. /\ e \in Ratchets /\ e.skipped = d.skipped \ {key} /\ e.skippedCount = d.skippedCount - 1
        /\ e.root = d.root /\ e.self = d.self /\ e.remote = d.remote /\ e.send = d.send
        /\ e.recv = d.recv /\ e.stepNeeded = d.stepNeeded
    BY <1>2, <1>3, <2>3 DEF Ratchets
  <2>5. /\ dr'[p] = e /\ dr' = [dr EXCEPT ![p] = e] /\ sent' = sent
        /\ got' = [got EXCEPT ![p] = Append(@, [i |-> i, ok |-> ok])]
    BY <1>4, <2>1, <2>4
  <2>6. ok => m.key \in d.skipped /\ m.key \notin d.skipped \ {key}
    OBVIOUS
  <2>7. ok \in BOOLEAN
    OBVIOUS
  <2> HIDE DEF e, ok
  <2>8. /\ \A k \in e.skipped : k \in d.skipped
        /\ ok => m.key \in d.skipped /\ m.key \notin e.skipped
        /\ IsFiniteSet(e.skipped) /\ Cardinality(e.skipped) <= e.skippedCount /\ e.skippedCount <= MaxSkip
        /\ e.recv.chain = d.recv.chain /\ e.recv.n >= d.recv.n
    BY <1>3, <2>2, <2>3, <2>4, <2>6
  <2>9. Outcome(p, i, ok)
    BY <1>1, <2>4, <2>5, <2>8 DEF Outcome, m, d
  <2> QED
    BY <2>7, <2>9
<1>8. DecryptTooFar(p, i) \/ DecryptUnknown(p, i) => \E ok \in BOOLEAN : ~ok /\ Opened(p, i, d, ok)
  BY DEF DecryptTooFar, DecryptUnknown, m, d
<1> QED
  BY <1>5, <1>6, <1>7, <1>8 DEF Decrypt

\* InitAlice and InitBob begin in the invariant.
LEMMA InitInv == Init => IInv
<1> SUFFICES ASSUME Init PROVE IInv
  OBVIOUS
<1> DEFINE root == <<Secret(Pair("alice", 0), Pair("bob", 0))>>
<1>1. /\ dr["alice"] = InitAlice /\ dr["bob"] = InitBob /\ dr = [p \in Peers |-> dr[p]]
      /\ sent = [p \in Peers |-> <<>>] /\ got = [p \in Peers |-> <<>>]
  BY DEF Init, Peers
<1>2. /\ Pair("alice", 0) \in Pairs /\ Pair("bob", 0) \in Pairs /\ NoPair \in Pairs
      /\ root \in RootKeys /\ ZeroChain \in RootKeys /\ <<>> \in RootKeys
  BY DEF Pair, Pairs, Peers, NoPair, Secret, RootKeys, ZeroChain
<1>3. TypeOK
  <2>1. InitAlice \in Ratchets /\ InitBob \in Ratchets
    BY <1>2 DEF InitAlice, InitBob, Ratchets, MessageKeys
  <2> QED
    BY <1>1, <2>1 DEF TypeOK, Peers
<1>4. ASSUME NEW p \in Peers
      PROVE  /\ dr[p].skipped = {} /\ dr[p].skippedCount = 0
             /\ dr[p].self.owner = p /\ dr[p].self.i = 0
             /\ Len(sent[p]) = 0 /\ Len(got[p]) = 0
  <2>1. sent[p] = <<>> /\ got[p] = <<>> /\ (p = "alice" \/ p = "bob")
    BY <1>1 DEF Peers
  <2> QED
    BY <1>1, <2>1 DEF InitAlice, InitBob, Pair
<1>a. \A p \in Peers : ~Receiving(p)
  BY <1>1 DEF InitAlice, InitBob, Receiving, Peers
<1>5. (\A p \in Peers : IsFiniteSet(dr[p].skipped)) /\ SkipListBounded
  <2>1. ASSUME NEW p \in Peers
        PROVE  /\ IsFiniteSet(dr[p].skipped)
               /\ Cardinality(dr[p].skipped) <= dr[p].skippedCount /\ dr[p].skippedCount <= MaxSkip
    <3>1. dr[p].skipped = {} /\ dr[p].skippedCount = 0 /\ 0 <= MaxSkip
      BY <1>4, RatchetAssumption
    <3>2. IsFiniteSet({}) /\ Cardinality({}) = 0
      BY FS_EmptySet
    <3> QED
      BY <3>1, <3>2
  <2> QED
    BY <2>1 DEF SkipListBounded
<1>6. SentInv
  <2>1. ASSUME NEW p \in Peers PROVE dr[p].self.owner = p /\ Len(sent[p]) = 0
    BY <1>4
  <2> QED
    BY <2>1 DEF SentInv
<1>7. dr["alice"].send.chain = root /\ dr["bob"].send.chain = ZeroChain
  BY <1>1 DEF InitAlice, InitBob
<1>8. ChainsInv
  <2>1. MadeWith(root, "alice", Pair("alice", 0))
    BY DEF MadeWith, Last, Secret, Pair
  <2>2. MadeWith(ZeroChain, "bob", Pair("bob", 0))
    BY DEF MadeWith, ZeroChain
  <2> QED
    <3>1. /\ dr["alice"].self = Pair("alice", 0) /\ dr["bob"].self = Pair("bob", 0)
          /\ "alice" \in Peers /\ "bob" \in Peers
          /\ \A p \in Peers : p = "alice" \/ p = "bob"
      BY <1>1 DEF InitAlice, InitBob, Peers
    <3>2. \A p \in Peers : MadeWith(dr[p].send.chain, p, dr[p].self)
      BY <1>7, <2>1, <2>2, <3>1
    <3> QED
      BY <1>4, <3>2 DEF ChainsInv
<1>9. ApartInv
  <2>1. /\ SendingChains("alice") = {root} /\ SendingChains("bob") = {ZeroChain}
    BY <1>4, <1>7 DEF SendingChains, Peers
  <2>2. Last(root) = Secret(Pair("alice", 0), Pair("bob", 0)) /\ Last(ZeroChain) = {}
    BY DEF Last, ZeroChain
  <2>3. root # ZeroChain
    BY <2>2 DEF Secret
  <2>4. \A l \in Last(root) : l.owner \in Peers /\ l.i \in 0..dr[l.owner].self.i
    BY <1>4, <2>2 DEF Secret, Pair, Peers
  <2> QED
    BY <2>1, <2>2, <2>3, <2>4 DEF ApartInv, Peers, Other
<1>10. SpentInv /\ OpensOnce
  <2>1. ASSUME NEW p \in Peers PROVE Used(p) = {}
    <3>1. 1..Len(got[p]) = {}
      BY <1>4
    <3> QED
      BY <3>1 DEF Used
  <2>2. \A p \in Peers : dr[p].skipped = {} /\ Len(got[p]) = 0 /\ DOMAIN got[p] = {}
    <3>1. \A p \in Peers : got[p] = <<>>
      BY <1>1
    <3>2. DOMAIN <<>> = {}
      OBVIOUS
    <3> QED
      BY <1>4, <3>1, <3>2
  <2> QED
    BY <1>a, <2>1, <2>2 DEF SpentInv, OpensOnce
<1>11. StreamInv
  <2> SUFFICES ASSUME NEW p \in Peers PROVE InOrder(Stream(p))
    BY DEF StreamInv
  <2>1. sent[p] = <<>> /\ dr[p].send.n = 0
    BY <1>1 DEF InitAlice, InitBob, Peers
  <2> DEFINE first == [dh |-> dr[p].self, n |-> dr[p].send.n, key |-> dr[p].send]
  <2>2. Stream(p) = <<first>>
    BY <2>1 DEF Stream
  <2>3. first.n = 0 /\ first.key.n = 0 /\ dr[p].self.i \in Nat /\ first.dh.i \in Nat
    BY <1>4, <2>1
  <2> HIDE DEF first
  <2>4. Len(Stream(p)) = 1 /\ Stream(p)[1] = first
    BY <2>2
  <2>5. \A i \in 1..1 : i = 1
    OBVIOUS
  <2> QED
    BY <2>3, <2>4, <2>5 DEF InOrder
<1>12. HeadersInv
  <2>1. ASSUME NEW p \in Peers
        PROVE  /\ dr[p].remote # NoPair => dr[p].remote.owner = Other(p)
               /\ dr[p].stepNeeded => dr[p].remote.i = 0
               /\ ~Receiving(p) => got[p] = <<>> /\ dr[p].skippedCount = 0
               /\ \A k, l \in dr[p].skipped : k.n = l.n => k = l
               /\ dr[p].send.chain = IF p = "bob" /\ dr[p].self.i = 0 THEN ZeroChain ELSE dr[p].root
    BY <1>1, <1>4 DEF InitAlice, InitBob, Pair, Peers, Other
  <2>2. Len(sent["bob"]) = 0
    BY <1>4 DEF Peers
  <2>3. dr["alice"].remote # NoPair /\ ~dr["bob"].stepNeeded
    BY <1>1 DEF InitAlice, InitBob, NoPair, Pair
  <2> QED
    BY <2>1, <2>2, <2>3 DEF HeadersInv
<1>13. TurnsInv
  <2>1. dr["alice"].remote = dr["bob"].self /\ dr["alice"].self.i = 0 /\ dr["bob"].remote = NoPair
    BY <1>1 DEF InitAlice, InitBob, Pair
  <2>2. dr["alice"].root = Append(dr["bob"].root, Secret(dr["bob"].self, dr["alice"].self))
    <3>1. /\ dr["alice"].root = root /\ dr["bob"].root = <<>>
          /\ dr["bob"].self = Pair("bob", 0) /\ dr["alice"].self = Pair("alice", 0)
      BY <1>1 DEF InitAlice, InitBob
    <3>2. Secret(Pair("alice", 0), Pair("bob", 0)) = Secret(Pair("bob", 0), Pair("alice", 0))
      BY DEF Secret
    <3>3. \A x : Append(<<>>, x) = <<x>>
      OBVIOUS
    <3> QED
      BY <3>1, <3>2, <3>3
  <2>3. Ahead("alice", "bob")
    BY <2>1, <2>2 DEF Ahead, Expected
  <2> QED
    BY <2>3 DEF TurnsInv, Peers, Other
<1>14. DeliveryInv
  <2>1. \A p \in Peers : DOMAIN got[p] = {}
    <3>1. \A p \in Peers : got[p] = <<>>
      BY <1>1
    <3>2. DOMAIN <<>> = {}
      OBVIOUS
    <3> QED
      BY <3>1, <3>2
  <2>2. Opens
    BY <2>1 DEF Opens
  <2> QED
    BY <1>a, <2>2 DEF DeliveryInv
<1> QED
  BY <1>3, <1>5, <1>6, <1>8, <1>9, <1>10, <1>11, <1>12, <1>13, <1>14 DEF IInv

\* What Encrypt appends to what p has sent.
Sealed(p) == [dh |-> dr[p].self, n |-> dr[p].send.n, key |-> dr[p].send]

\* Encrypt, field by field.
LEMMA EncryptFields ==
  ASSUME TypeOK, NEW p \in Peers, Encrypt(p)
  PROVE  /\ Sealed(p) \in [dh : Pairs, n : Nat, key : MessageKeys]
         /\ sent' = [sent EXCEPT ![p] = Append(@, Sealed(p))]
         /\ dr'[p] \in Ratchets /\ dr' = [dr EXCEPT ![p] = dr'[p]]
         /\ dr'[p] = [dr[p] EXCEPT !.send = [chain |-> dr[p].send.chain, n |-> dr[p].send.n + 1]]
         /\ got' = got
<1>1. dr[p] \in Ratchets /\ dr[p].self \in Pairs /\ dr[p].send \in MessageKeys /\ dr[p].send.n \in Nat
      /\ dr[p].send.chain \in RootKeys
  BY DEF TypeOK, Ratchets, MessageKeys
<1>2. [dr[p].send EXCEPT !.n = dr[p].send.n + 1] = [chain |-> dr[p].send.chain, n |-> dr[p].send.n + 1]
  BY <1>1 DEF MessageKeys
<1> DEFINE next == [chain |-> dr[p].send.chain, n |-> dr[p].send.n + 1]
<1>3. next \in MessageKeys
  BY <1>1 DEF MessageKeys
<1>4. dr' = [dr EXCEPT ![p] = [dr[p] EXCEPT !.send = next]]
  BY <1>2 DEF Encrypt
<1> HIDE DEF next
<1>5. dr'[p] = [dr[p] EXCEPT !.send = next] /\ dr'[p] \in Ratchets
  BY <1>1, <1>3, <1>4 DEF Ratchets, TypeOK
<1> QED
  BY <1>1, <1>4, <1>5 DEF Encrypt, Sealed, next

\* Encrypt adds one message to what p has sent.
LEMMA SentByEncrypt ==
  ASSUME TypeOK, NEW p \in Peers, Encrypt(p)
  PROVE  /\ Len(sent'[p]) = Len(sent[p]) + 1 /\ Len(sent[p]) \in Nat
         /\ \A i \in 1..Len(sent[p]) : sent'[p][i] = sent[p][i]
         /\ sent'[p][Len(sent[p]) + 1] = Sealed(p)
         /\ \A q \in Peers : q # p => sent'[q] = sent[q] /\ dr'[q] = dr[q]
<1>1. /\ sent \in [Peers -> Seq([dh : Pairs, n : Nat, key : MessageKeys])]
      /\ sent' = [sent EXCEPT ![p] = Append(@, Sealed(p))] /\ dr' = [dr EXCEPT ![p] = dr'[p]]
      /\ Sealed(p) \in [dh : Pairs, n : Nat, key : MessageKeys]
  BY EncryptFields DEF TypeOK
<1>2. sent'[p] = Append(sent[p], Sealed(p)) /\ \A q \in Peers : q # p => sent'[q] = sent[q]
  BY <1>1
<1>3. \A q \in Peers : q # p => dr'[q] = dr[q]
  BY <1>1 DEF TypeOK
<1> QED
  BY <1>1, <1>2, <1>3, AppendProperties

\* Encrypt keeps the pair and the chain, and moves on in the chain.
LEMMA EncryptKeeps ==
  ASSUME TypeOK, NEW p \in Peers, Encrypt(p)
  PROVE  /\ dr[p].send.n \in Nat /\ dr'[p].send.n = dr[p].send.n + 1
         /\ dr'[p].send.chain = dr[p].send.chain /\ dr'[p].self = dr[p].self
         /\ dr'[p].root = dr[p].root /\ dr'[p].recv = dr[p].recv
         /\ dr'[p].stepNeeded = dr[p].stepNeeded /\ dr'[p].remote = dr[p].remote
         /\ dr'[p].skipped = dr[p].skipped
<1>1. dr[p] \in Ratchets /\ dr[p].send \in MessageKeys
  BY DEF TypeOK, Ratchets
<1>2. dr'[p] = [dr[p] EXCEPT !.send = [chain |-> dr[p].send.chain, n |-> dr[p].send.n + 1]]
  BY EncryptFields
<1> QED
  BY <1>1, <1>2 DEF Ratchets, MessageKeys

\* A step keeps the types, and the skip list within its counter.
LEMMA TypeStep == IInv /\ [Next]_vars => TypeOK' /\ SkipInv'
<1> SUFFICES ASSUME IInv, [Next]_vars PROVE TypeOK' /\ SkipInv'
  OBVIOUS
<1> USE DEF IInv
<1>1. ASSUME NEW p \in Peers, Encrypt(p) PROVE TypeOK' /\ SkipInv'
  <2>1. /\ dr'[p].skipped = dr[p].skipped /\ dr'[p].skippedCount = dr[p].skippedCount
        /\ \A q \in Peers : q # p => dr'[q] = dr[q]
    <3>1. dr'[p].skipped = dr[p].skipped /\ \A q \in Peers : q # p => dr'[q] = dr[q]
      BY <1>1, EncryptKeeps, SentByEncrypt
    <3>2. dr'[p].skippedCount = dr[p].skippedCount
      BY <1>1, EncryptFields DEF TypeOK, Ratchets
    <3> QED
      BY <3>1, <3>2
  <2>2. TypeOK'
    <3>1. /\ sent \in [Peers -> Seq([dh : Pairs, n : Nat, key : MessageKeys])]
          /\ Sealed(p) \in [dh : Pairs, n : Nat, key : MessageKeys]
          /\ sent' = [sent EXCEPT ![p] = Append(@, Sealed(p))]
      BY <1>1, EncryptFields DEF TypeOK
    <3>2. sent' \in [Peers -> Seq([dh : Pairs, n : Nat, key : MessageKeys])]
      <4>1. Append(sent[p], Sealed(p)) \in Seq([dh : Pairs, n : Nat, key : MessageKeys])
        BY <3>1, AppendProperties
      <4> QED
        BY <3>1, <4>1
    <3>3. dr' \in [Peers -> Ratchets] /\ got' = got
      BY <1>1, EncryptFields DEF TypeOK
    <3> QED
      BY <3>2, <3>3 DEF TypeOK
  <2> QED
    BY <2>1, <2>2 DEF SkipInv, SkipListBounded
<1>2. ASSUME NEW p \in Peers, NEW i \in 1..MaxSent, Decrypt(p, i) PROVE TypeOK' /\ SkipInv'
  <2>1. PICK ok \in BOOLEAN : Outcome(p, i, ok)
    BY <1>2, DecryptOutcome DEF SkipInv
  <2>2. /\ dr'[p] \in Ratchets /\ dr' = [dr EXCEPT ![p] = dr'[p]] /\ sent' = sent
        /\ got' = [got EXCEPT ![p] = Append(@, [i |-> i, ok |-> ok])]
        /\ IsFiniteSet(dr'[p].skipped) /\ Cardinality(dr'[p].skipped) <= dr'[p].skippedCount
        /\ dr'[p].skippedCount <= MaxSkip /\ i \in Nat
    BY <2>1 DEF Outcome
  <2>3. TypeOK'
    <3>1. got[p] \in Seq([i : Nat, ok : BOOLEAN]) /\ [i |-> i, ok |-> ok] \in [i : Nat, ok : BOOLEAN]
      BY <2>2 DEF TypeOK
    <3>2. Append(got[p], [i |-> i, ok |-> ok]) \in Seq([i : Nat, ok : BOOLEAN])
      BY <3>1, AppendProperties
    <3> QED
      BY <2>2, <3>2 DEF TypeOK
  <2>4. \A q \in Peers : q # p => dr'[q] = dr[q]
    BY <2>2 DEF TypeOK
  <2> QED
    BY <2>2, <2>3, <2>4 DEF SkipInv, SkipListBounded
<1>3. CASE UNCHANGED vars
  BY <1>3 DEF vars, TypeOK, SkipInv, SkipListBounded
<1> QED
  BY <1>1, <1>2, <1>3 DEF Next

-----------------------------------------------------------------------------
(* The sending side *)

\* A chain of p tells the pair it was made with.
LEMMA MadeWithOne ==
  ASSUME NEW c, NEW p, NEW k, NEW l, MadeWith(c, p, k), MadeWith(c, p, l),
         k.owner = p, l.owner = p
  PROVE  k = l
<1>1. CASE c = ZeroChain
  <2>1. Last(c) = {}
    BY <1>1 DEF ZeroChain, Last
  <2> QED
    BY <2>1 DEF MadeWith
<1>2. CASE c # ZeroChain
  BY <1>2 DEF MadeWith
<1> QED
  BY <1>1, <1>2

\* Encrypt keeps what the sending side promises: the key is a new one.
LEMMA EncryptSends ==
  ASSUME IInv, NEW p \in Peers, Encrypt(p)
  PROVE  SentInv' /\ ChainsInv' /\ ApartInv'
<1> DEFINE last == Len(sent[p]) + 1
<1>1. TypeOK /\ SentInv /\ ChainsInv /\ ApartInv
  BY DEF IInv
<1>2. /\ Len(sent'[p]) = last /\ last \in 1..last /\ last \notin 1..Len(sent[p])
      /\ \A i \in 1..last : i \in 1..Len(sent[p]) \/ i = last
      /\ \A i \in 1..Len(sent[p]) : sent'[p][i] = sent[p][i]
      /\ sent'[p][last].dh = dr[p].self /\ sent'[p][last].key = dr[p].send
      /\ \A q \in Peers : q # p => sent'[q] = sent[q] /\ dr'[q] = dr[q]
  <2>1. /\ Len(sent'[p]) = Len(sent[p]) + 1 /\ Len(sent[p]) \in Nat
        /\ \A i \in 1..Len(sent[p]) : sent'[p][i] = sent[p][i]
        /\ sent'[p][Len(sent[p]) + 1] = Sealed(p)
        /\ \A q \in Peers : q # p => sent'[q] = sent[q] /\ dr'[q] = dr[q]
    BY <1>1, SentByEncrypt
  <2>2. Sealed(p).dh = dr[p].self /\ Sealed(p).key = dr[p].send
    BY DEF Sealed
  <2>3. /\ last \in 1..last /\ last \notin 1..Len(sent[p])
        /\ \A i \in 1..last : i \in 1..Len(sent[p]) \/ i = last
    BY <2>1
  <2> QED
    BY <2>1, <2>2, <2>3
<1>3. /\ dr[p].send.n \in Nat /\ dr'[p].send.n = dr[p].send.n + 1
      /\ dr'[p].send.chain = dr[p].send.chain /\ dr'[p].self = dr[p].self
  BY <1>1, EncryptKeeps
<1> HIDE DEF last
<1>4. ASSUME NEW i \in 1..Len(sent[p])
      PROVE  /\ sent[p][i].key # dr[p].send
             /\ sent[p][i].key.n \in Nat
             /\ sent[p][i].dh.owner = p /\ sent[p][i].dh.i <= dr[p].self.i
             /\ sent[p][i].dh = dr[p].self => sent[p][i].key.n < dr[p].send.n
  <2>1. /\ sent[p][i].dh.owner = p /\ dr[p].self.owner = p /\ sent[p][i].dh.i <= dr[p].self.i
        /\ sent[p][i].dh = dr[p].self => sent[p][i].key.n < dr[p].send.n
    BY <1>1 DEF SentInv
  <2>2. MadeWith(sent[p][i].key.chain, p, sent[p][i].dh) /\ MadeWith(dr[p].send.chain, p, dr[p].self)
    BY <1>1 DEF ChainsInv
  <2>3. sent[p][i].key.n \in Nat
    <3>1. sent[p] \in Seq([dh : Pairs, n : Nat, key : MessageKeys])
      BY <1>1 DEF TypeOK
    <3>2. sent[p][i] \in [dh : Pairs, n : Nat, key : MessageKeys]
      BY <3>1, ElementOfSeq
    <3> QED
      BY <3>2 DEF MessageKeys
  <2>4. ASSUME sent[p][i].key = dr[p].send PROVE FALSE
    <3>1. sent[p][i].dh = dr[p].self
      BY <2>1, <2>2, <2>4, MadeWithOne
    <3> QED
      BY <1>3, <2>1, <2>4, <3>1
  <2> QED
    BY <2>1, <2>3, <2>4
<1>5. SentInv'
  <2>1. ASSUME NEW i \in 1..last
        PROVE  /\ sent'[p][i].dh.owner = p /\ sent'[p][i].dh.i <= dr'[p].self.i
               /\ sent'[p][i].dh = dr'[p].self => sent'[p][i].key.n < dr'[p].send.n
    <3>1. CASE i \in 1..Len(sent[p])
      <4>1. sent'[p][i] = sent[p][i]
        BY <1>2, <3>1
      <4>2. /\ sent[p][i].key.n \in Nat
            /\ sent[p][i].dh.owner = p /\ sent[p][i].dh.i <= dr[p].self.i
            /\ sent[p][i].dh = dr[p].self => sent[p][i].key.n < dr[p].send.n
        BY <1>4, <3>1
      <4> QED
        BY <1>3, <4>1, <4>2
    <3>2. CASE i = last
      <4>1. dr[p].self.owner = p /\ dr[p].self.i \in Nat
        BY <1>1 DEF SentInv, TypeOK, Ratchets, Pairs
      <4> QED
        BY <1>2, <1>3, <3>2, <4>1
    <3> QED
      BY <1>2, <3>1, <3>2
  <2>2. ASSUME NEW i \in 1..last, NEW j \in 1..last, sent'[p][i].key = sent'[p][j].key
        PROVE  i = j
    <3>1. CASE i = last /\ j = last
      BY <3>1
    <3>2. CASE i = last /\ j \in 1..Len(sent[p])
      BY <1>2, <1>4, <2>2, <3>2
    <3>3. CASE i \in 1..Len(sent[p]) /\ j = last
      BY <1>2, <1>4, <2>2, <3>3
    <3>4. CASE i \in 1..Len(sent[p]) /\ j \in 1..Len(sent[p])
      BY <1>1, <1>2, <2>2, <3>4 DEF SentInv
    <3> QED
      BY <1>2, <3>1, <3>2, <3>3, <3>4
  <2>3. dr'[p].self.owner = p
    BY <1>1, <1>3 DEF SentInv
  <2>4. ASSUME NEW q \in Peers, q # p
        PROVE  /\ dr'[q].self.owner = q
               /\ \A i \in 1..Len(sent'[q]) :
                    /\ sent'[q][i].dh.owner = q /\ sent'[q][i].dh.i <= dr'[q].self.i
                    /\ sent'[q][i].dh = dr'[q].self => sent'[q][i].key.n < dr'[q].send.n
                    /\ \A j \in 1..Len(sent'[q]) : sent'[q][i].key = sent'[q][j].key => i = j
    BY <1>1, <1>2, <2>4 DEF SentInv
  <2> QED
    BY SMTT(40), <1>2, <2>1, <2>2, <2>3, <2>4 DEF SentInv
<1>6. ChainsInv'
  <2>1. MadeWith(dr'[p].send.chain, p, dr'[p].self)
    BY <1>1, <1>3 DEF ChainsInv
  <2>2. ASSUME NEW i \in 1..last PROVE MadeWith(sent'[p][i].key.chain, p, sent'[p][i].dh)
    <3>1. CASE i \in 1..Len(sent[p])
      BY <1>1, <1>2, <3>1 DEF ChainsInv
    <3>2. CASE i = last
      BY <1>1, <1>2, <3>2 DEF ChainsInv
    <3> QED
      BY <1>2, <3>1, <3>2
  <2>3. ASSUME NEW q \in Peers, q # p
        PROVE  /\ MadeWith(dr'[q].send.chain, q, dr'[q].self)
               /\ \A i \in 1..Len(sent'[q]) : MadeWith(sent'[q][i].key.chain, q, sent'[q][i].dh)
    BY <1>1, <1>2, <2>3 DEF ChainsInv
  <2> QED
    BY <1>2, <2>1, <2>2, <2>3 DEF ChainsInv, MadeWith
<1>7. ApartInv'
  <2>1. \A q \in Peers : SendingChains(q)' \subseteq SendingChains(q) /\ dr'[q].self = dr[q].self
    <3>1. SendingChains(p)' \subseteq SendingChains(p)
      <4>1. ASSUME NEW i \in 1..last PROVE sent'[p][i].key.chain \in SendingChains(p)
        <5>1. CASE i \in 1..Len(sent[p])
          BY <1>2, <5>1 DEF SendingChains
        <5>2. CASE i = last
          BY <1>2, <5>2 DEF SendingChains
        <5> QED
          BY <1>2, <5>1, <5>2
      <4> QED
        BY <1>2, <1>3, <4>1 DEF SendingChains
    <3>2. ASSUME NEW q \in Peers, q # p PROVE SendingChains(q)' = SendingChains(q)
      BY <1>2, <3>2 DEF SendingChains
    <3> QED
      BY <1>2, <1>3, <3>1, <3>2
  <2> QED
    BY <1>1, <2>1, OtherPeer DEF ApartInv
<1> QED
  BY <1>5, <1>6, <1>7

\* Decrypt leaves the pair and the sending chain alone, or makes a new pair of
\* p and a chain whose last secret is of that pair and one of the other peer.
LEMMA DecryptPair ==
  ASSUME IInv, NEW p \in Peers, NEW i, NEW ok, Outcome(p, i, ok)
  PROVE  \/ dr'[p].self = dr[p].self /\ dr'[p].send = dr[p].send
         \/ \E r \in Pairs :
              /\ r.owner = Other(p) /\ r.i <= dr[Other(p)].self.i
              /\ dr'[p].self.owner = p /\ dr'[p].self.i = dr[p].self.i + 1
              /\ dr'[p].send.chain # <<>> /\ Last(dr'[p].send.chain) = {dr'[p].self, r}
              /\ dr'[p].send.n = 0
<1> DEFINE m == sent[Other(p)][i]
           d == Turned(p, m)
<1>1. TypeOK /\ SentInv /\ Other(p) \in Peers /\ dr[p] \in Ratchets
  BY OtherPeer DEF IInv, TypeOK
<1>2. i \in 1..Len(sent[Other(p)]) /\ dr'[p].self = d.self /\ dr'[p].send = d.send
  BY DEF Outcome
<1>3. m \in [dh : Pairs, n : Nat, key : MessageKeys] /\ m.dh \in Pairs
  <2>1. sent[Other(p)] \in Seq([dh : Pairs, n : Nat, key : MessageKeys])
    BY <1>1 DEF TypeOK
  <2>2. m \in [dh : Pairs, n : Nat, key : MessageKeys]
    BY <1>2, <2>1, ElementOfSeq
  <2> QED
    BY <2>2
<1>4. m.dh.owner = Other(p) /\ m.dh.i <= dr[Other(p)].self.i /\ dr[p].self.owner = p
  BY <1>1, <1>2 DEF SentInv
<1> HIDE DEF m
<1>5. d = dr[p] \/ d = Ratcheted(dr[p], m.dh)
  BY <1>1, <1>3, TurnedFields
<1>6. CASE d = dr[p]
  BY <1>2, <1>6
<1> HIDE DEF d
<1>7. CASE d = Ratcheted(dr[p], m.dh)
  <2>a. dr[p] \in Ratchets /\ m.dh \in Pairs
    BY <1>1, <1>3
  <2>b. LET e == Ratcheted(dr[p], m.dh)
        IN /\ NextPair(dr[p].self).owner = dr[p].self.owner /\ NextPair(dr[p].self).i = dr[p].self.i + 1
           /\ e \in Ratchets /\ e.self = NextPair(dr[p].self)
           /\ e.root = Append(Append(dr[p].root, Secret(dr[p].self, m.dh)), Secret(NextPair(dr[p].self), m.dh))
           /\ e.send.chain = e.root /\ e.send.n = 0
    BY <2>a, RatchetedFields
  <2> DEFINE root1 == Append(dr[p].root, Secret(dr[p].self, m.dh))
             self2 == NextPair(dr[p].self)
             root2 == Append(root1, Secret(self2, m.dh))
  <2>1. /\ self2.owner = dr[p].self.owner /\ self2.i = dr[p].self.i + 1 /\ self2 = d.self
        /\ d \in Ratchets /\ d.root = root2 /\ d.send.chain = d.root /\ d.send.n = 0
    BY <1>7, <2>b
  <2>2. root1 \in RootKeys /\ Secret(self2, m.dh) \in SUBSET Pairs
    BY <1>1, <1>3, <2>1 DEF Ratchets, RootKeys, Pairs, Secret
  <2>3. root2 # <<>> /\ Last(root2) = {self2, m.dh}
    <3>1. /\ Len(root2) = Len(root1) + 1 /\ root2[Len(root1) + 1] = Secret(self2, m.dh)
          /\ Len(root1) \in Nat
      BY <2>2, AppendProperties DEF RootKeys
    <3>2. root2 # <<>>
      <4>1. Len(<<>>) = 0
        OBVIOUS
      <4> HIDE DEF root2
      <4> QED
        BY <3>1, <4>1
    <3> QED
      BY <3>1, <3>2 DEF Last, Secret
  <2> HIDE DEF root2, self2
  <2> QED
    BY <1>2, <1>3, <1>4, <2>1, <2>3
<1> QED
  BY <1>5, <1>6, <1>7

\* Decrypt keeps what the sending side promises: a chain it makes is a new one.
LEMMA DecryptSends ==
  ASSUME IInv, NEW p \in Peers, NEW i, NEW ok, Outcome(p, i, ok)
  PROVE  SentInv' /\ ChainsInv' /\ ApartInv'
<1>1. SentInv /\ ChainsInv /\ ApartInv /\ TypeOK
  BY DEF IInv
<1>2. /\ sent' = sent /\ \A q \in Peers : q # p => dr'[q] = dr[q]
  BY <1>1 DEF Outcome, TypeOK
<1>3. CASE dr'[p].self = dr[p].self /\ dr'[p].send = dr[p].send
  <2>1. \A q \in Peers : dr'[q].self = dr[q].self /\ dr'[q].send = dr[q].send
    BY <1>2, <1>3
  <2>2. \A q \in Peers : SendingChains(q)' = SendingChains(q)
    BY <1>2, <2>1 DEF SendingChains
  <2>3. SentInv'
    BY <1>1, <1>2, <2>1 DEF SentInv
  <2>4. ChainsInv'
    BY <1>1, <1>2, <2>1 DEF ChainsInv, MadeWith
  <2>5. ApartInv'
    BY <1>1, <2>1, <2>2, OtherPeer DEF ApartInv
  <2> QED
    BY <2>3, <2>4, <2>5
<1>4. ASSUME NEW r \in Pairs,
             r.owner = Other(p), r.i <= dr[Other(p)].self.i,
             dr'[p].self.owner = p, dr'[p].self.i = dr[p].self.i + 1,
             dr'[p].send.chain # <<>>, Last(dr'[p].send.chain) = {dr'[p].self, r},
             dr'[p].send.n = 0
      PROVE  SentInv' /\ ChainsInv' /\ ApartInv'
  <2> DEFINE chain == dr'[p].send.chain
  <2>1. Other(p) \in Peers /\ Other(p) # p /\ \A q \in Peers : q = p \/ q = Other(p)
    BY OtherPeer
  <2>2. dr[p].self.i \in Nat /\ dr[p].self.owner = p
    BY <1>1 DEF TypeOK, Ratchets, Pairs, SentInv
  <2>3. SentInv'
    <3>1. ASSUME NEW j \in 1..Len(sent[p])
          PROVE  /\ sent[p][j].dh.owner = p /\ sent[p][j].dh.i <= dr'[p].self.i
                 /\ sent[p][j].dh # dr'[p].self
      <4>1. sent[p][j].dh.owner = p /\ sent[p][j].dh.i <= dr[p].self.i
        BY <1>1 DEF SentInv
      <4>2. sent[p][j].dh.i \in Nat
        <5>1. sent[p] \in Seq([dh : Pairs, n : Nat, key : MessageKeys])
          BY <1>1 DEF TypeOK
        <5>2. sent[p][j] \in [dh : Pairs, n : Nat, key : MessageKeys]
          BY <5>1, ElementOfSeq
        <5> QED
          BY <5>2 DEF Pairs
      <4> QED
        BY <1>4, <2>2, <4>1, <4>2
    <3> QED
      BY <1>1, <1>2, <1>4, <3>1 DEF SentInv
  <2>4. ChainsInv'
    <3>1. MadeWith(chain, p, dr'[p].self)
      BY <1>4, <2>1 DEF MadeWith
    <3> QED
      BY <1>1, <1>2, <3>1 DEF ChainsInv, MadeWith
  <2>5. ApartInv'
    <3>1. \A c \in SendingChains(p)' : c = chain \/ c \in SendingChains(p)
      BY <1>2 DEF SendingChains
    <3>2. SendingChains(Other(p))' = SendingChains(Other(p))
      BY <1>2, <2>1 DEF SendingChains
    <3>3. \A q \in Peers : dr[q].self.i <= dr'[q].self.i /\ dr[q].self.i \in Nat /\ dr'[q].self.i \in Nat
      <4>1. \A q \in Peers : dr[q].self.i \in Nat
        BY <1>1 DEF TypeOK, Ratchets, Pairs
      <4> QED
        BY <1>2, <1>4, <4>1
    <3>4. ASSUME NEW q \in Peers, NEW c \in SendingChains(q), NEW l \in Last(c)
          PROVE  l.owner \in Peers /\ l.i \in 0..dr[l.owner].self.i
      BY <1>1 DEF ApartInv
    <3>5. chain \notin SendingChains(Other(p))
      <4>1. ASSUME chain \in SendingChains(Other(p)) PROVE FALSE
        <5>1. dr'[p].self \in Last(chain)
          BY <1>4
        <5>2. dr'[p].self.i \in 0..dr[p].self.i
          BY <1>4, <2>1, <3>4, <4>1, <5>1
        <5> QED
          BY <1>4, <2>2, <5>2
      <4> QED
        BY <4>1
    <3>6. ASSUME NEW q \in Peers, NEW c \in SendingChains(q)', NEW l \in Last(c)
          PROVE  l.owner \in Peers /\ l.i \in 0..dr'[l.owner].self.i
      <4>1. CASE c = chain
        <5>1. l = dr'[p].self \/ l = r
          BY <1>4, <3>6, <4>1
        <5>2. r.owner \in Peers /\ r.i \in 0..dr'[r.owner].self.i
          BY <1>2, <1>4, <2>1, <3>3 DEF Pairs
        <5>3. dr'[p].self.i \in 0..dr'[p].self.i
          BY <3>3
        <5> QED
          BY <1>4, <5>1, <5>2, <5>3
      <4>2. CASE c \in SendingChains(q)
        <5>1. l.owner \in Peers /\ l.i \in 0..dr[l.owner].self.i
          BY <3>4, <3>6, <4>2
        <5>2. dr[l.owner].self.i <= dr'[l.owner].self.i
          BY <3>3, <5>1
        <5> QED
          BY <3>3, <5>1, <5>2
      <4> QED
        BY <2>1, <3>1, <3>2, <3>6, <4>1, <4>2
    <3>7. \A q \in Peers : SendingChains(q)' \cap SendingChains(Other(q))' = {}
      <4>1. SendingChains(p) \cap SendingChains(Other(p)) = {}
        BY <1>1 DEF ApartInv
      <4>2. SendingChains(p)' \cap SendingChains(Other(p))' = {}
        BY <3>1, <3>2, <3>5, <4>1
      <4> QED
        BY <2>1, <4>2, OtherPeer
    <3> QED
      BY <3>6, <3>7 DEF ApartInv
  <2> QED
    BY <2>3, <2>4, <2>5
<1> QED
  BY <1>3, <1>4, DecryptPair

-----------------------------------------------------------------------------
(* The receiving side *)

\* What a peer received is messages, and the keys it used are keys.
LEMMA UsedTyped ==
  ASSUME TypeOK, SpentInv, NEW p \in Peers
  PROVE  /\ Len(got[p]) \in Nat
         /\ \A k \in 1..Len(got[p]) : Message(p, k) \in [dh : Pairs, n : Nat, key : MessageKeys]
         /\ Used(p) \subseteq MessageKeys /\ dr[p].skipped \subseteq MessageKeys
<1>1. Other(p) \in Peers
  BY OtherPeer
<1>2. /\ sent[Other(p)] \in Seq([dh : Pairs, n : Nat, key : MessageKeys])
      /\ got[p] \in Seq([i : Nat, ok : BOOLEAN]) /\ dr[p].skipped \subseteq MessageKeys
  BY <1>1 DEF TypeOK, Ratchets
<1>3. ASSUME NEW k \in 1..Len(got[p])
      PROVE  Message(p, k) \in [dh : Pairs, n : Nat, key : MessageKeys]
  <2>1. got[p][k].i \in 1..Len(sent[Other(p)])
    BY <1>3 DEF SpentInv
  <2> QED
    BY <1>2, <2>1, ElementOfSeq DEF Message
<1>4. Used(p) \subseteq MessageKeys
  BY <1>3 DEF Used
<1> QED
  BY <1>2, <1>3, <1>4, LenProperties

\* Encrypt leaves what the receiving side has used and kept as it is.
LEMMA EncryptSpends ==
  ASSUME IInv, NEW p \in Peers, Encrypt(p)
  PROVE  SpentInv' /\ OpensOnce'
<1>1. TypeOK /\ SpentInv /\ OpensOnce
  BY DEF IInv
<1>2. /\ Len(sent'[p]) = Len(sent[p]) + 1 /\ Len(sent[p]) \in Nat
      /\ \A i \in 1..Len(sent[p]) : sent'[p][i] = sent[p][i]
      /\ \A q \in Peers : q # p => sent'[q] = sent[q] /\ dr'[q] = dr[q]
  BY <1>1, SentByEncrypt
<1>3. got' = got
  BY <1>1, EncryptFields
<1>4. /\ dr'[p].root = dr[p].root /\ dr'[p].recv = dr[p].recv
      /\ dr'[p].stepNeeded = dr[p].stepNeeded /\ dr'[p].remote = dr[p].remote
      /\ dr'[p].skipped = dr[p].skipped
  BY <1>1, EncryptKeeps
<1>5. ASSUME NEW q \in Peers
      PROVE  /\ dr'[q].root = dr[q].root /\ dr'[q].recv = dr[q].recv
             /\ dr'[q].stepNeeded = dr[q].stepNeeded /\ dr'[q].remote = dr[q].remote
             /\ dr'[q].skipped = dr[q].skipped
  BY <1>2, <1>4
<1>6. ASSUME NEW q \in Peers
      PROVE  /\ \A i \in 1..Len(sent[q]) : i \in 1..Len(sent'[q]) /\ sent'[q][i] = sent[q][i]
  BY <1>2
<1>7. ASSUME NEW q \in Peers, NEW k \in 1..Len(got[q])
      PROVE  Message(q, k)' = Message(q, k) /\ got[q][k].i \in 1..Len(sent'[Other(q)])
  <2>1. got[q][k].i \in 1..Len(sent[Other(q)]) /\ Other(q) \in Peers
    BY <1>1, <1>7, OtherPeer DEF SpentInv
  <2> QED
    BY <1>3, <1>6, <2>1 DEF Message
<1>8. \A q \in Peers : Used(q)' = Used(q)
  BY <1>3, <1>7 DEF Used
<1>9. \A q \in Peers : Receiving(q)' = Receiving(q)
  BY <1>5 DEF Receiving
<1>10. \A q \in Peers : \A key : Behind(dr[q], key) => Behind(dr'[q], key)
  BY <1>5 DEF Behind
<1>11. OpensOnce'
  BY <1>1, <1>3 DEF OpensOnce
<1>12. SpentInv'
  <2> SUFFICES ASSUME NEW q \in Peers
               PROVE  /\ ~Receiving(q)' => dr'[q].skipped = {} /\ Used(q)' = {}
                      /\ Receiving(q)' => Len(dr'[q].recv.chain) <= Len(dr'[q].root)
                      /\ \A key \in dr'[q].skipped \cup Used(q)' : Behind(dr'[q], key)
                      /\ dr'[q].skipped \cap Used(q)' = {}
                      /\ \A k \in 1..Len(got'[q]) : got'[q][k].i \in 1..Len(sent'[Other(q)])
    BY DEF SpentInv, Behind
  <2>1. /\ ~Receiving(q) => dr[q].skipped = {} /\ Used(q) = {}
        /\ Receiving(q) => Len(dr[q].recv.chain) <= Len(dr[q].root)
        /\ \A key \in dr[q].skipped \cup Used(q) : Behind(dr[q], key)
        /\ dr[q].skipped \cap Used(q) = {}
    BY <1>1 DEF SpentInv
  <2> QED
    BY <1>3, <1>5, <1>7, <1>8, <1>9, <1>10, <2>1
<1> QED
  BY <1>11, <1>12

\* When a ratchet has looked at a header it can receive, and has left behind
\* all the keys it has used or kept.
LEMMA TurnedBehind ==
  ASSUME TypeOK, SentInv, SpentInv, NEW p \in Peers, NEW i \in 1..Len(sent[Other(p)])
  PROVE  LET d == Turned(p, sent[Other(p)][i])
         IN /\ ~d.stepNeeded /\ d.remote # NoPair
            /\ Len(d.recv.chain) <= Len(d.root)
            /\ d.skipped = dr[p].skipped
            /\ \A key \in dr[p].skipped \cup Used(p) : Behind(d, key)
<1> DEFINE m == sent[Other(p)][i]
           d == Turned(p, m)
<1>1. Other(p) \in Peers /\ Other(p) # "nobody" /\ dr[p] \in Ratchets
  BY OtherPeer DEF TypeOK, Peers
<1>2. m \in [dh : Pairs, n : Nat, key : MessageKeys] /\ m.dh \in Pairs
  <2>1. sent[Other(p)] \in Seq([dh : Pairs, n : Nat, key : MessageKeys])
    BY <1>1 DEF TypeOK
  <2>2. m \in [dh : Pairs, n : Nat, key : MessageKeys]
    BY <2>1, ElementOfSeq
  <2> QED
    BY <2>2
<1>3. m.dh # NoPair
  BY <1>1 DEF SentInv, NoPair, Pair
<1> HIDE DEF m, d
<1>4. /\ d.skipped = dr[p].skipped
      /\ d = dr[p] \/ d = Ratcheted(dr[p], m.dh)
      /\ d = dr[p] => ~dr[p].stepNeeded /\ dr[p].remote = m.dh
  BY <1>2, TurnedFields DEF d
<1>5. \A key \in dr[p].skipped \cup Used(p) : Behind(dr[p], key)
  BY DEF SpentInv
<1>6. CASE d = dr[p]
  <2>1. Receiving(p)
    BY <1>3, <1>4, <1>6 DEF Receiving
  <2>2. Len(dr[p].recv.chain) <= Len(dr[p].root)
    BY <2>1 DEF SpentInv
  <2> QED
    BY <1>3, <1>4, <1>5, <1>6, <2>2 DEF m, d
<1>7. CASE d = Ratcheted(dr[p], m.dh)
  <2>1. LET e == Ratcheted(dr[p], m.dh)
        IN /\ e.root = Append(Append(dr[p].root, Secret(dr[p].self, m.dh)), Secret(NextPair(dr[p].self), m.dh))
           /\ e.recv.chain = Append(dr[p].root, Secret(dr[p].self, m.dh))
           /\ ~e.stepNeeded /\ e.remote = m.dh /\ e.self = NextPair(dr[p].self) /\ e \in Ratchets
    BY <1>1, <1>2, RatchetedFields
  <2>2. /\ dr[p].root \in Seq(SUBSET Pairs) /\ Secret(dr[p].self, m.dh) \in SUBSET Pairs
        /\ Secret(NextPair(dr[p].self), m.dh) \in SUBSET Pairs
    <3>1. dr[p].self \in Pairs /\ NextPair(dr[p].self) \in Pairs
      BY <1>1, <2>1 DEF Ratchets
    <3> QED
      BY <1>1, <1>2, <3>1 DEF Ratchets, RootKeys, Secret
  <2> DEFINE chain == Append(dr[p].root, Secret(dr[p].self, m.dh))
  <2>3. /\ chain \in Seq(SUBSET Pairs) /\ Len(chain) = Len(dr[p].root) + 1 /\ Len(dr[p].root) \in Nat
    BY <2>2, AppendProperties, LenProperties
  <2>4. d.recv.chain = chain /\ d.root = Append(chain, Secret(NextPair(dr[p].self), m.dh))
    BY <1>7, <2>1
  <2> HIDE DEF chain
  <2>5. Len(d.root) = Len(dr[p].root) + 2
    BY <2>2, <2>3, <2>4, AppendProperties
  <2>6. ASSUME NEW key \in dr[p].skipped \cup Used(p) PROVE Behind(d, key)
    <3>1. key \in MessageKeys
      BY UsedTyped
    <3>2. Len(key.chain) \in Nat /\ Len(key.chain) <= Len(dr[p].root)
      BY <1>5, <3>1, LenProperties DEF Behind, MessageKeys, RootKeys
    <3>3. key.chain # chain
      BY <2>3, <3>2
    <3> QED
      BY <2>3, <2>4, <2>5, <3>2, <3>3 DEF Behind
  <2>7. ~d.stepNeeded /\ d.remote = m.dh /\ Len(d.recv.chain) <= Len(d.root)
    BY <1>7, <2>1, <2>3, <2>4, <2>5
  <2> QED
    BY <1>3, <1>4, <2>6, <2>7 DEF m, d
<1> QED
  BY <1>4, <1>6, <1>7

\* Decrypt keeps what the receiving side promises: the key of a message it
\* opens was not used before and is not kept.
LEMMA DecryptSpends ==
  ASSUME IInv, NEW p \in Peers, NEW i, NEW ok \in BOOLEAN, Outcome(p, i, ok)
  PROVE  SpentInv' /\ OpensOnce'
<1> DEFINE m == sent[Other(p)][i]
           d == Turned(p, m)
           e == dr'[p]
           passed(key) == key.chain = d.recv.chain /\ d.recv.n <= key.n /\ key.n < e.recv.n
           last == Len(got[p]) + 1
<1>1. TypeOK /\ SentInv /\ SpentInv /\ OpensOnce
  BY DEF IInv
<1>2. /\ i \in 1..Len(sent[Other(p)])
      /\ dr' = [dr EXCEPT ![p] = e] /\ e \in Ratchets
      /\ got' = [got EXCEPT ![p] = Append(@, [i |-> i, ok |-> ok])]
      /\ sent' = sent
      /\ e.root = d.root /\ e.remote = d.remote /\ e.stepNeeded = d.stepNeeded
      /\ e.recv.chain = d.recv.chain /\ e.recv.n >= d.recv.n
      /\ \A key \in e.skipped : key \in d.skipped \/ passed(key)
      /\ ok => \/ m.key \in d.skipped /\ m.key \notin e.skipped
               \/ passed(m.key) /\ m.key \notin e.skipped \ d.skipped
  BY DEF Outcome
<1>3. /\ ~d.stepNeeded /\ d.remote # NoPair
      /\ Len(d.recv.chain) <= Len(d.root)
      /\ d.skipped = dr[p].skipped
      /\ \A key \in dr[p].skipped \cup Used(p) : Behind(d, key)
  BY <1>1, <1>2, TurnedBehind
<1>4. m.key \in MessageKeys /\ d \in Ratchets /\ d.recv.n \in Nat /\ e.recv.n \in Nat
  <2>1. sent[Other(p)] \in Seq([dh : Pairs, n : Nat, key : MessageKeys])
    BY <1>1, OtherPeer DEF TypeOK
  <2>2. m \in [dh : Pairs, n : Nat, key : MessageKeys]
    BY <1>2, <2>1, ElementOfSeq
  <2>3. d \in Ratchets
    BY <1>1, <2>2, TurnedFields
  <2> HIDE DEF m, d, e
  <2> QED
    BY <1>2, <2>2, <2>3 DEF Ratchets, MessageKeys
<1>5. /\ got[p] \in Seq([i : Nat, ok : BOOLEAN]) /\ last \in Nat
      /\ Used(p) \subseteq MessageKeys /\ dr[p].skipped \subseteq MessageKeys
  <2>1. got[p] \in Seq([i : Nat, ok : BOOLEAN])
    BY <1>1 DEF TypeOK
  <2>2. Used(p) \subseteq MessageKeys
    BY <1>1, UsedTyped
  <2>3. dr[p].skipped \subseteq MessageKeys
    BY <1>1 DEF TypeOK, Ratchets
  <2> QED
    BY <2>1, <2>2, <2>3
<1>6. /\ Len(got'[p]) = last
      /\ \A k \in 1..Len(got[p]) : got'[p][k] = got[p][k]
      /\ got'[p][last] = [i |-> i, ok |-> ok]
      /\ \A q \in Peers : q # p => got'[q] = got[q] /\ dr'[q] = dr[q]
      /\ \A k \in 1..last : k \in 1..Len(got[p]) \/ k = last
  <2>1. got'[p] = Append(got[p], [i |-> i, ok |-> ok])
    BY <1>1, <1>2 DEF TypeOK
  <2>2. \A q \in Peers : q # p => got'[q] = got[q] /\ dr'[q] = dr[q]
    BY <1>1, <1>2 DEF TypeOK
  <2>3. \A k \in 1..last : k \in 1..Len(got[p]) \/ k = last
    BY <1>5
  <2>4. i \in Nat
    BY <1>2
  <2> QED
    BY <1>5, <2>1, <2>2, <2>3, <2>4, AppendProperties
<1> HIDE DEF m, d, e, last
<1>7. \A key : passed(key) => key \notin dr[p].skipped \cup Used(p)
  <2>1. ASSUME NEW key \in dr[p].skipped \cup Used(p), passed(key) PROVE FALSE
    <3>1. key.n < d.recv.n /\ d.recv.n <= key.n /\ key.n \in Nat
      BY <1>3, <1>5, <2>1 DEF Behind, MessageKeys
    <3> QED
      BY <1>4, <3>1
  <2> QED
    BY <2>1
<1>8. ok => m.key \notin Used(p) /\ m.key \notin e.skipped
  <2>1. dr[p].skipped \cap Used(p) = {}
    BY <1>1 DEF SpentInv
  <2> QED
    BY <1>2, <1>3, <1>7, <2>1
<1>9. Used(p)' \subseteq Used(p) \cup {key \in {m.key} : ok}
  <2>1. ASSUME NEW k \in 1..last, got'[p][k].ok
        PROVE  Message(p, k)'.key \in Used(p) \cup {key \in {m.key} : ok}
    <3>1. CASE k \in 1..Len(got[p])
      <4>1. got'[p][k] = got[p][k] /\ Message(p, k)' = Message(p, k)
        BY <1>2, <1>6, <3>1 DEF Message
      <4> QED
        BY <2>1, <3>1, <4>1 DEF Used
    <3>2. CASE k = last
      <4>1. got'[p][k].i = i /\ got'[p][k].ok = ok
        BY <1>6, <3>2
      <4>2. Message(p, k)' = m
        BY <1>2, <4>1 DEF Message, m
      <4> QED
        BY <2>1, <4>1, <4>2
    <3> QED
      BY <1>6, <3>1, <3>2
  <2> QED
    BY <1>6, <2>1 DEF Used
<1>10. \A q \in Peers : q # p => Used(q)' = Used(q)
  BY <1>2, <1>6 DEF Used, Message
<1>11. ASSUME NEW key \in MessageKeys, Behind(d, key) \/ passed(key) PROVE Behind(e, key)
  <2>1. key.n \in Nat
    BY DEF MessageKeys
  <2>2. CASE Behind(d, key)
    BY <1>2, <1>4, <2>1, <2>2 DEF Behind
  <2>3. CASE passed(key)
    BY <1>2, <1>3, <2>3 DEF Behind
  <2> QED
    BY <1>11, <2>2, <2>3
<1>12. OpensOnce'
  <2>1. ASSUME NEW j \in 1..last, NEW k \in 1..last,
               got'[p][j].i = got'[p][k].i, got'[p][j].ok, got'[p][k].ok
        PROVE  j = k
    <3>1. ASSUME NEW l \in 1..Len(got[p]), got[p][l].i = i, got[p][l].ok, ok PROVE FALSE
      <4>1. Message(p, l).key = m.key
        BY <3>1 DEF Message, m
      <4>2. m.key \in Used(p)
        BY <3>1, <4>1 DEF Used
      <4> QED
        BY <1>8, <3>1, <4>2
    <3>2. got'[p][last].i = i /\ got'[p][last].ok = ok
      BY <1>6
    <3>3. CASE j \in 1..Len(got[p]) /\ k \in 1..Len(got[p])
      <4>1. DOMAIN got[p] = 1..Len(got[p])
        BY <1>5
      <4> QED
        BY SMTT(40), <1>1, <1>6, <2>1, <3>3, <4>1 DEF OpensOnce
    <3>4. CASE j = last /\ k \in 1..Len(got[p])
      BY <1>6, <2>1, <3>1, <3>2, <3>4
    <3>5. CASE j \in 1..Len(got[p]) /\ k = last
      BY <1>6, <2>1, <3>1, <3>2, <3>5
    <3> QED
      BY <1>6, <3>3, <3>4, <3>5
  <2>2. DOMAIN got'[p] = 1..last
    <3>1. got'[p] = Append(got[p], [i |-> i, ok |-> ok])
      BY <1>1, <1>2 DEF TypeOK
    <3>2. i \in Nat
      BY <1>2
    <3> QED
      BY <1>5, <3>1, <3>2, AppendProperties DEF last
  <2>3. ASSUME NEW q \in Peers, q # p
        PROVE  \A j, k \in DOMAIN got'[q] : got'[q][j].i = got'[q][k].i /\ got'[q][j].ok /\ got'[q][k].ok => j = k
    BY <1>1, <1>6, <2>3 DEF OpensOnce
  <2> QED
    BY <2>1, <2>2, <2>3 DEF OpensOnce
<1>13. SpentInv'
  <2>1. /\ Receiving(p)' /\ Len(e.recv.chain) <= Len(e.root)
    BY <1>2, <1>3 DEF Receiving, e
  <2>2. ASSUME NEW key \in e.skipped \cup Used(p)' PROVE Behind(e, key)
    <3>1. CASE key \in dr[p].skipped \cup Used(p)
      BY <1>3, <1>5, <1>11, <3>1
    <3>2. CASE key \in e.skipped /\ passed(key)
      <4>1. key \in MessageKeys
        BY <1>2, <3>2 DEF Ratchets
      <4> QED
        BY <1>11, <3>2, <4>1
    <3>3. CASE ok /\ key = m.key
      BY <1>2, <1>3, <1>4, <1>11, <3>3
    <3> QED
      BY <1>2, <1>3, <1>9, <3>1, <3>2, <3>3
  <2>3. e.skipped \cap Used(p)' = {}
    <3>1. ASSUME NEW key \in e.skipped PROVE key \notin Used(p)
      <4>1. dr[p].skipped \cap Used(p) = {}
        BY <1>1 DEF SpentInv
      <4> QED
        BY <1>2, <1>3, <1>7, <3>1, <4>1
    <3> QED
      BY <1>8, <1>9, <3>1
  <2>4. ASSUME NEW k \in 1..last PROVE got'[p][k].i \in 1..Len(sent'[Other(p)])
    <3>1. CASE k = last
      BY <1>2, <1>6, <3>1
    <3>2. CASE k \in 1..Len(got[p])
      BY <1>1, <1>2, <1>6, <3>2 DEF SpentInv
    <3> QED
      BY <1>6, <3>1, <3>2
  <2>5. ASSUME NEW q \in Peers, q # p
        PROVE  /\ ~Receiving(q)' => dr'[q].skipped = {} /\ Used(q)' = {}
               /\ Receiving(q)' => Len(dr'[q].recv.chain) <= Len(dr'[q].root)
               /\ \A key \in dr'[q].skipped \cup Used(q)' : Behind(dr'[q], key)
               /\ dr'[q].skipped \cap Used(q)' = {}
               /\ \A k \in 1..Len(got'[q]) : got'[q][k].i \in 1..Len(sent'[Other(q)])
    <3>1. dr'[q] = dr[q] /\ got'[q] = got[q] /\ Used(q)' = Used(q)
      BY <1>6, <1>10, <2>5
    <3>2. Receiving(q)' = Receiving(q)
      BY <3>1 DEF Receiving
    <3> QED
      BY <1>1, <1>2, <3>1, <3>2 DEF SpentInv
  <2> QED
    BY <1>6, <2>1, <2>2, <2>3, <2>4, <2>5 DEF SpentInv, Behind, e
<1> QED
  BY <1>12, <1>13

-----------------------------------------------------------------------------
(* The orderly network *)

\* The messages of a stream, one by one.
StreamIs ==
  \A p \in Peers :
    /\ Stream(p) \in Seq([dh : Pairs, n : Nat, key : MessageKeys])
    /\ Len(sent[p]) \in Nat /\ Len(Stream(p)) = Len(sent[p]) + 1
    /\ \A i \in 1..Len(sent[p]) : Stream(p)[i] = sent[p][i]
    /\ Stream(p)[Len(sent[p]) + 1] = Sealed(p)

\* A stream is what was sent and one message more.
LEMMA StreamFields == TypeOK => StreamIs
<1> SUFFICES ASSUME TypeOK, NEW p \in Peers
             PROVE  /\ Stream(p) \in Seq([dh : Pairs, n : Nat, key : MessageKeys])
                    /\ Len(sent[p]) \in Nat /\ Len(Stream(p)) = Len(sent[p]) + 1
                    /\ \A i \in 1..Len(sent[p]) : Stream(p)[i] = sent[p][i]
                    /\ Stream(p)[Len(sent[p]) + 1] = Sealed(p)
  BY DEF StreamIs
<1>1. /\ sent[p] \in Seq([dh : Pairs, n : Nat, key : MessageKeys])
      /\ Sealed(p) \in [dh : Pairs, n : Nat, key : MessageKeys]
  BY DEF TypeOK, Ratchets, MessageKeys, Sealed
<1>2. Stream(p) = Append(sent[p], Sealed(p))
  BY DEF Stream, Sealed
<1> QED
  BY <1>1, <1>2, AppendProperties

\* What has been sent and received stays on record: an orderly network has been
\* orderly all along.
LEMMA OrderlyBefore ==
  ASSUME TypeOK, TypeOK', SpentInv, Orderly',
         \A p \in Peers :
           /\ Len(sent[p]) <= Len(sent'[p]) /\ Len(got[p]) <= Len(got'[p])
           /\ \A i \in 1..Len(sent[p]) : sent'[p][i] = sent[p][i]
           /\ \A k \in 1..Len(got[p]) : got'[p][k] = got[p][k]
  PROVE  Orderly
<1>1. ASSUME NEW p \in Peers
      PROVE  /\ DOMAIN got[p] = 1..Len(got[p]) /\ DOMAIN got'[p] = 1..Len(got'[p])
             /\ DOMAIN sent[p] = 1..Len(sent[p]) /\ DOMAIN sent'[p] = 1..Len(sent'[p])
             /\ Len(got[p]) \in Nat /\ Len(got'[p]) \in Nat
             /\ Len(sent[p]) \in Nat /\ Len(sent'[p]) \in Nat
  BY <1>1 DEF TypeOK
<1>2. ASSUME NEW p \in Peers, NEW k \in 1..Len(got[p])
      PROVE  k \in DOMAIN got'[p] /\ Message(p, k)' = Message(p, k) /\ got'[p][k] = got[p][k]
  <2>1. got[p][k].i \in 1..Len(sent[Other(p)]) /\ Other(p) \in Peers
    BY <1>2, OtherPeer DEF SpentInv
  <2>2. got'[p][k] = got[p][k] /\ k \in 1..Len(got'[p])
    BY <1>1, <1>2
  <2> QED
    BY <1>1, <2>1, <2>2 DEF Message
<1>3. DeliveredOnce
  <2> SUFFICES ASSUME NEW p \in Peers, NEW j \in DOMAIN got[p], NEW k \in DOMAIN got[p],
                      got[p][j].i = got[p][k].i
               PROVE  j = k
    BY DEF DeliveredOnce
  <2>1. j \in DOMAIN got'[p] /\ k \in DOMAIN got'[p] /\ got'[p][j].i = got'[p][k].i
    BY <1>1, <1>2
  <2> QED
    BY <2>1 DEF Orderly, DeliveredOnce
<1>4. Forward
  <2> SUFFICES ASSUME NEW p \in Peers, NEW j \in DOMAIN got[p], NEW k \in DOMAIN got[p], j < k
               PROVE  Message(p, j).dh.i <= Message(p, k).dh.i
    BY DEF Forward
  <2>1. /\ j \in DOMAIN got'[p] /\ k \in DOMAIN got'[p]
        /\ Message(p, j)' = Message(p, j) /\ Message(p, k)' = Message(p, k)
    BY <1>1, <1>2
  <2>2. Message(p, j)'.dh.i <= Message(p, k)'.dh.i
    BY <2>1 DEF Orderly, Forward
  <2> QED
    BY <2>1, <2>2
<1>5. ~Early
  <2> SUFFICES ASSUME NEW i \in DOMAIN sent["bob"], sent["bob"][i].key.chain = ZeroChain PROVE FALSE
    BY DEF Early
  <2>1. "bob" \in Peers
    BY DEF Peers
  <2>2. i \in DOMAIN sent'["bob"] /\ sent'["bob"][i] = sent["bob"][i]
    BY <1>1, <2>1
  <2> QED
    BY <2>2 DEF Orderly, Early
<1> QED
  BY <1>3, <1>4, <1>5 DEF Orderly

\* Encrypt adds to the stream of p what it would send next.
LEMMA EncryptStreams ==
  ASSUME TypeOK, TypeOK', NEW p \in Peers, Encrypt(p)
  PROVE  LET s == Stream(p)
             l == Len(s) + 1
         IN /\ Len(s) \in Nat /\ Len(s) = Len(sent'[p]) /\ Len(Stream(p)') = l
            /\ \A i \in 1..Len(s) : Stream(p)'[i] = s[i] /\ sent'[p][i] = s[i]
            /\ s[Len(s)].dh = dr[p].self /\ s[Len(s)].n = dr[p].send.n
            /\ s[Len(s)].key = dr[p].send
            /\ Stream(p)'[l].dh = dr[p].self /\ Stream(p)'[l].n = dr[p].send.n + 1
            /\ Stream(p)'[l].key.chain = dr[p].send.chain
            /\ Stream(p)'[l].key.n = dr[p].send.n + 1
            /\ \A q \in Peers : q # p => Stream(q)' = Stream(q)
<1>1. StreamIs /\ StreamIs'
  <2>1. StreamIs'
    BY StreamFields, PTL
  <2> QED
    BY <2>1, StreamFields
<1>2. /\ Len(sent'[p]) = Len(sent[p]) + 1 /\ Len(sent[p]) \in Nat
      /\ \A i \in 1..Len(sent[p]) : sent'[p][i] = sent[p][i]
      /\ sent'[p][Len(sent[p]) + 1] = Sealed(p)
      /\ \A q \in Peers : q # p => sent'[q] = sent[q] /\ dr'[q] = dr[q]
  BY SentByEncrypt
<1>3. /\ dr[p].send.n \in Nat /\ dr'[p].send.n = dr[p].send.n + 1
      /\ dr'[p].send.chain = dr[p].send.chain /\ dr'[p].self = dr[p].self
  BY EncryptKeeps
<1>4. /\ Len(Stream(p)) = Len(sent[p]) + 1 /\ \A i \in 1..Len(sent[p]) : Stream(p)[i] = sent[p][i]
      /\ Stream(p)[Len(sent[p]) + 1] = Sealed(p)
  BY <1>1 DEF StreamIs
<1>5. /\ Len(Stream(p)') = Len(sent'[p]) + 1 /\ \A i \in 1..Len(sent'[p]) : Stream(p)'[i] = sent'[p][i]
      /\ Stream(p)'[Len(sent'[p]) + 1] = Sealed(p)'
  BY <1>1 DEF StreamIs
<1>6. /\ Sealed(p).dh = dr[p].self /\ Sealed(p).n = dr[p].send.n /\ Sealed(p).key = dr[p].send
      /\ Sealed(p)'.dh = dr[p].self /\ Sealed(p)'.n = dr[p].send.n + 1
      /\ Sealed(p)'.key.chain = dr[p].send.chain /\ Sealed(p)'.key.n = dr[p].send.n + 1
  BY <1>3 DEF Sealed
<1>7. ASSUME NEW i \in 1..Len(Stream(p)) PROVE Stream(p)'[i] = Stream(p)[i] /\ sent'[p][i] = Stream(p)[i]
  BY <1>2, <1>4, <1>5, <1>7
<1>8. \A q \in Peers : q # p => Stream(q)' = Stream(q)
  BY <1>2 DEF Stream
<1> QED
  BY <1>2, <1>4, <1>5, <1>6, <1>7, <1>8

\* The messages.
Sent == [dh : Pairs, n : Nat, key : MessageKeys]

\* The next message of the chain keeps a stream in order.
LEMMA NextInOrder ==
  ASSUME NEW s \in Seq(Sent), NEW t \in Seq(Sent), InOrder(s),
         Len(s) >= 1, Len(t) = Len(s) + 1,
         \A i \in 1..Len(s) : t[i] = s[i],
         t[Len(t)].dh = s[Len(s)].dh, t[Len(t)].n = s[Len(s)].n + 1,
         t[Len(t)].key.chain = s[Len(s)].key.chain, t[Len(t)].key.n = t[Len(t)].n
  PROVE  InOrder(t)
<1> DEFINE N == Len(s)
           l == N + 1
<1>1. N \in Nat /\ N >= 1 /\ N \in 1..N /\ Len(t) = l
  OBVIOUS
<1>2. ASSUME NEW i \in 1..N PROVE s[i].n \in Nat /\ s[i].dh.i \in Nat /\ i - s[i].n \in 1..N
  <2>1. s[i] \in Sent
    BY <1>2, ElementOfSeq
  <2>2. s[i].n \in Nat /\ s[i].dh.i \in Nat
    BY <2>1 DEF Sent, Pairs
  <2>3. s[i].n < i
    BY <1>2 DEF InOrder
  <2> QED
    BY <1>1, <1>2, <2>2, <2>3
<1>3. \A i \in 1..l : i \in 1..N \/ i = l
  BY <1>1
<1>4. ASSUME NEW i \in 1..N, NEW j \in 1..N
      PROVE  /\ s[i].key.n = s[i].n /\ s[i].n < i /\ s[i - s[i].n].dh = s[i].dh
             /\ j <= i => s[j].dh.i <= s[i].dh.i
             /\ s[j].dh = s[i].dh => i - j = s[i].n - s[j].n /\ s[j].key.chain = s[i].key.chain
  BY DEF InOrder
<1>5. /\ t[l].dh = s[N].dh /\ t[l].n = s[N].n + 1 /\ t[l].key.chain = s[N].key.chain
      /\ t[l].key.n = t[l].n
  BY <1>1
<1>6. \A i \in 1..N : t[i] = s[i]
  OBVIOUS
<1> HIDE DEF N, l
<1>7. ASSUME NEW i \in 1..l
      PROVE  t[i].key.n = t[i].n /\ t[i].n < i /\ t[i - t[i].n].dh = t[i].dh
  <2>1. CASE i \in 1..N
    <3>1. t[i] = s[i] /\ t[i - s[i].n] = s[i - s[i].n]
      BY <1>2, <1>6, <2>1
    <3> QED
      BY <1>4, <2>1, <3>1
  <2>2. CASE i = l
    <3>1. l - t[l].n = N - s[N].n /\ s[N].n < N /\ t[l].n < l
      BY <1>1, <1>2, <1>4, <1>5 DEF l
    <3>2. t[N - s[N].n] = s[N - s[N].n] /\ s[N - s[N].n].dh = s[N].dh
      BY <1>1, <1>2, <1>4, <1>6
    <3> QED
      BY <1>5, <2>2, <3>1, <3>2
  <2> QED
    BY <1>3, <2>1, <2>2
<1>8. ASSUME NEW i \in 1..l, NEW j \in 1..l
      PROVE  /\ j <= i => t[j].dh.i <= t[i].dh.i
             /\ t[j].dh = t[i].dh => i - j = t[i].n - t[j].n /\ t[j].key.chain = t[i].key.chain
  <2>1. CASE i \in 1..N /\ j \in 1..N
    <3>1. t[i] = s[i] /\ t[j] = s[j]
      BY <1>6, <2>1
    <3>2. /\ j <= i => s[j].dh.i <= s[i].dh.i
          /\ s[j].dh = s[i].dh => i - j = s[i].n - s[j].n /\ s[j].key.chain = s[i].key.chain
      BY <1>4, <2>1
    <3> QED
      BY <3>1, <3>2
  <2>2. CASE i = l /\ j \in 1..N
    <3>1. t[j] = s[j] /\ j <= N /\ j \in Nat
      BY <1>1, <1>6, <2>2
    <3>2. s[j].dh.i <= s[N].dh.i
      BY <1>1, <1>4, <2>2, <3>1
    <3>3. s[j].dh = s[N].dh => N - j = s[N].n - s[j].n /\ s[j].key.chain = s[N].key.chain
      BY <1>1, <1>4, <2>2
    <3>4. s[N].n \in Nat /\ s[j].n \in Nat
      BY <1>1, <1>2, <2>2
    <3> QED
      BY <1>1, <1>5, <2>2, <3>1, <3>2, <3>3, <3>4 DEF l
  <2>3. CASE i \in 1..N /\ j = l
    <3>1. t[i] = s[i] /\ i <= N /\ i \in Nat /\ ~(j <= i)
      BY <1>1, <1>6, <2>3 DEF l
    <3>2. s[N].dh = s[i].dh => i - N = s[i].n - s[N].n /\ s[N].key.chain = s[i].key.chain
      BY <1>1, <1>4, <2>3
    <3>3. s[N].n \in Nat /\ s[i].n \in Nat
      BY <1>1, <1>2, <2>3
    <3> QED
      BY <1>1, <1>5, <2>3, <3>1, <3>2, <3>3 DEF l
  <2>4. CASE i = l /\ j = l
    <3>1. t[l].dh.i \in Nat /\ t[l].n \in Nat /\ l \in Nat
      BY <1>1, <1>2, <1>5 DEF l
    <3> QED
      BY <2>4, <3>1
  <2> QED
    BY <1>3, <2>1, <2>2, <2>3, <2>4
<1> QED
  BY <1>1, <1>7, <1>8 DEF InOrder

\* So does a first message of a chain made with the next pair, in the place of
\* what was to be sent.
LEMMA NewInOrder ==
  ASSUME NEW s \in Seq(Sent), NEW t \in Seq(Sent), InOrder(s),
         Len(s) >= 1, Len(t) = Len(s),
         \A i \in 1..(Len(s) - 1) : t[i] = s[i],
         t[Len(s)].dh.i = s[Len(s)].dh.i + 1, t[Len(s)].n = 0, t[Len(s)].key.n = 0
  PROVE  InOrder(t)
<1> DEFINE N == Len(s)
           B == 1..(N - 1)
<1>1. N \in Nat /\ N >= 1 /\ N \in 1..N /\ Len(t) = N /\ \A i \in B : i \in 1..N /\ i < N
  OBVIOUS
<1>2. ASSUME NEW i \in 1..N PROVE s[i].n \in Nat /\ s[i].dh.i \in Nat /\ s[i].n < i
  <2>1. s[i] \in Sent
    BY <1>2, ElementOfSeq
  <2>2. s[i].n \in Nat /\ s[i].dh.i \in Nat
    BY <2>1 DEF Sent, Pairs
  <2> QED
    BY <1>2, <2>2 DEF InOrder
<1>3. \A i \in 1..N : i \in B \/ i = N
  BY <1>1
<1>4. ASSUME NEW i \in 1..N, NEW j \in 1..N
      PROVE  /\ s[i].key.n = s[i].n /\ s[i - s[i].n].dh = s[i].dh
             /\ j <= i => s[j].dh.i <= s[i].dh.i
             /\ s[j].dh = s[i].dh => i - j = s[i].n - s[j].n /\ s[j].key.chain = s[i].key.chain
  BY DEF InOrder
<1>5. t[N].dh.i = s[N].dh.i + 1 /\ t[N].n = 0 /\ t[N].key.n = 0
  OBVIOUS
<1>6. \A i \in B : t[i] = s[i]
  OBVIOUS
<1>7. ASSUME NEW i \in B PROVE t[i].dh.i < t[N].dh.i /\ i - s[i].n \in B
  <2>1. i \in 1..N /\ i < N /\ t[i] = s[i]
    BY <1>1, <1>6, <1>7
  <2>2. s[i].dh.i <= s[N].dh.i
    BY <1>1, <1>4, <2>1
  <2>3. s[i].n \in Nat /\ s[i].dh.i \in Nat /\ s[i].n < i /\ s[N].dh.i \in Nat
    BY <1>1, <1>2, <2>1
  <2>4. t[i].dh.i < t[N].dh.i
    BY <1>5, <2>1, <2>2, <2>3
  <2>5. i - s[i].n \in B
    BY <1>1, <2>1, <2>3
  <2> QED
    BY <2>4, <2>5
<1> HIDE DEF N, B
<1>8. ASSUME NEW i \in 1..N
      PROVE  t[i].key.n = t[i].n /\ t[i].n < i /\ t[i - t[i].n].dh = t[i].dh
  <2>1. CASE i \in B
    <3>1. t[i] = s[i] /\ t[i - s[i].n] = s[i - s[i].n]
      BY <1>6, <1>7, <2>1
    <3> QED
      BY <1>2, <1>4, <2>1, <3>1
  <2>2. CASE i = N
    BY <1>1, <1>5, <2>2
  <2> QED
    BY <1>3, <2>1, <2>2
<1>9. ASSUME NEW i \in 1..N, NEW j \in 1..N
      PROVE  /\ j <= i => t[j].dh.i <= t[i].dh.i
             /\ t[j].dh = t[i].dh => i - j = t[i].n - t[j].n /\ t[j].key.chain = t[i].key.chain
  <2>0. t[N].dh.i \in Nat /\ \A k \in B : t[k].dh.i \in Nat
    <3>1. s[N].dh.i \in Nat
      BY <1>1, <1>2
    <3>2. ASSUME NEW k \in B PROVE t[k].dh.i \in Nat
      <4>1. k \in 1..N /\ t[k] = s[k]
        BY <1>1, <1>6, <3>2
      <4> QED
        BY <1>2, <4>1
    <3> QED
      BY <1>5, <3>1, <3>2
  <2>1. CASE i \in B /\ j \in B
    BY <1>1, <1>4, <1>6, <2>1
  <2>2. CASE i = N /\ j \in B
    BY <1>7, <2>0, <2>2
  <2>3. CASE i \in B /\ j = N
    BY <1>1, <1>7, <2>0, <2>3
  <2>4. CASE i = N /\ j = N
    BY <1>1, <1>5, <2>0, <2>4
  <2> QED
    BY <1>3, <2>1, <2>2, <2>3, <2>4
<1> QED
  BY <1>1, <1>8, <1>9 DEF InOrder

\* Encrypt keeps the streams in order, and what the ratchets know of one another.
LEMMA EncryptOrders ==
  ASSUME IInv, TypeOK', NEW p \in Peers, Encrypt(p)
  PROVE  StreamInv' /\ HeadersInv'
<1>1. TypeOK /\ StreamInv /\ HeadersInv
  BY DEF IInv
<1>2. StreamIs /\ StreamIs'
  <2>1. StreamIs'
    BY StreamFields, PTL
  <2> QED
    BY <1>1, <2>1, StreamFields
<1>3. StreamInv'
  <2>1. InOrder(Stream(p)')
    <3> DEFINE s == Stream(p)
               t == Stream(p)'
    <3>1. s \in Seq(Sent) /\ t \in Seq(Sent) /\ InOrder(s) /\ Len(s) >= 1
      <4>1. s \in Seq(Sent) /\ Len(s) >= 1
        <5>1. s \in Seq(Sent)
          BY <1>2 DEF StreamIs, Sent
        <5>2. Len(sent[p]) \in Nat /\ Len(s) = Len(sent[p]) + 1
          BY <1>2 DEF StreamIs
        <5> HIDE DEF s
        <5> QED
          BY <5>1, <5>2
      <4>2. t \in Seq(Sent)
        BY <1>2 DEF StreamIs, Sent
      <4>3. InOrder(s)
        BY <1>1 DEF StreamInv
      <4> QED
        BY <4>1, <4>2, <4>3
    <3>2. /\ Len(t) = Len(s) + 1
          /\ \A i \in 1..Len(s) : t[i] = s[i]
          /\ s[Len(s)].dh = dr[p].self /\ s[Len(s)].n = dr[p].send.n /\ s[Len(s)].key = dr[p].send
          /\ t[Len(s) + 1].dh = dr[p].self /\ t[Len(s) + 1].n = dr[p].send.n + 1
          /\ t[Len(s) + 1].key.chain = dr[p].send.chain /\ t[Len(s) + 1].key.n = dr[p].send.n + 1
      BY <1>1, EncryptStreams
    <3> HIDE DEF s, t
    <3>3. InOrder(t)
      BY <3>1, <3>2, NextInOrder
    <3> QED
      BY <3>3 DEF t
  <2>2. ASSUME NEW q \in Peers, q # p PROVE InOrder(Stream(q)')
    BY <1>1, <2>2, EncryptStreams DEF StreamInv
  <2>3. ASSUME NEW q \in Peers PROVE InOrder(Stream(q)')
    BY <2>1, <2>2
  <2> QED
    BY <2>3 DEF StreamInv, InOrder
<1>4. HeadersInv'
  <2>1. /\ \A q \in Peers : /\ dr'[q].send.chain = dr[q].send.chain /\ dr'[q].self = dr[q].self
                            /\ dr'[q].root = dr[q].root
                            /\ dr'[q].stepNeeded = dr[q].stepNeeded /\ dr'[q].remote = dr[q].remote
                            /\ dr'[q].skipped = dr[q].skipped
                            /\ dr'[q].skippedCount = dr[q].skippedCount
        /\ got' = got
    <3>1. \A q \in Peers : q # p => dr'[q] = dr[q]
      BY <1>1, SentByEncrypt
    <3>2. dr'[p].skippedCount = dr[p].skippedCount /\ got' = got
      BY <1>1, EncryptFields DEF TypeOK, Ratchets
    <3> QED
      BY <1>1, <3>1, <3>2, EncryptKeeps
  <2>2. ASSUME NEW q \in Peers
        PROVE  /\ dr'[q].remote # NoPair => dr'[q].remote.owner = Other(q)
               /\ dr'[q].stepNeeded => dr'[q].remote.i = 0
               /\ ~Receiving(q)' => got'[q] = <<>> /\ dr'[q].skippedCount = 0
               /\ \A k, l \in dr'[q].skipped : k.n = l.n => k = l
               /\ dr'[q].send.chain = IF q = "bob" /\ dr'[q].self.i = 0 THEN ZeroChain ELSE dr'[q].root
    <3>1. Receiving(q)' = Receiving(q)
      BY <2>1 DEF Receiving
    <3> QED
      BY <1>1, <2>1, <3>1 DEF HeadersInv
  <2>3. "alice" \in Peers /\ "bob" \in Peers
    BY DEF Peers
  <2>4. ASSUME NEW i \in 1..Len(sent'["bob"]), sent'["bob"][i].dh.i = 0
        PROVE  sent'["bob"][i].key.chain = ZeroChain
    <3>1. CASE p = "bob"
      <4>1. /\ Len(sent'["bob"]) = Len(sent["bob"]) + 1 /\ Len(sent["bob"]) \in Nat
            /\ \A j \in 1..Len(sent["bob"]) : sent'["bob"][j] = sent["bob"][j]
            /\ sent'["bob"][Len(sent["bob"]) + 1] = Sealed("bob")
        BY <1>1, <3>1, SentByEncrypt
      <4>2. CASE i \in 1..Len(sent["bob"])
        BY <1>1, <2>4, <4>1, <4>2 DEF HeadersInv
      <4>3. CASE i = Len(sent["bob"]) + 1
        <5>1. sent'["bob"][i].dh = dr["bob"].self /\ sent'["bob"][i].key.chain = dr["bob"].send.chain
          BY <4>1, <4>3 DEF Sealed
        <5> QED
          BY <1>1, <2>3, <2>4, <5>1 DEF HeadersInv
      <4> QED
        BY <4>1, <4>2, <4>3
    <3>2. CASE p # "bob"
      <4>1. sent'["bob"] = sent["bob"]
        BY <1>1, <2>3, <3>2, SentByEncrypt
      <4> QED
        BY <1>1, <2>4, <4>1 DEF HeadersInv
    <3> QED
      BY <3>1, <3>2
  <2>5. dr'["alice"].remote # NoPair /\ ~dr'["bob"].stepNeeded
    BY <1>1, <2>1, <2>3 DEF HeadersInv
  <2> QED
    BY <2>2, <2>4, <2>5 DEF HeadersInv
<1> QED
  BY <1>3, <1>4

\* Encrypt makes an orderly network no more orderly than it was.
LEMMA EncryptOrderly ==
  ASSUME IInv, TypeOK', NEW p \in Peers, Encrypt(p), Orderly'
  PROVE  Orderly
<1>1. TypeOK /\ SpentInv
  BY DEF IInv
<1>2. ASSUME NEW q \in Peers
      PROVE  /\ Len(sent[q]) <= Len(sent'[q]) /\ Len(got[q]) <= Len(got'[q])
             /\ \A i \in 1..Len(sent[q]) : sent'[q][i] = sent[q][i]
             /\ \A k \in 1..Len(got[q]) : got'[q][k] = got[q][k]
  <2>1. got' = got /\ Len(got[q]) \in Nat /\ Len(sent[q]) \in Nat
    <3>1. got' = got
      BY <1>1, EncryptFields
    <3>2. got[q] \in Seq([i : Nat, ok : BOOLEAN]) /\ sent[q] \in Seq(Sent)
      BY <1>1 DEF TypeOK, Sent
    <3> QED
      BY <3>1, <3>2, LenProperties
  <2>2. /\ Len(sent'[p]) = Len(sent[p]) + 1
        /\ \A i \in 1..Len(sent[p]) : sent'[p][i] = sent[p][i]
        /\ q # p => sent'[q] = sent[q]
    BY <1>1, SentByEncrypt
  <2> QED
    BY <2>1, <2>2
<1> QED
  BY <1>1, <1>2, OrderlyBefore

\* Encrypt leaves the turn as it is.
LEMMA EncryptTurns ==
  ASSUME IInv, TypeOK', NEW p \in Peers, Encrypt(p)
  PROVE  TurnsInv'
<1> SUFFICES ASSUME Orderly' PROVE \E q \in Peers : Ahead(q, Other(q))'
  BY DEF TurnsInv, Ahead, Expected
<1>1. TypeOK /\ Orderly
  BY EncryptOrderly DEF IInv
<1>2. PICK q \in Peers : Ahead(q, Other(q))
  BY <1>1 DEF IInv, TurnsInv
<1>3. \A r \in Peers : dr'[r].self = dr[r].self /\ dr'[r].root = dr[r].root /\ dr'[r].remote = dr[r].remote
  BY <1>1, EncryptKeeps, SentByEncrypt
<1>4. Other(q) \in Peers
  BY OtherPeer
<1>5. Ahead(q, Other(q))'
  BY <1>2, <1>3, <1>4 DEF Ahead, Expected
<1> QED
  BY <1>5

\* What p has passed without opening it is a finite set.
LEMMA LostFinite ==
  ASSUME TypeOK, NEW p \in Peers, NEW d
  PROVE  IsFiniteSet(Lost(p, d)) /\ Cardinality(Lost(p, d)) \in Nat
<1>1. Len(sent[Other(p)]) \in Nat
  BY OtherPeer DEF TypeOK
<1>2. IsFiniteSet(1..Len(sent[Other(p)]))
  BY <1>1, FS_Interval
<1>3. Lost(p, d) \subseteq 1..Len(sent[Other(p)])
  BY DEF Lost
<1> QED
  BY <1>2, <1>3, FS_Subset, FS_CardinalityType

\* A message more in the stream of the other peer changes nothing for p: it is
\* beyond what p has passed.
LEMMA EncryptMatches ==
  ASSUME IInv, TypeOK', NEW p \in Peers, NEW q \in Peers, q # p, Encrypt(p),
         Matches(q, dr[q])
  PROVE  Matches(q, dr[q])'
<1> DEFINE d == dr[q]
           s == Stream(p)
           t == Stream(p)'
           N == Len(s)
           M == Len(sent[p])
<1>1. TypeOK /\ InOrder(s) /\ Other(q) = p
  BY OtherPeer DEF IInv, StreamInv
<1>2. /\ N \in Nat /\ N = Len(sent'[p]) /\ Len(t) = N + 1
      /\ \A i \in 1..N : t[i] = s[i] /\ sent'[p][i] = s[i]
      /\ s[N].dh = dr[p].self
      /\ s[N].key = dr[p].send
      /\ t[N + 1].dh = dr[p].self
      /\ t[N + 1].key.chain = dr[p].send.chain
  BY <1>1, EncryptStreams
<1>3. /\ got' = got /\ d \in Ratchets /\ d.recv.n \in Nat /\ d.skippedCount \in Nat
      /\ dr'[q] = dr[q]
  BY <1>1, SentByEncrypt, EncryptFields DEF TypeOK, Ratchets, MessageKeys
<1>4. /\ N = M + 1 /\ M \in Nat /\ \A i \in 1..M : sent[p][i] = s[i] /\ s[i].n \in Nat
      /\ s[N].n \in Nat
  <2>1. StreamIs
    BY <1>1, StreamFields
  <2>2. /\ N = M + 1 /\ M \in Nat /\ \A i \in 1..M : sent[p][i] = s[i]
        /\ s \in Seq(Sent)
    BY <2>1 DEF StreamIs, Sent
  <2>3. ASSUME NEW i \in 1..N PROVE s[i].n \in Nat
    <3>1. s[i] \in Sent
      BY <2>2, ElementOfSeq
    <3> QED
      BY <3>1 DEF Sent
  <2>4. N \in 1..N /\ \A i \in 1..M : i \in 1..N
    BY <2>2
  <2> QED
    BY <2>2, <2>3, <2>4
<1>5. /\ \A i \in 1..N : s[i].dh = d.remote => s[i].key.chain = d.recv.chain
      /\ d.recv.n > 0 => \E i \in 1..M : /\ sent[p][i].dh = d.remote
                                         /\ sent[p][i].n = d.recv.n - 1
      /\ \A i \in 1..M :
           /\ sent[p][i].dh = d.remote /\ sent[p][i].n < d.recv.n =>
                Read(q, i) \/ sent[p][i].key \in d.skipped
           /\ Read(q, i) => Past(d, sent[p][i])
      /\ d.skippedCount <= Cardinality(Lost(q, d))
  BY <1>1 DEF Matches
<1>6. \A i : Read(q, i)' = Read(q, i)
  BY <1>3 DEF Read
<1>7. ~Read(q, N)
  <2>1. \A k \in 1..Len(got[q]) : got[q][k].i \in 1..M
    BY <1>1 DEF IInv, SpentInv
  <2> QED
    BY <1>4, <2>1 DEF Read
<1>8. s[N].dh = d.remote => ~(s[N].n < d.recv.n)
  <2> SUFFICES ASSUME s[N].dh = d.remote, s[N].n < d.recv.n PROVE FALSE
    OBVIOUS
  <2>1. PICK w \in 1..M : sent[p][w].dh = d.remote /\ sent[p][w].n = d.recv.n - 1
    BY <1>3, <1>4, <1>5
  <2>2. s[w].dh = s[N].dh /\ s[w].n = d.recv.n - 1 /\ w \in 1..N /\ N \in 1..N
    BY <1>4, <2>1
  <2>3. N - w = s[N].n - s[w].n
    BY <1>1, <2>2 DEF InOrder
  <2>4. N - w >= 1
    BY <1>4, <2>1
  <2>5. s[N].n \in Nat /\ d.recv.n \in Nat
    BY <1>3, <1>4
  <2> HIDE DEF s, t, N, M, d
  <2>6. s[N].n - (d.recv.n - 1) >= 1
    BY <2>2, <2>3, <2>4
  <2> QED
    BY <2>5, <2>6
<1> HIDE DEF s, t, N, M, d
<1>9. ASSUME NEW i \in 1..(N + 1), t[i].dh = d.remote PROVE t[i].key.chain = d.recv.chain
  <2>1. CASE i \in 1..N
    BY <1>2, <1>5, <1>9, <2>1
  <2>2. CASE i = N + 1
    <3>1. N \in 1..N
      BY <1>4
    <3> QED
      BY <1>2, <1>5, <1>9, <2>2, <3>1
  <2> QED
    BY <1>2, <2>1, <2>2
<1>10. d.recv.n > 0 => \E i \in 1..N : sent'[p][i].dh = d.remote /\ sent'[p][i].n = d.recv.n - 1
  <2>1. \A i \in 1..M : i \in 1..N /\ sent'[p][i] = sent[p][i]
    BY <1>2, <1>4
  <2> QED
    BY <1>5, <2>1
<1>11. ASSUME NEW i \in 1..N
       PROVE  /\ sent'[p][i].dh = d.remote /\ sent'[p][i].n < d.recv.n =>
                   Read(q, i) \/ sent'[p][i].key \in d.skipped
              /\ Read(q, i) => Past(d, sent'[p][i])
  <2>1. CASE i \in 1..M
    BY <1>2, <1>4, <1>5, <2>1
  <2>2. CASE i = N
    BY <1>2, <1>7, <1>8, <2>2
  <2> QED
    BY <1>4, <2>1, <2>2
<1>12. d.skippedCount <= Cardinality(Lost(q, d)')
  <2>0. d' = d
    BY <1>3 DEF d
  <2>1. IsFiniteSet(Lost(q, d)')
    <3>1. IsFiniteSet(1..N)
      BY <1>2, FS_Interval
    <3>2. Lost(q, d)' \subseteq 1..N
      BY <1>1, <1>2 DEF Lost
    <3> QED
      BY <3>1, <3>2, FS_Subset
  <2>2. Lost(q, d) \subseteq Lost(q, d)'
    <3>1. ASSUME NEW i \in Lost(q, d) PROVE i \in Lost(q, d)'
      <4>1. i \in 1..M /\ Past(d, sent[p][i]) /\ ~Read(q, i)
        BY <1>1, <3>1 DEF Lost, M
      <4>2. i \in 1..N /\ sent'[p][i] = sent[p][i]
        BY <1>2, <1>4, <4>1
      <4> QED
        BY <1>1, <1>2, <1>6, <2>0, <4>1, <4>2 DEF Lost, Past
    <3> QED
      BY <3>1
  <2>3. Cardinality(Lost(q, d)) <= Cardinality(Lost(q, d)') /\ Cardinality(Lost(q, d)) \in Nat
        /\ Cardinality(Lost(q, d)') \in Nat
    BY <1>1, <2>1, <2>2, FS_Subset, FS_CardinalityType, LostFinite
  <2> QED
    BY <1>3, <1>5, <2>3
<1>13. d' = d /\ d = dr[q]
  BY <1>3 DEF d
<1>14. Matches(q, d)'
  BY <1>1, <1>2, <1>6, <1>9, <1>10, <1>11, <1>12, <1>13 DEF Matches, Past, t
<1> QED
  BY <1>14 DEF d

\* Encrypt leaves p's own receiving side as it is.
LEMMA EncryptMatchesOwn ==
  ASSUME IInv, TypeOK', NEW p \in Peers, Encrypt(p), Matches(p, dr[p])
  PROVE  Matches(p, dr[p])'
<1> DEFINE q == Other(p)
<1>1. TypeOK /\ q \in Peers /\ q # p
  BY OtherPeer DEF IInv
<1>2. sent'[q] = sent[q] /\ got' = got /\ Stream(q)' = Stream(q)
  BY <1>1, SentByEncrypt, EncryptFields, EncryptStreams
<1>3. /\ dr'[p].remote = dr[p].remote /\ dr'[p].recv = dr[p].recv
      /\ dr'[p].skipped = dr[p].skipped /\ dr'[p].skippedCount = dr[p].skippedCount
  <2>1. dr'[p].skippedCount = dr[p].skippedCount
    BY <1>1, EncryptFields DEF TypeOK, Ratchets
  <2> QED
    BY <1>1, <2>1, EncryptKeeps
<1>4. \A i : Read(p, i)' = Read(p, i)
  BY <1>2 DEF Read
<1>5. \A m : Past(dr[p], m)' <=> Past(dr[p], m)
  BY <1>3 DEF Past
<1>6. Lost(p, dr[p])' = Lost(p, dr[p])
  BY <1>2, <1>4, <1>5 DEF Lost
<1> QED
  BY <1>2, <1>3, <1>4, <1>5, <1>6 DEF Matches

\* Encrypt leaves every delivery as it was.
LEMMA EncryptDelivers ==
  ASSUME IInv, TypeOK', NEW p \in Peers, Encrypt(p)
  PROVE  DeliveryInv'
<1>1. CASE ~Orderly'
  BY <1>1 DEF DeliveryInv
<1>2. CASE Orderly'
  <2>1. TypeOK /\ Orderly /\ Opens /\ SpentInv
    BY <1>2, EncryptOrderly DEF IInv, DeliveryInv
  <2>2. /\ got' = got /\ \A q \in Peers : dr'[q].remote = dr[q].remote /\ dr'[q].stepNeeded = dr[q].stepNeeded
    BY <2>1, EncryptKeeps, EncryptFields, SentByEncrypt
  <2>3. \A q \in Peers : Receiving(q)' = Receiving(q)
    BY <2>2 DEF Receiving
  <2>4. Opens'
    <3>1. ASSUME NEW q \in Peers, NEW k PROVE Missing(q, k)' = Missing(q, k)
      BY <2>2 DEF Missing
    <3>2. Opens' <=> \A q \in Peers : \A k \in DOMAIN got[q] :
                       got[q][k].ok \/ Cardinality(Missing(q, k)') > MaxSkip
      BY <2>2 DEF Opens
    <3> QED
      BY <2>1, <3>1, <3>2 DEF Opens
  <2>5. ASSUME NEW q \in Peers, Receiving(q)'
        PROVE  /\ Matches(q, dr[q])'
               /\ (\E k \in 1..Len(got[q]) : Message(q, k).dh = dr[q].remote)'
    <3>1. Matches(q, dr[q]) /\ \E k \in 1..Len(got[q]) : Message(q, k).dh = dr[q].remote
      BY <2>1, <2>3, <2>5 DEF IInv, DeliveryInv
    <3>2. Matches(q, dr[q])'
      BY <2>5, <3>1, EncryptMatches, EncryptMatchesOwn
    <3>3. PICK k \in 1..Len(got[q]) : Message(q, k).dh = dr[q].remote
      BY <3>1
    <3>4. Message(q, k)' = Message(q, k)
      <4>1. got[q][k].i \in 1..Len(sent[Other(q)]) /\ Other(q) \in Peers
        BY <2>1, OtherPeer DEF SpentInv
      <4>2. sent'[Other(q)][got[q][k].i] = sent[Other(q)][got[q][k].i]
        BY <2>1, <4>1, SentByEncrypt
      <4> QED
        BY <2>2, <4>2 DEF Message
    <3>5. (\E l \in 1..Len(got[q]) : Message(q, l).dh = dr[q].remote)'
      BY <2>2, <3>3, <3>4
    <3> QED
      BY <3>2, <3>5
  <2> QED
    BY <2>4, <2>5 DEF DeliveryInv
<1> QED
  BY <1>1, <1>2

\* The four ways of Decrypt with message m, from state d of the ratchet, when
\* it has looked at the header, to state e.
Refused(d, m, e, ok) == TooFar(d, m.n) /\ ~ok /\ e = d

Passing(d, m, e, ok) ==
  /\ m.n >= d.recv.n
  /\ ok <=> m.key = [chain |-> d.recv.chain, n |-> m.n]
  /\ e.recv.n = m.n + 1
  /\ e.skipped = {k \in d.skipped : k.n \notin d.recv.n..(m.n - 1)}
                   \cup {[chain |-> d.recv.chain, n |-> i] : i \in d.recv.n..(m.n - 1)}
  /\ e.skippedCount = d.skippedCount + (m.n - d.recv.n)

Kept(d, m, e, ok) ==
  /\ m.n < d.recv.n
  /\ \E key \in d.skipped :
       /\ key.n = m.n /\ (ok <=> m.key = key)
       /\ e.recv = d.recv /\ e.skipped = d.skipped \ {key} /\ e.skippedCount = d.skippedCount - 1

Unknown(d, m, e, ok) == m.n < d.recv.n /\ (\A key \in d.skipped : key.n # m.n) /\ ~ok /\ e = d

Ways(d, m, e, ok) ==
  Refused(d, m, e, ok) \/ Passing(d, m, e, ok) \/ Kept(d, m, e, ok) \/ Unknown(d, m, e, ok)

\* Decrypt has an outcome, and gets to it in one of the four ways.
LEMMA DecryptWays ==
  ASSUME TypeOK, SkipInv, NEW p \in Peers, NEW i, Decrypt(p, i)
  PROVE  \E ok \in BOOLEAN :
           LET m == sent[Other(p)][i]
               d == Turned(p, m)
               e == dr'[p]
           IN Outcome(p, i, ok) /\ Ways(d, m, e, ok)
<1> DEFINE m == sent[Other(p)][i]
           d == Turned(p, m)
           e == dr'[p]
<1>1. PICK ok \in BOOLEAN : Outcome(p, i, ok)
  BY DecryptOutcome
<1>2. /\ i \in 1..Len(sent[Other(p)])
      /\ got' = [got EXCEPT ![p] = Append(@, [i |-> i, ok |-> ok])]
  BY <1>1 DEF Outcome
<1>3. /\ m \in Sent /\ m.n \in Nat
  <2>1. sent[Other(p)] \in Seq(Sent)
    BY OtherPeer DEF TypeOK, Sent
  <2>2. m \in Sent
    BY <1>2, <2>1, ElementOfSeq
  <2> QED
    BY <2>2 DEF Sent
<1>4. d \in Ratchets
  BY <1>3, TurnedFields DEF Sent
<1>5. d.recv.n \in Nat /\ d.skippedCount \in Nat
  BY <1>4 DEF Ratchets, MessageKeys
<1> HIDE DEF m, d
<1>6. ASSUME NEW e2, NEW ok2 \in BOOLEAN, Opened(p, i, e2, ok2) PROVE dr'[p] = e2 /\ ok = ok2
  <2>1. dr'[p] = e2
    BY <1>6 DEF Opened, TypeOK
  <2>2. got'[p] = Append(got[p], [i |-> i, ok |-> ok2]) /\ got'[p] = Append(got[p], [i |-> i, ok |-> ok])
    BY <1>2, <1>6 DEF Opened, TypeOK
  <2>3. got[p] \in Seq([i : Nat, ok : BOOLEAN]) /\ i \in Nat
    BY <1>2 DEF TypeOK
  <2>4. /\ got'[p][Len(got[p]) + 1] = [i |-> i, ok |-> ok]
        /\ got'[p][Len(got[p]) + 1] = [i |-> i, ok |-> ok2]
    BY <2>2, <2>3, AppendProperties
  <2>5. [i |-> i, ok |-> ok].ok = [i |-> i, ok |-> ok2].ok
    BY <2>4
  <2> QED
    BY <2>1, <2>5
<1>7. CASE DecryptTooFar(p, i)
  <2>1. TooFar(d, m.n) /\ Opened(p, i, d, FALSE)
    BY <1>7 DEF DecryptTooFar, m, d
  <2>2. dr'[p] = d /\ ok = FALSE
    BY <1>6, <2>1
  <2>3. Refused(d, m, dr'[p], ok)
    BY <2>1, <2>2 DEF Refused
  <2> QED
    BY <1>1, <2>3 DEF m, d, Ways
<1>8. CASE DecryptNext(p, i)
  <2> DEFINE s == SkippedTo(d, m.n)
             e2 == [s EXCEPT !.recv.n = @ + 1]
             ok2 == m.key = s.recv
  <2>1. m.n >= d.recv.n /\ Opened(p, i, e2, ok2)
    BY <1>8 DEF DecryptNext, m, d
  <2>2. /\ s \in Ratchets
        /\ s.recv = [chain |-> d.recv.chain, n |-> m.n]
        /\ s.skipped = {k \in d.skipped : k.n \notin d.recv.n..(m.n - 1)}
                        \cup {[chain |-> d.recv.chain, n |-> j] : j \in d.recv.n..(m.n - 1)}
        /\ s.skippedCount = d.skippedCount + (m.n - d.recv.n)
    BY <1>3, <1>4, <2>1, SkippedToFields
  <2> HIDE DEF s
  <2>3. e2.skipped = s.skipped /\ e2.skippedCount = s.skippedCount
    BY <2>2 DEF Ratchets
  <2>4. e2.recv.n = m.n + 1
    BY <2>2 DEF Ratchets
  <2>5. ok2 \in BOOLEAN /\ (ok2 <=> m.key = [chain |-> d.recv.chain, n |-> m.n])
    BY <2>2
  <2> HIDE DEF e2, ok2
  <2>6. dr'[p] = e2 /\ ok = ok2
    BY <1>6, <2>1, <2>5
  <2>7. Passing(d, m, dr'[p], ok)
    BY <2>1, <2>2, <2>3, <2>4, <2>5, <2>6 DEF Passing
  <2> QED
    BY <1>1, <2>7 DEF m, d, Ways
<1>9. CASE DecryptSkipped(p, i)
  <2>1. PICK key \in d.skipped :
          /\ Skipped(d, m, key)
          /\ Opened(p, i, [d EXCEPT !.skipped = @ \ {key}, !.skippedCount = @ - 1], m.key = key)
    BY <1>9 DEF DecryptSkipped, m, d
  <2> DEFINE e2 == [d EXCEPT !.skipped = @ \ {key}, !.skippedCount = @ - 1]
             ok2 == m.key = key
  <2>2. ok2 \in BOOLEAN
    OBVIOUS
  <2>3. dr'[p] = e2 /\ ok = ok2
    BY <1>6, <2>1, <2>2
  <2>4. e2.recv = d.recv /\ e2.skipped = d.skipped \ {key} /\ e2.skippedCount = d.skippedCount - 1
    BY <1>4 DEF Ratchets
  <2> HIDE DEF e2
  <2>5. Kept(d, m, dr'[p], ok)
    BY <2>1, <2>3, <2>4 DEF Kept, Skipped
  <2> QED
    BY <1>1, <2>5 DEF m, d, Ways
<1>10. CASE DecryptUnknown(p, i)
  <2>1. m.n < d.recv.n /\ (\A key \in d.skipped : key.n # m.n) /\ Opened(p, i, d, FALSE)
    BY <1>10 DEF DecryptUnknown, m, d
  <2>2. dr'[p] = d /\ ok = FALSE
    BY <1>6, <2>1
  <2>3. Unknown(d, m, dr'[p], ok)
    BY <2>1, <2>2 DEF Unknown
  <2> QED
    BY <1>1, <2>3 DEF m, d, Ways
<1> QED
  BY <1>7, <1>8, <1>9, <1>10 DEF Decrypt

\* What an outcome of Decrypt leaves as it was, and what it adds.
LEMMA OutcomeFrame ==
  ASSUME TypeOK, NEW p \in Peers, NEW i, NEW ok \in BOOLEAN, Outcome(p, i, ok)
  PROVE  LET q == Other(p)
             m == sent[q][i]
             last == Len(got[p]) + 1
         IN /\ q \in Peers /\ q # p /\ Other(q) = p /\ dr[p] \in Ratchets
            /\ i \in 1..Len(sent[q]) /\ i \in Nat
            /\ m \in Sent /\ m.dh \in Pairs /\ m.dh.i \in Nat /\ m.n \in Nat /\ m.key \in MessageKeys
            /\ sent' = sent
            /\ Len(got[p]) \in Nat /\ Len(got'[p]) = last
            /\ \A k \in 1..Len(got[p]) : got'[p][k] = got[p][k]
            /\ got'[p][last].i = i /\ got'[p][last].ok = ok
            /\ \A k \in 1..last : k \in 1..Len(got[p]) \/ k = last
            /\ got'[q] = got[q] /\ dr'[q] = dr[q]
            /\ DOMAIN got[p] = 1..Len(got[p]) /\ DOMAIN got'[p] = 1..last
<1> DEFINE q == Other(p)
           m == sent[q][i]
           last == Len(got[p]) + 1
<1>1. q \in Peers /\ q # p /\ Other(q) = p /\ dr[p] \in Ratchets
  BY OtherPeer DEF TypeOK
<1>2. /\ i \in 1..Len(sent[q]) /\ sent' = sent /\ dr' = [dr EXCEPT ![p] = dr'[p]]
      /\ got' = [got EXCEPT ![p] = Append(@, [i |-> i, ok |-> ok])]
  BY DEF Outcome
<1>3. sent[q] \in Seq(Sent) /\ got[p] \in Seq([i : Nat, ok : BOOLEAN]) /\ i \in Nat
  <2>1. sent[q] \in Seq(Sent) /\ got[p] \in Seq([i : Nat, ok : BOOLEAN])
    BY <1>1 DEF TypeOK, Sent
  <2> QED
    BY <1>2, <2>1
<1>4. m \in Sent
  BY <1>2, <1>3, ElementOfSeq
<1>5. m.dh \in Pairs /\ m.dh.i \in Nat /\ m.n \in Nat /\ m.key \in MessageKeys
  BY <1>4 DEF Sent, Pairs
<1>6. got'[p] = Append(got[p], [i |-> i, ok |-> ok]) /\ got'[q] = got[q] /\ dr'[q] = dr[q]
  BY <1>1, <1>2 DEF TypeOK
<1>7. /\ Len(got[p]) \in Nat /\ Len(got'[p]) = last
      /\ \A k \in 1..Len(got[p]) : got'[p][k] = got[p][k]
      /\ got'[p][last] = [i |-> i, ok |-> ok]
      /\ DOMAIN got[p] = 1..Len(got[p]) /\ DOMAIN got'[p] = 1..last
  BY <1>3, <1>6, AppendProperties
<1>8. \A k \in 1..last : k \in 1..Len(got[p]) \/ k = last
  BY <1>7
<1> QED
  BY <1>1, <1>2, <1>3, <1>4, <1>5, <1>6, <1>7, <1>8

\* Two pairs of one owner and one number are one pair.
LEMMA PairIs ==
  ASSUME NEW k \in Pairs, NEW l \in Pairs, k.owner = l.owner, k.i = l.i
  PROVE  k = l
BY DEF Pairs

\* In an orderly network a message is of the other's last chain, new to p, when
\* the other peer is ahead, or of the chain p receives.
LEMMA Arrival ==
  ASSUME IInv, TypeOK', NEW p \in Peers, NEW i, NEW ok \in BOOLEAN, Outcome(p, i, ok), Orderly'
  PROVE  LET q == Other(p)
             m == sent[q][i]
             d == Turned(p, m)
         IN /\ Orderly /\ ~Read(p, i)
            /\ \/ d = dr[p] /\ Receiving(p) /\ m.dh = dr[p].remote
               \/ Ahead(q, p) /\ m.dh = dr[q].self /\ d = Ratcheted(dr[p], m.dh)
<1> DEFINE q == Other(p)
           m == sent[q][i]
           d == Turned(p, m)
           last == Len(got[p]) + 1
<1>1. TypeOK /\ SentInv /\ SpentInv /\ HeadersInv /\ TurnsInv /\ DeliveryInv
  BY DEF IInv
<1>2. /\ q \in Peers /\ q # p /\ i \in 1..Len(sent[q]) /\ i \in Nat
      /\ m \in Sent /\ m.dh \in Pairs /\ m.dh.i \in Nat
      /\ sent' = sent
      /\ Len(got[p]) \in Nat /\ Len(got'[p]) = last
      /\ \A k \in 1..Len(got[p]) : got'[p][k] = got[p][k]
      /\ got'[p][last].i = i
      /\ got'[q] = got[q]
      /\ DOMAIN got[p] = 1..Len(got[p]) /\ DOMAIN got'[p] = 1..last
  BY <1>1, OutcomeFrame
<1>3. Other(q) = p /\ \A r \in Peers : r = p \/ r = q
  BY OtherPeer
<1>4. Orderly
  <2>1. ASSUME NEW r \in Peers
        PROVE  /\ Len(sent[r]) <= Len(sent'[r]) /\ Len(got[r]) <= Len(got'[r])
               /\ \A j \in 1..Len(sent[r]) : sent'[r][j] = sent[r][j]
               /\ \A k \in 1..Len(got[r]) : got'[r][k] = got[r][k]
    <3>1. Len(sent[r]) \in Nat /\ Len(got[r]) \in Nat
      BY <1>1, LenProperties DEF TypeOK
    <3> QED
      BY <1>2, <1>3, <3>1
  <2> QED
    BY <1>1, <2>1, OrderlyBefore
<1>5. /\ m.dh.owner = q /\ m.dh.i <= dr[q].self.i
      /\ dr[q].self \in Pairs /\ dr[q].self.owner = q /\ dr[q].self.i \in Nat
      /\ dr[p].remote \in Pairs /\ dr[p].remote.i \in Nat
  <2>1. m.dh.owner = q /\ m.dh.i <= dr[q].self.i /\ dr[q].self.owner = q
    BY <1>1, <1>2 DEF SentInv
  <2>2. dr[q].self \in Pairs /\ dr[p].remote \in Pairs
    BY <1>1, <1>2 DEF TypeOK, Ratchets
  <2> QED
    BY <2>1, <2>2 DEF Pairs
<1>6. \A k \in 1..Len(got[p]) : got[p][k].i # i
  <2> SUFFICES ASSUME NEW k \in 1..Len(got[p]), got[p][k].i = i PROVE FALSE
    OBVIOUS
  <2>1. k \in 1..last /\ last \in 1..last /\ k # last
    BY <1>2
  <2>2. got'[p][k].i = got'[p][last].i
    BY <1>2
  <2>3. DeliveredOnce'
    BY DEF Orderly
  <2> HIDE DEF last
  <2> QED
    BY <1>2, <2>1, <2>2, <2>3 DEF DeliveredOnce
<1>7. ~Read(p, i)
  BY <1>6 DEF Read
<1>8. Receiving(p) => dr[p].remote.i <= m.dh.i
  <2> SUFFICES ASSUME Receiving(p) PROVE dr[p].remote.i <= m.dh.i
    OBVIOUS
  <2>1. PICK k \in 1..Len(got[p]) : Message(p, k).dh = dr[p].remote
    BY <1>1, <1>4 DEF DeliveryInv
  <2>2. sent'[q][got'[p][k].i] = Message(p, k) /\ sent'[q][got'[p][last].i] = m
    BY <1>2 DEF Message
  <2>3. k \in DOMAIN got'[p] /\ last \in DOMAIN got'[p] /\ k < last
    BY <1>2
  <2>4. Forward'
    BY DEF Orderly
  <2> HIDE DEF last
  <2>5. sent'[q][got'[p][k].i].dh.i <= sent'[q][got'[p][last].i].dh.i
    BY <2>3, <2>4 DEF Forward, Message
  <2> QED
    BY <2>1, <2>2, <2>5
<1>9. /\ dr[p].remote # NoPair => dr[p].remote.owner = q
      /\ dr[p].stepNeeded => p = "alice" /\ q = "bob" /\ dr[p].remote # NoPair /\ dr[p].remote.i = 0
  BY <1>1, <1>3 DEF HeadersInv, Peers, Other
<1>10. q = "bob" => m.dh.i # 0
  <2> SUFFICES ASSUME q = "bob", m.dh.i = 0 PROVE FALSE
    OBVIOUS
  <2>1. sent["bob"][i].key.chain = ZeroChain
    BY <1>1, <1>2 DEF HeadersInv
  <2>2. i \in DOMAIN sent["bob"]
    BY <1>1, <1>2 DEF TypeOK
  <2> QED
    BY <1>4, <2>1, <2>2 DEF Orderly, Early
<1>11. NoPair.i = 0 /\ NoPair.owner = "nobody" /\ q # "nobody"
  BY <1>2 DEF NoPair, Pair, Peers
<1> HIDE DEF m, d, q
<1>12. Receiving(p) /\ m.dh.i = dr[p].remote.i => m.dh = dr[p].remote /\ d = dr[p]
  <2> SUFFICES ASSUME Receiving(p), m.dh.i = dr[p].remote.i PROVE m.dh = dr[p].remote /\ d = dr[p]
    OBVIOUS
  <2>1. ~dr[p].stepNeeded /\ dr[p].remote # NoPair
    BY DEF Receiving
  <2>2. m.dh = dr[p].remote
    BY <1>2, <1>5, <1>9, <2>1, PairIs
  <2> QED
    BY <2>1, <2>2 DEF Turned, d
<1>13. m.dh.i = dr[q].self.i => m.dh = dr[q].self
  BY <1>2, <1>5, PairIs
<1>14. CASE Ahead(p, q)
  <2>1. dr[p].remote = dr[q].self
    BY <1>14 DEF Ahead
  <2>2. Receiving(p)
    <3>1. dr[p].remote # NoPair
      BY <1>5, <1>11, <2>1
    <3>2. ASSUME dr[p].stepNeeded PROVE FALSE
      BY <1>2, <1>5, <1>9, <1>10, <2>1, <3>2
    <3> QED
      BY <3>1, <3>2 DEF Receiving
  <2>3. m.dh.i = dr[p].remote.i
    BY <1>2, <1>5, <1>8, <2>1, <2>2
  <2> QED
    BY <1>4, <1>7, <1>12, <2>2, <2>3 DEF m, d, q
<1>15. CASE Ahead(q, p)
  <2>1. dr[q].self.i = Expected(p)
    BY <1>15 DEF Ahead
  <2>2. CASE Receiving(p) /\ m.dh.i = dr[p].remote.i
    BY <1>4, <1>7, <1>12, <2>2 DEF m, d, q
  <2>3. CASE ~(Receiving(p) /\ m.dh.i = dr[p].remote.i)
    <3>1. m.dh.i = dr[q].self.i /\ (dr[p].stepNeeded \/ dr[p].remote # m.dh)
      <4>1. CASE Receiving(p)
        <5>1. dr[p].remote # NoPair /\ Expected(p) = dr[p].remote.i + 1
          BY <4>1 DEF Receiving, Expected
        <5>2. dr[p].remote.i <= m.dh.i /\ m.dh.i <= dr[p].remote.i + 1 /\ m.dh.i # dr[p].remote.i
          BY <1>5, <1>8, <2>1, <2>3, <4>1, <5>1
        <5>3. m.dh.i = dr[q].self.i
          BY <1>2, <1>5, <2>1, <5>1, <5>2
        <5> QED
          BY <5>2, <5>3
      <4>2. CASE dr[p].remote = NoPair
        <5>1. dr[q].self.i = 0
          BY <2>1, <4>2 DEF Expected
        <5> QED
          BY <1>2, <1>5, <1>11, <4>2, <5>1
      <4>3. CASE dr[p].stepNeeded
        <5>1. dr[q].self.i = 1
          BY <1>9, <2>1, <4>3 DEF Expected
        <5> QED
          BY <1>2, <1>5, <1>9, <1>10, <4>3, <5>1
      <4> QED
        BY <4>1, <4>2, <4>3 DEF Receiving
    <3>2. d = Ratcheted(dr[p], m.dh)
      BY <3>1 DEF d, Turned
    <3> QED
      BY <1>4, <1>7, <1>13, <1>15, <3>1, <3>2 DEF m, d, q
  <2> QED
    BY <2>2, <2>3
<1>16. Ahead(p, q) \/ Ahead(q, p)
  <2>1. PICK r \in Peers : Ahead(r, Other(r))
    BY <1>1, <1>4 DEF TurnsInv
  <2> QED
    BY <1>3, <2>1 DEF q
<1> QED
  BY <1>14, <1>15, <1>16

\* After Decrypt p receives, and its pair and sending chain are as they were or
\* those of a ratchet step.
LEMMA OutcomeFields ==
  ASSUME IInv, NEW p \in Peers, NEW i, NEW ok \in BOOLEAN, Outcome(p, i, ok)
  PROVE  LET q == Other(p)
             m == sent[q][i]
             d == Turned(p, m)
             e == dr'[p]
         IN /\ d \in Ratchets /\ e \in Ratchets
            /\ m.dh.owner = q
            /\ e.root = d.root /\ e.self = d.self /\ e.remote = d.remote /\ e.send = d.send
            /\ e.stepNeeded = d.stepNeeded /\ e.recv.chain = d.recv.chain
            /\ d.skipped = dr[p].skipped /\ d.skippedCount = dr[p].skippedCount
            /\ ~e.stepNeeded /\ e.remote # NoPair /\ Receiving(p)'
            /\ d = dr[p] \/ d = Ratcheted(dr[p], m.dh)
<1> DEFINE q == Other(p)
           m == sent[q][i]
           d == Turned(p, m)
           e == dr'[p]
<1>1. TypeOK /\ SentInv /\ SpentInv
  BY DEF IInv
<1>2. q \in Peers /\ i \in 1..Len(sent[q]) /\ m \in Sent
  BY <1>1, OutcomeFrame
<1>3. /\ e \in Ratchets
      /\ e.root = d.root /\ e.self = d.self /\ e.remote = d.remote /\ e.send = d.send
      /\ e.stepNeeded = d.stepNeeded /\ e.recv.chain = d.recv.chain
  BY DEF Outcome
<1>4. /\ d \in Ratchets
      /\ d.skipped = dr[p].skipped /\ d.skippedCount = dr[p].skippedCount
      /\ d = dr[p] \/ d = Ratcheted(dr[p], m.dh)
  BY <1>1, <1>2, TurnedFields DEF Sent
<1>5. ~d.stepNeeded /\ d.remote # NoPair
  BY <1>1, <1>2, TurnedBehind
<1>6. m.dh.owner = q
  BY <1>1, <1>2 DEF SentInv
<1>7. Receiving(p)'
  BY <1>3, <1>5 DEF Receiving
<1> QED
  BY <1>3, <1>4, <1>5, <1>6, <1>7

\* Decrypt keeps the streams in order: a ratchet step begins a new chain.
LEMMA DecryptStreams ==
  ASSUME IInv, TypeOK', NEW p \in Peers, NEW i, NEW ok \in BOOLEAN, Outcome(p, i, ok)
  PROVE  StreamInv' /\ Stream(Other(p))' = Stream(Other(p))
<1> DEFINE q == Other(p)
           m == sent[q][i]
           s == Stream(p)
           t == Stream(p)'
           N == Len(s)
<1>1. TypeOK /\ StreamInv /\ \A r \in Peers : r = p \/ r = q
  BY OtherPeer DEF IInv
<1>2. StreamIs /\ StreamIs'
  <2>1. StreamIs'
    BY StreamFields, PTL
  <2> QED
    BY <1>1, <2>1, StreamFields
<1>3. /\ q \in Peers /\ q # p /\ sent' = sent /\ dr'[q] = dr[q] /\ m \in Sent /\ m.dh \in Pairs
      /\ dr[p] \in Ratchets
  BY <1>1, OutcomeFrame
<1>4. Stream(q)' = Stream(q)
  BY <1>3 DEF Stream
<1>5. /\ s \in Seq(Sent) /\ t \in Seq(Sent) /\ InOrder(s)
  <2>1. s \in Seq(Sent)
    BY <1>2 DEF StreamIs, Sent
  <2>2. t \in Seq(Sent)
    BY <1>2 DEF StreamIs, Sent
  <2> QED
    BY <1>1, <2>1, <2>2 DEF StreamInv
<1>6. /\ Len(sent[p]) \in Nat /\ N = Len(sent[p]) + 1 /\ Len(t) = N
      /\ \A j \in 1..Len(sent[p]) : t[j] = s[j]
      /\ s[N] = Sealed(p)
      /\ t[N] = Sealed(p)'
  BY <1>2, <1>3 DEF StreamIs
<1>7. InOrder(t)
  <2>1. CASE Turned(p, m) = dr[p]
    <3>1. dr'[p].self = dr[p].self /\ dr'[p].send = dr[p].send
      BY <2>1, OutcomeFields
    <3>2. t = s
      BY <1>3, <3>1 DEF Stream
    <3> QED
      BY <1>5, <3>2
  <2>2. CASE Turned(p, m) = Ratcheted(dr[p], m.dh)
    <3>1. LET e == Ratcheted(dr[p], m.dh)
          IN /\ NextPair(dr[p].self).i = dr[p].self.i + 1 /\ e.self = NextPair(dr[p].self)
             /\ e.send.n = 0
      BY <1>3, RatchetedFields
    <3>2. dr'[p].self.i = dr[p].self.i + 1 /\ dr'[p].send.n = 0
      BY <2>2, <3>1, OutcomeFields
    <3>3. s[N].dh.i = dr[p].self.i /\ t[N].dh.i = dr[p].self.i + 1 /\ t[N].n = 0 /\ t[N].key.n = 0
      BY <1>6, <3>2 DEF Sealed
    <3>4. N >= 1 /\ \A j \in 1..(N - 1) : t[j] = s[j]
      BY <1>6
    <3> HIDE DEF s, t
    <3> QED
      BY <1>5, <1>6, <3>3, <3>4, NewInOrder
  <2> QED
    BY <2>1, <2>2, OutcomeFields
<1>8. ASSUME NEW r \in Peers PROVE InOrder(Stream(r)')
  BY <1>1, <1>4, <1>7 DEF StreamInv
<1> QED
  BY <1>4, <1>8 DEF StreamInv, InOrder

\* Decrypt keeps what the ratchets know of one another, and one key of the list
\* to a number.
LEMMA DecryptHeaders ==
  ASSUME IInv, TypeOK', NEW p \in Peers, NEW i, NEW ok \in BOOLEAN, Outcome(p, i, ok),
         Ways(Turned(p, sent[Other(p)][i]), sent[Other(p)][i], dr'[p], ok)
  PROVE  HeadersInv'
<1> DEFINE q == Other(p)
           m == sent[q][i]
           d == Turned(p, m)
           e == dr'[p]
<1>1. TypeOK /\ HeadersInv /\ \A r \in Peers : r = p \/ r = q
  BY OtherPeer DEF IInv
<1>2. /\ q \in Peers /\ q # p /\ sent' = sent /\ dr'[q] = dr[q] /\ got'[q] = got[q] /\ m \in Sent
      /\ m.dh \in Pairs /\ m.n \in Nat /\ dr[p] \in Ratchets
  BY <1>1, OutcomeFrame
<1>3. /\ d \in Ratchets
      /\ m.dh.owner = q
      /\ e.root = d.root /\ e.self = d.self /\ e.remote = d.remote /\ e.send = d.send
      /\ e.stepNeeded = d.stepNeeded
      /\ d.skipped = dr[p].skipped
      /\ ~e.stepNeeded /\ e.remote # NoPair /\ Receiving(p)'
      /\ d = dr[p] \/ d = Ratcheted(dr[p], m.dh)
  BY OutcomeFields
<1>4. Ways(d, m, e, ok)
  OBVIOUS
<1>5. d.recv.n \in Nat /\ d.skipped \subseteq MessageKeys /\ d.recv.chain \in RootKeys
  BY <1>3 DEF Ratchets, MessageKeys
<1> HIDE DEF m, d, e
<1>6. \A k, l \in e.skipped : k.n = l.n => k = l
  <2>0. \A k, l \in d.skipped : k.n = l.n => k = l
    BY <1>1, <1>3 DEF HeadersInv
  <2>1. CASE Refused(d, m, e, ok) \/ Unknown(d, m, e, ok)
    BY <2>0, <2>1 DEF Refused, Unknown
  <2>2. CASE Kept(d, m, e, ok)
    BY <2>0, <2>2 DEF Kept
  <2>3. CASE Passing(d, m, e, ok)
    <3>1. ASSUME NEW k \in e.skipped
          PROVE  \/ k \in d.skipped /\ k.n \notin d.recv.n..(m.n - 1)
                 \/ k.n \in d.recv.n..(m.n - 1) /\ k = [chain |-> d.recv.chain, n |-> k.n]
      BY <2>3, <3>1 DEF Passing
    <3> QED
      BY <2>0, <3>1
  <2> QED
    BY <1>4, <2>1, <2>2, <2>3 DEF Ways
<1>7. /\ e.remote.owner = q
      /\ e.send.chain = IF p = "bob" /\ e.self.i = 0 THEN ZeroChain ELSE e.root
  <2>1. CASE d = dr[p]
    BY <1>1, <1>3, <2>1 DEF HeadersInv
  <2>2. CASE d = Ratcheted(dr[p], m.dh)
    <3>1. LET f == Ratcheted(dr[p], m.dh)
          IN /\ NextPair(dr[p].self).i = dr[p].self.i + 1 /\ f.self = NextPair(dr[p].self)
             /\ f.remote = m.dh /\ f.send.chain = f.root
      BY <1>2, RatchetedFields
    <3>2. dr[p].self.i \in Nat
      BY <1>2 DEF Ratchets, Pairs
    <3>3. e.self.i # 0
      BY <1>3, <2>2, <3>1, <3>2
    <3> QED
      BY <1>3, <2>2, <3>1, <3>3
  <2> QED
    BY <1>3, <2>1, <2>2
<1>8. Receiving(q)' = Receiving(q)
  BY <1>2 DEF Receiving
<1>9. ASSUME NEW r \in Peers
      PROVE  /\ dr'[r].remote # NoPair => dr'[r].remote.owner = Other(r)
             /\ dr'[r].stepNeeded => dr'[r].remote.i = 0
             /\ ~Receiving(r)' => got'[r] = <<>> /\ dr'[r].skippedCount = 0
             /\ \A k, l \in dr'[r].skipped : k.n = l.n => k = l
             /\ dr'[r].send.chain = IF r = "bob" /\ dr'[r].self.i = 0 THEN ZeroChain ELSE dr'[r].root
  <2>1. CASE r = p
    BY <1>3, <1>6, <1>7, <2>1 DEF e
  <2>2. CASE r = q
    BY <1>1, <1>2, <1>8, <2>2 DEF HeadersInv
  <2> QED
    BY <1>1, <2>1, <2>2
<1>10. dr'["alice"].remote # NoPair /\ ~dr'["bob"].stepNeeded
  <2>1. "alice" \in Peers /\ "bob" \in Peers
    BY DEF Peers
  <2>2. dr["alice"].remote # NoPair /\ ~dr["bob"].stepNeeded
    BY <1>1 DEF HeadersInv
  <2> QED
    BY <1>1, <1>2, <1>3, <2>1, <2>2 DEF e
<1>11. \A j \in 1..Len(sent'["bob"]) : sent'["bob"][j].dh.i = 0 => sent'["bob"][j].key.chain = ZeroChain
  BY <1>1, <1>2 DEF HeadersInv
<1> QED
  BY <1>9, <1>10, <1>11 DEF HeadersInv

\* The peers go on in turn: a ratchet step of p takes up the pair of the other
\* peer, which was ahead, and puts p ahead.
LEMMA DecryptTurns ==
  ASSUME IInv, TypeOK', NEW p \in Peers, NEW i, NEW ok \in BOOLEAN, Outcome(p, i, ok)
  PROVE  TurnsInv'
<1> SUFFICES ASSUME Orderly' PROVE \E r \in Peers : Ahead(r, Other(r))'
  BY DEF TurnsInv, Ahead, Expected
<1> DEFINE q == Other(p)
           m == sent[q][i]
           d == Turned(p, m)
           e == dr'[p]
<1>1. TypeOK /\ TurnsInv /\ SentInv
  BY DEF IInv
<1>2. /\ q \in Peers /\ q # p /\ Other(q) = p /\ dr'[q] = dr[q] /\ m.dh \in Pairs /\ dr[p] \in Ratchets
      /\ p # "nobody"
  BY <1>1, OutcomeFrame, OtherPeer
<1>3. e.root = d.root /\ e.self = d.self /\ e.remote = d.remote
  BY OutcomeFields
<1>4. CASE d = dr[p]
  <2>1. PICK r \in Peers : Ahead(r, Other(r))
    BY <1>1, Arrival DEF TurnsInv
  <2>2. \A s \in Peers : dr'[s].self = dr[s].self /\ dr'[s].root = dr[s].root /\ dr'[s].remote = dr[s].remote
    BY <1>2, <1>3, <1>4, OtherPeer
  <2>3. Other(r) \in Peers
    BY OtherPeer
  <2>4. Ahead(r, Other(r))'
    BY <2>1, <2>2, <2>3 DEF Ahead, Expected
  <2> QED
    BY <2>4
<1>5. CASE Ahead(q, p) /\ m.dh = dr[q].self /\ d = Ratcheted(dr[p], m.dh)
  <2>1. /\ dr[q].remote = dr[p].self
        /\ dr[q].root = Append(dr[p].root, Secret(dr[p].self, dr[q].self))
    BY <1>5 DEF Ahead
  <2>2. LET f == Ratcheted(dr[p], m.dh)
        IN /\ NextPair(dr[p].self).i = dr[p].self.i + 1 /\ f.self = NextPair(dr[p].self)
           /\ f.remote = m.dh
           /\ f.root = Append(Append(dr[p].root, Secret(dr[p].self, m.dh)),
                              Secret(NextPair(dr[p].self), m.dh))
    BY <1>2, RatchetedFields
  <2>3. /\ e.self.i = dr[p].self.i + 1 /\ e.remote = dr[q].self
        /\ e.root = Append(Append(dr[p].root, Secret(dr[p].self, dr[q].self)), Secret(e.self, dr[q].self))
    BY <1>3, <1>5, <2>2
  <2>4. dr[p].self # NoPair
    BY <1>1, <1>2 DEF SentInv, NoPair, Pair
  <2>5. e.root = Append(dr[q].root, Secret(dr[q].self, e.self))
    <3>1. Secret(e.self, dr[q].self) = Secret(dr[q].self, e.self)
      BY DEF Secret
    <3> QED
      BY <2>1, <2>3, <3>1
  <2>6. e.self.i = Expected(q)'
    BY <1>2, <2>1, <2>3, <2>4 DEF Expected
  <2>7. Ahead(p, q)'
    BY <1>2, <2>3, <2>5, <2>6 DEF Ahead
  <2> QED
    BY <1>2, <2>7
<1> QED
  BY <1>4, <1>5, Arrival

\* Two sets apart within a third are not larger than it together.
LEMMA TwoParts ==
  ASSUME NEW S, IsFiniteSet(S), NEW A \in SUBSET S, NEW B \in SUBSET S, A \cap B = {}
  PROVE  /\ Cardinality(A) \in Nat /\ Cardinality(B) \in Nat /\ Cardinality(S) \in Nat
         /\ Cardinality(A) + Cardinality(B) <= Cardinality(S)
<1>1. IsFiniteSet(A) /\ IsFiniteSet(B) /\ IsFiniteSet(A \cup B) /\ Cardinality(A \cup B) <= Cardinality(S)
  <2>1. IsFiniteSet(A) /\ IsFiniteSet(B)
    BY FS_Subset
  <2>2. A \cup B \in SUBSET S
    OBVIOUS
  <2>3. IsFiniteSet(A \cup B) /\ Cardinality(A \cup B) <= Cardinality(S)
    BY <2>2, FS_Subset
  <2> QED
    BY <2>1, <2>3
<1>2. /\ Cardinality(A) \in Nat /\ Cardinality(B) \in Nat /\ Cardinality(S) \in Nat
      /\ Cardinality(A \cup B) \in Nat
  BY <1>1, FS_CardinalityType
<1>3. Cardinality(A \cup B) = Cardinality(A) + Cardinality(B) - Cardinality(A \cap B)
  BY <1>1, FS_Union
<1>4. Cardinality(A \cap B) = 0
  BY FS_EmptySet
<1> QED
  BY <1>1, <1>2, <1>3, <1>4

\* The places of message i, of its neighbours in the chain, and of the messages
\* of other chains.
Placed(s, i) ==
  /\ s[i].n \in Nat /\ s[i].key.n = s[i].n /\ i - s[i].n \in 1..Len(s) /\ i \in Nat
  /\ \A j \in (i - s[i].n)..i : /\ j \in 1..Len(s) /\ s[j].dh = s[i].dh
                                /\ s[j].n = s[i].n - (i - j)
  /\ \A j \in 1..Len(s) :
       /\ s[j].n \in Nat /\ s[j].dh.i \in Nat /\ s[j].key \in MessageKeys
       /\ s[j].key.n = s[j].n /\ j \in Nat
       /\ s[j].dh = s[i].dh => i - j = s[i].n - s[j].n
       /\ s[j].dh.i < s[i].dh.i => j < i

\* The messages a peer has sent are in their places.
LEMMA ChainPlaces ==
  ASSUME IInv, NEW q \in Peers, NEW i \in 1..Len(sent[q])
  PROVE  Placed(sent[q], i)
<1> DEFINE s == sent[q]
           t == Stream(q)
           L == Len(s)
<1>1. TypeOK /\ SentInv /\ InOrder(t)
  BY DEF IInv, StreamInv
<1>2. /\ L \in Nat /\ Len(t) = L + 1 /\ \A j \in 1..L : t[j] = s[j]
      /\ s \in Seq(Sent)
  <2>1. StreamIs
    BY <1>1, StreamFields
  <2>2. s \in Seq(Sent)
    BY <1>1 DEF TypeOK, Sent
  <2> QED
    BY <2>1, <2>2 DEF StreamIs
<1>3. ASSUME NEW j \in 1..L
      PROVE  /\ s[j].n \in Nat /\ s[j].dh \in Pairs /\ s[j].dh.i \in Nat /\ s[j].key \in MessageKeys
             /\ s[j].dh.owner = q /\ j \in Nat
  <2>1. s[j] \in Sent
    BY <1>2, <1>3, ElementOfSeq
  <2>2. s[j].n \in Nat /\ s[j].dh \in Pairs /\ s[j].dh.i \in Nat /\ s[j].key \in MessageKeys
    BY <2>1 DEF Sent, Pairs
  <2>3. s[j].dh.owner = q
    BY <1>1, <1>3 DEF SentInv
  <2>4. j \in Nat
    BY <1>2, <1>3
  <2> QED
    BY <2>2, <2>3, <2>4
<1>4. ASSUME NEW k \in 1..L, NEW j \in 1..L
      PROVE  /\ s[k].key.n = s[k].n /\ s[k].n < k /\ s[k - s[k].n].dh = s[k].dh
             /\ j <= k => s[j].dh.i <= s[k].dh.i
             /\ s[j].dh = s[k].dh => k - j = s[k].n - s[j].n
  <2>1. k \in 1..Len(t) /\ j \in 1..Len(t) /\ t[k] = s[k] /\ t[j] = s[j]
    BY <1>2
  <2>2. t[k].n < k
    BY <1>1, <2>1 DEF InOrder
  <2>3. k - s[k].n \in 1..L
    BY <1>2, <1>3, <2>1, <2>2
  <2>4. t[k - s[k].n] = s[k - s[k].n]
    BY <1>2, <2>3
  <2> HIDE DEF s, t
  <2> QED
    BY <1>1, <2>1, <2>2, <2>4 DEF InOrder
<1>5. i - s[i].n \in 1..L /\ i \in 1..L
  BY <1>2, <1>3, <1>4
<1> HIDE DEF s, t, L
<1>6. ASSUME NEW j \in (i - s[i].n)..i
      PROVE  j \in 1..L /\ s[j].dh = s[i].dh /\ s[j].n = s[i].n - (i - j)
  <2>1. j \in 1..L /\ i - s[i].n <= j /\ j <= i
    BY <1>2, <1>3, <1>5
  <2>2. s[i - s[i].n].dh.i <= s[j].dh.i /\ s[j].dh.i <= s[i].dh.i /\ s[i - s[i].n].dh = s[i].dh
    BY <1>4, <1>5, <2>1
  <2>3. s[j].dh.i = s[i].dh.i
    BY <1>3, <1>5, <2>1, <2>2
  <2>4. s[j].dh = s[i].dh
    BY <1>3, <1>5, <2>1, <2>3, PairIs
  <2>5. i - j = s[i].n - s[j].n
    BY <1>4, <1>5, <2>1, <2>4
  <2>6. i \in Int /\ j \in Int /\ s[i].n \in Int /\ s[j].n \in Int
    BY <1>3, <1>5, <2>1
  <2> QED
    BY <2>1, <2>4, <2>5, <2>6
<1>7. ASSUME NEW j \in 1..L, s[j].dh.i < s[i].dh.i PROVE j < i
  <2>1. i <= j => s[i].dh.i <= s[j].dh.i
    BY <1>4, <1>5
  <2> QED
    BY <1>3, <1>5, <1>7, <2>1
<1> QED
  BY <1>3, <1>4, <1>5, <1>6, <1>7 DEF Placed, s, L

\* When p has looked at a header in an orderly network, its receiving chain is
\* the one of the message, and matches what the other peer has sent.
LEMMA TurnedMatches ==
  ASSUME IInv, TypeOK', NEW p \in Peers, NEW i, NEW ok \in BOOLEAN, Outcome(p, i, ok), Orderly'
  PROVE  LET m == sent[Other(p)][i]
             d == Turned(p, m)
         IN Matches(p, d) /\ m.dh = d.remote
<1> DEFINE q == Other(p)
           m == sent[q][i]
           d == Turned(p, m)
           L == Len(sent[q])
           s == Stream(q)
<1>1. /\ TypeOK /\ HeadersInv /\ DeliveryInv /\ InOrder(s) /\ Orderly
  BY Arrival, OtherPeer DEF IInv, StreamInv
<1>2. /\ q \in Peers /\ Other(q) = p /\ i \in 1..L /\ m.dh \in Pairs /\ dr[p] \in Ratchets
  BY <1>1, OutcomeFrame
<1>3. CASE d = dr[p] /\ Receiving(p) /\ m.dh = dr[p].remote
  BY <1>1, <1>3 DEF DeliveryInv
<1>4. CASE Ahead(q, p) /\ m.dh = dr[q].self /\ d = Ratcheted(dr[p], m.dh)
  <2>1. /\ d.remote = dr[q].self /\ d.recv.chain = dr[q].root /\ d.recv.n = 0
        /\ d.skipped = dr[p].skipped /\ d.skippedCount = dr[p].skippedCount
    <3>1. dr[q].root = Append(dr[p].root, Secret(dr[p].self, dr[q].self))
      BY <1>4 DEF Ahead
    <3>2. LET e == Ratcheted(dr[p], m.dh)
          IN /\ e.remote = m.dh /\ e.recv.chain = Append(dr[p].root, Secret(dr[p].self, m.dh))
             /\ e.recv.n = 0 /\ e.skipped = dr[p].skipped /\ e.skippedCount = dr[p].skippedCount
      BY <1>2, RatchetedFields
    <3> QED
      BY <1>4, <3>1, <3>2
  <2>2. dr[q].send.chain = dr[q].root
    <3>1. ASSUME q = "bob", dr[q].self.i = 0 PROVE FALSE
      <4>1. sent["bob"][i].key.chain = ZeroChain
        BY <1>1, <1>2, <1>4, <3>1 DEF HeadersInv
      <4>2. i \in DOMAIN sent["bob"]
        BY <1>1, <1>2, <3>1 DEF TypeOK
      <4> QED
        BY <1>1, <4>1, <4>2 DEF Orderly, Early
    <3> QED
      BY <1>1, <1>2, <3>1 DEF HeadersInv
  <2>3. ASSUME NEW j \in 1..Len(s), s[j].dh = d.remote PROVE s[j].key.chain = d.recv.chain
    <3>1. StreamIs
      BY <1>1, StreamFields
    <3>2. Len(s) \in 1..Len(s) /\ s[Len(s)] = Sealed(q)
      <4>1. L \in Nat /\ Len(s) = L + 1 /\ s[L + 1] = Sealed(q)
        BY <1>2, <3>1 DEF StreamIs
      <4> HIDE DEF L, s
      <4> QED
        BY <4>1
    <3>3. s[Len(s)].dh = dr[q].self /\ s[Len(s)].key.chain = dr[q].root
      BY <2>2, <3>2 DEF Sealed
    <3>4. s[j].key.chain = s[Len(s)].key.chain
      <4> HIDE DEF s
      <4> QED
        BY <1>1, <2>1, <2>3, <3>2, <3>3 DEF InOrder
    <3> QED
      BY <2>1, <3>3, <3>4
  <2>4. ASSUME NEW j \in 1..L
        PROVE  /\ ~(sent[q][j].n < d.recv.n)
               /\ Read(p, j) => Receiving(p)
               /\ Receiving(p) /\ Past(dr[p], sent[q][j]) => Past(d, sent[q][j])
    <3>1. sent[q][j].n \in Nat /\ sent[q][j].dh.i \in Nat
      BY <1>2, ChainPlaces DEF Placed
    <3>2. Read(p, j) => Receiving(p)
      <4>1. ASSUME ~Receiving(p), Read(p, j) PROVE FALSE
        <5>1. got[p] = <<>>
          BY <1>1, <4>1 DEF HeadersInv
        <5>2. Len(got[p]) = 0
          BY <5>1
        <5> QED
          BY <4>1, <5>2 DEF Read
      <4> QED
        BY <4>1
    <3>3. ASSUME Receiving(p), Past(dr[p], sent[q][j]) PROVE Past(d, sent[q][j])
      <4>1. dr[q].self.i = dr[p].remote.i + 1 /\ dr[p].remote.i \in Nat
        BY <1>2, <1>4, <3>3 DEF Ahead, Expected, Receiving, Ratchets, Pairs
      <4>2. sent[q][j].dh.i <= dr[p].remote.i
        BY <3>1, <3>3, <4>1 DEF Past
      <4> QED
        BY <2>1, <3>1, <4>1, <4>2 DEF Past
    <3> QED
      BY <2>1, <3>1, <3>2, <3>3
  <2>5. ASSUME NEW j \in 1..L, Read(p, j) PROVE Past(d, sent[q][j])
    <3>1. Receiving(p)
      BY <2>4, <2>5
    <3>2. Past(dr[p], sent[q][j])
      BY <1>1, <2>5, <3>1 DEF DeliveryInv, Matches
    <3> QED
      BY <2>4, <3>1, <3>2
  <2>6. d.skippedCount <= Cardinality(Lost(p, d))
    <3>1. IsFiniteSet(Lost(p, d)) /\ Cardinality(Lost(p, d)) \in Nat
      BY <1>1, LostFinite
    <3>2. CASE Receiving(p)
      <4>1. Lost(p, dr[p]) \subseteq Lost(p, d)
        BY <2>4, <3>2 DEF Lost
      <4>2. Cardinality(Lost(p, dr[p])) <= Cardinality(Lost(p, d))
        BY <3>1, <4>1, FS_Subset
      <4>3. dr[p].skippedCount <= Cardinality(Lost(p, dr[p]))
        BY <1>1, <3>2 DEF DeliveryInv, Matches
      <4>4. dr[p].skippedCount \in Nat /\ Cardinality(Lost(p, dr[p])) \in Nat
        BY <1>1, <1>2, LostFinite DEF Ratchets
      <4> HIDE DEF d
      <4> QED
        BY <2>1, <3>1, <4>2, <4>3, <4>4
    <3>3. CASE ~Receiving(p)
      <4>1. d.skippedCount = 0
        BY <1>1, <2>1, <3>3 DEF HeadersInv
      <4> HIDE DEF d
      <4> QED
        BY <3>1, <4>1
    <3> QED
      BY <3>2, <3>3
  <2>7. ~(d.recv.n > 0)
    BY <2>1
  <2>8. Matches(p, d)
    <3> HIDE DEF d
    <3> QED
      BY <2>3, <2>4, <2>5, <2>6, <2>7 DEF Matches
  <2> QED
    BY <1>4, <2>1, <2>8
<1> QED
  BY <1>3, <1>4, Arrival

\* Decrypt makes a message read when it opens it.
LEMMA ReadNow ==
  ASSUME TypeOK, NEW p \in Peers, NEW i, NEW ok \in BOOLEAN, Outcome(p, i, ok)
  PROVE  \A j : Read(p, j)' <=> Read(p, j) \/ (j = i /\ ok)
<1> DEFINE last == Len(got[p]) + 1
<1> TAKE j
<1>1. /\ Len(got[p]) \in Nat /\ Len(got'[p]) = last
      /\ \A k \in 1..Len(got[p]) : got'[p][k] = got[p][k]
      /\ got'[p][last].i = i /\ got'[p][last].ok = ok
      /\ \A k \in 1..last : k \in 1..Len(got[p]) \/ k = last
  BY OutcomeFrame
<1>2. last \in 1..last /\ \A k \in 1..Len(got[p]) : k \in 1..last
  BY <1>1
<1>3. Read(p, j)' <=> \E k \in 1..last : got'[p][k].i = j /\ got'[p][k].ok
  BY <1>1 DEF Read
<1> HIDE DEF last
<1>4. ASSUME Read(p, j) PROVE \E k \in 1..last : got'[p][k].i = j /\ got'[p][k].ok
  <2>1. PICK k \in 1..Len(got[p]) : got[p][k].i = j /\ got[p][k].ok
    BY <1>4 DEF Read
  <2> QED
    BY <1>1, <1>2, <2>1
<1>5. ASSUME j = i, ok PROVE \E k \in 1..last : got'[p][k].i = j /\ got'[p][k].ok
  BY <1>1, <1>2, <1>5
<1>6. ASSUME NEW k \in 1..last, got'[p][k].i = j, got'[p][k].ok PROVE Read(p, j) \/ (j = i /\ ok)
  <2>1. CASE k = last
    BY <1>1, <1>6, <2>1
  <2>2. CASE k \in 1..Len(got[p])
    BY <1>1, <1>6, <2>2 DEF Read
  <2> QED
    BY <1>1, <2>1, <2>2
<1> QED
  BY <1>3, <1>4, <1>5, <1>6

\* What a receiving chain in state d, which matches, passes over on its way to
\* message i: all of it is unread, and none of it was lost before.
PassedOver(p, d, i) ==
  LET m == sent[Other(p)][i] IN (i - (m.n - d.recv.n))..(i - 1)

LEMMA PassedOverIs ==
  ASSUME IInv, NEW p \in Peers, NEW i \in 1..Len(sent[Other(p)]), NEW d \in Ratchets,
         Matches(p, d), sent[Other(p)][i].dh = d.remote, sent[Other(p)][i].n >= d.recv.n
  PROVE  LET q == Other(p)
             m == sent[q][i]
             I == PassedOver(p, d, i)
         IN /\ IsFiniteSet(I) /\ Cardinality(I) = m.n - d.recv.n
            /\ \A j \in I : /\ j \in 1..Len(sent[q]) /\ j < i /\ sent[q][j].dh = d.remote
                            /\ d.recv.n <= sent[q][j].n /\ sent[q][j].n < m.n
                            /\ ~Read(p, j)
            /\ \A j \in Lost(p, d) : j \in 1..Len(sent[q]) /\ j < i /\ j \notin I /\ ~Read(p, j)
            /\ ~Past(d, m)
<1> DEFINE q == Other(p)
           m == sent[q][i]
           L == Len(sent[q])
           I == PassedOver(p, d, i)
           n == d.recv.n
<1>1. q \in Peers /\ TypeOK /\ L \in Nat
  <2>1. q \in Peers /\ TypeOK
    BY OtherPeer DEF IInv
  <2>2. sent[q] \in Seq(Sent)
    BY <2>1 DEF TypeOK, Sent
  <2> QED
    BY <2>1, <2>2, LenProperties
<1>2. n \in Nat /\ d.remote.i \in Nat
  BY DEF Ratchets, MessageKeys, Pairs
<1>3. /\ m.n \in Nat /\ i - m.n \in 1..L /\ i \in Nat
      /\ \A j \in (i - m.n)..i : /\ j \in 1..L /\ sent[q][j].dh = m.dh
                                 /\ sent[q][j].n = m.n - (i - j)
      /\ \A j \in 1..L : /\ sent[q][j].n \in Nat /\ sent[q][j].dh.i \in Nat /\ j \in Nat
                         /\ sent[q][j].dh = m.dh => i - j = m.n - sent[q][j].n
                         /\ sent[q][j].dh.i < m.dh.i => j < i
  <2>1. q \in Peers /\ i \in 1..L
    BY <1>1
  <2> HIDE DEF q
  <2>2. Placed(sent[q], i)
    BY <2>1, ChainPlaces
  <2> QED
    BY <2>2 DEF Placed
<1>4. m.dh = d.remote /\ m.n >= n
  OBVIOUS
<1>5. \A j \in 1..L : Read(p, j) => Past(d, sent[q][j])
  BY DEF Matches
<1>6. I = (i - (m.n - n))..(i - 1)
  BY DEF PassedOver
<1>7. Lost(p, d) = {j \in 1..L : Past(d, sent[q][j]) /\ ~Read(p, j)}
  BY DEF Lost
<1> HIDE DEF m, L, q, I, n
<1>8. IsFiniteSet(I) /\ Cardinality(I) = m.n - n
  <2>1. i - (m.n - n) \in Int /\ i - 1 \in Int
    BY <1>2, <1>3
  <2>2. /\ IsFiniteSet(I)
        /\ Cardinality(I) = IF i - (m.n - n) > i - 1 THEN 0 ELSE (i - 1) - (i - (m.n - n)) + 1
    BY <1>6, <2>1, FS_Interval
  <2> QED
    BY <1>2, <1>3, <1>4, <2>2
<1>9. \A l : Past(d, l) <=> l.dh.i < d.remote.i \/ (l.dh = d.remote /\ l.n < n)
  BY DEF Past, n
<1>10. ASSUME NEW j \in I
       PROVE  /\ j \in 1..L /\ j < i /\ sent[q][j].dh = d.remote
              /\ n <= sent[q][j].n /\ sent[q][j].n < m.n /\ ~Past(d, sent[q][j])
  <2>1. j \in (i - m.n)..i /\ i - (m.n - n) <= j /\ j < i /\ j \in Int
    BY <1>2, <1>3, <1>4, <1>6
  <2>2. j \in 1..L /\ sent[q][j].dh = d.remote /\ sent[q][j].n = m.n - (i - j)
    BY <1>3, <1>4, <2>1
  <2>3. n <= sent[q][j].n /\ sent[q][j].n < m.n
    <3>1. n <= m.n - (i - j) /\ m.n - (i - j) < m.n
      BY <1>2, <1>3, <2>1
    <3> QED
      BY <2>2, <3>1
  <2> QED
    <3>1. sent[q][j].n \in Nat /\ ~(sent[q][j].n < n) /\ ~(sent[q][j].dh.i < d.remote.i)
      <4>1. sent[q][j].n \in Nat
        BY <1>3, <2>2
      <4>2. ~(sent[q][j].n < n)
        BY <1>2, <2>3, <4>1
      <4>3. ~(sent[q][j].dh.i < d.remote.i)
        BY <1>2, <2>2
      <4> QED
        BY <4>1, <4>2, <4>3
    <3> QED
      BY <1>9, <2>1, <2>2, <2>3, <3>1
<1>11. ASSUME NEW j \in Lost(p, d) PROVE j \in 1..L /\ j < i /\ j \notin I /\ ~Read(p, j)
  <2>1. j \in 1..L /\ Past(d, sent[q][j]) /\ ~Read(p, j)
    BY <1>7
  <2>2. j < i
    <3>1. CASE sent[q][j].dh.i < d.remote.i
      BY <1>3, <1>4, <2>1, <3>1
    <3>2. CASE sent[q][j].dh = d.remote /\ sent[q][j].n < n
      <4>1. i - j = m.n - sent[q][j].n
        BY <1>3, <1>4, <2>1, <3>2
      <4> QED
        BY <1>2, <1>3, <1>4, <2>1, <3>2, <4>1
    <3> QED
      BY <1>9, <2>1, <3>1, <3>2
  <2> QED
    BY <1>10, <2>1, <2>2
<1>12. ~Past(d, m)
  BY <1>2, <1>3, <1>4, <1>9
<1> QED
  BY <1>5, <1>8, <1>10, <1>11, <1>12 DEF m, L, q, I, n

\* Message i has reached p, which has looked at the header.
Arrived(p, i) ==
  LET m == sent[Other(p)][i]
      d == Turned(p, m)
  IN Matches(p, d) /\ m.dh = d.remote /\ ~Read(p, i)

\* The messages sent before message i that p has not opened.
Unread(p, i) == {j \in 1..(i - 1) : ~Read(p, j)}

\* A message that does not open and leaves the ratchet alone takes nothing away
\* from the receiving chain.
LEMMA ClosedMatches ==
  ASSUME IInv, TypeOK', NEW p \in Peers, NEW i, NEW ok \in BOOLEAN, Outcome(p, i, ok),
         Arrived(p, i), ~ok, dr'[p] = Turned(p, sent[Other(p)][i])
  PROVE  Matches(p, dr[p])'
<1> DEFINE q == Other(p)
           d == Turned(p, sent[q][i])
<1>1. TypeOK /\ Matches(p, d)
  BY DEF IInv, Arrived
<1>2. sent' = sent /\ Stream(q)' = Stream(q)
  BY <1>1, OutcomeFrame, DecryptStreams
<1>3. \A j : Read(p, j)' <=> Read(p, j)
  BY <1>1, ReadNow
<1>4. dr'[p] = d
  OBVIOUS
<1> HIDE DEF d
<1>5. \A l : Past(dr[p], l)' <=> Past(d, l)
  BY <1>4 DEF Past
<1>6. Lost(p, dr[p])' = Lost(p, d)
  BY <1>2, <1>3, <1>5 DEF Lost
<1> QED
  BY <1>1, <1>2, <1>3, <1>4, <1>5, <1>6 DEF Matches

\* A message refused as too far ahead is so for what has been lost.
LEMMA RefusedOpens ==
  ASSUME IInv, TypeOK', NEW p \in Peers, NEW i, NEW ok \in BOOLEAN, Outcome(p, i, ok),
         Arrived(p, i), Refused(Turned(p, sent[Other(p)][i]), sent[Other(p)][i], dr'[p], ok)
  PROVE  Matches(p, dr[p])' /\ Cardinality(Unread(p, i)) > MaxSkip
<1> DEFINE q == Other(p)
           m == sent[q][i]
           d == Turned(p, m)
           I == PassedOver(p, d, i)
           S == Unread(p, i)
<1>1. /\ TypeOK /\ Matches(p, d) /\ m.dh = d.remote /\ d \in Ratchets
      /\ TooFar(d, m.n) /\ ~ok /\ dr'[p] = d
  BY OutcomeFields DEF IInv, Arrived, Refused
<1>2. q \in Peers /\ i \in 1..Len(sent[q]) /\ m.n \in Nat /\ i \in Nat
  BY <1>1, OutcomeFrame
<1>3. d.recv.n \in Nat /\ d.skippedCount \in Nat
  BY <1>1 DEF Ratchets, MessageKeys
<1> HIDE DEF m, d
<1>4. m.n >= d.recv.n /\ d.skippedCount + (m.n - d.recv.n) > MaxSkip
  BY <1>1, <1>2, <1>3, RatchetAssumption DEF TooFar
<1>5. /\ IsFiniteSet(I) /\ Cardinality(I) = m.n - d.recv.n
      /\ \A j \in I : j \in 1..Len(sent[q]) /\ j < i /\ ~Read(p, j)
      /\ \A j \in Lost(p, d) : j \in 1..Len(sent[q]) /\ j < i /\ j \notin I /\ ~Read(p, j)
  BY <1>1, <1>2, <1>4, PassedOverIs DEF m
<1> HIDE DEF q, I, S
<1>6. I \subseteq S /\ Lost(p, d) \subseteq S /\ I \cap Lost(p, d) = {} /\ IsFiniteSet(S)
  <2>1. IsFiniteSet(1..(i - 1))
    BY <1>2, FS_Interval
  <2>2. S \subseteq 1..(i - 1)
    BY DEF S, Unread
  <2>3. IsFiniteSet(S)
    BY <2>1, <2>2, FS_Subset
  <2>4. I \subseteq S
    BY <1>2, <1>5 DEF S, Unread
  <2>5. Lost(p, d) \subseteq S
    BY <1>2, <1>5 DEF S, Unread
  <2> QED
    BY <1>5, <2>3, <2>4, <2>5
<1>7. d.skippedCount <= Cardinality(Lost(p, d))
  BY <1>1 DEF Matches
<1>8. /\ Cardinality(I) \in Nat /\ Cardinality(Lost(p, d)) \in Nat /\ Cardinality(S) \in Nat
      /\ Cardinality(I) + Cardinality(Lost(p, d)) <= Cardinality(S)
  BY <1>6, TwoParts
<1>9. Cardinality(S) > MaxSkip
  BY <1>2, <1>3, <1>4, <1>5, <1>7, <1>8, RatchetAssumption
<1>10. Matches(p, dr[p])'
  BY <1>1, ClosedMatches DEF d, m, q
<1> QED
  BY <1>9, <1>10 DEF S

\* A message the receiving chain reaches opens, and what it passes over is lost
\* for the time being.
LEMMA PassingOpens ==
  ASSUME IInv, TypeOK', NEW p \in Peers, NEW i, NEW ok \in BOOLEAN, Outcome(p, i, ok),
         Arrived(p, i), Passing(Turned(p, sent[Other(p)][i]), sent[Other(p)][i], dr'[p], ok)
  PROVE  Matches(p, dr[p])' /\ ok
<1> DEFINE q == Other(p)
           m == sent[q][i]
           d == Turned(p, m)
           e == dr'[p]
           L == Len(sent[q])
           s == Stream(q)
           I == PassedOver(p, d, i)
           between == d.recv.n..(m.n - 1)
<1>1. /\ TypeOK /\ Matches(p, d) /\ m.dh = d.remote /\ d \in Ratchets /\ Passing(d, m, e, ok)
      /\ e.remote = d.remote /\ e.recv.chain = d.recv.chain
  BY OutcomeFields DEF IInv, Arrived
<1>2. /\ q \in Peers /\ i \in 1..L /\ m.n \in Nat /\ i \in Nat /\ m.key \in MessageKeys
      /\ sent' = sent /\ s' = s
  BY <1>1, OutcomeFrame, DecryptStreams
<1>3. /\ d.recv.n \in Nat /\ d.recv.chain \in RootKeys /\ d.skippedCount \in Nat
      /\ d.remote.i \in Nat /\ d.skipped \subseteq MessageKeys
  BY <1>1 DEF Ratchets, MessageKeys, Pairs
<1>4. \A j : Read(p, j)' <=> Read(p, j) \/ (j = i /\ ok)
  BY <1>1, ReadNow
<1>5. /\ Len(s) = L + 1 /\ L \in Nat /\ \A j \in 1..L : s[j] = sent[q][j] /\ j \in 1..Len(s)
  <2>1. StreamIs
    BY <1>1, StreamFields
  <2>2. Len(s) = L + 1 /\ L \in Nat /\ \A j \in 1..L : s[j] = sent[q][j]
    BY <1>2, <2>1 DEF StreamIs
  <2> HIDE DEF s, L
  <2> QED
    BY <2>2
<1>6. /\ \A j \in 1..Len(s) : s[j].dh = d.remote => s[j].key.chain = d.recv.chain
      /\ \A j \in 1..L :
           /\ sent[q][j].dh = d.remote /\ sent[q][j].n < d.recv.n =>
                Read(p, j) \/ sent[q][j].key \in d.skipped
           /\ Read(p, j) => Past(d, sent[q][j])
      /\ d.skippedCount <= Cardinality(Lost(p, d))
  BY <1>1 DEF Matches
<1>7. /\ m.key.n = m.n
      /\ \A j \in 1..L : /\ sent[q][j].n \in Nat /\ sent[q][j].key \in MessageKeys
                         /\ sent[q][j].dh.i \in Nat
                         /\ sent[q][j].key.n = sent[q][j].n /\ j \in Nat
                         /\ sent[q][j].dh = m.dh => i - j = m.n - sent[q][j].n
  <2>1. Placed(sent[q], i)
    BY <1>2, ChainPlaces
  <2> QED
    BY <2>1 DEF Placed
<1>8. /\ m.n >= d.recv.n /\ (ok <=> m.key = [chain |-> d.recv.chain, n |-> m.n])
      /\ e.recv.n = m.n + 1
      /\ e.skipped = {k \in d.skipped : k.n \notin between}
                       \cup {[chain |-> d.recv.chain, n |-> l] : l \in between}
      /\ e.skippedCount = d.skippedCount + (m.n - d.recv.n)
  BY <1>1 DEF Passing
<1>9. \A key \in MessageKeys : key = [chain |-> key.chain, n |-> key.n]
  BY DEF MessageKeys
<1>10. /\ IsFiniteSet(I) /\ Cardinality(I) = m.n - d.recv.n
       /\ \A j \in I : /\ j \in 1..L /\ j < i /\ sent[q][j].dh = d.remote
                       /\ sent[q][j].n < m.n /\ ~Read(p, j)
       /\ \A j \in Lost(p, d) : j \in 1..L /\ j < i /\ j \notin I /\ ~Read(p, j)
  BY <1>1, <1>2, <1>8, PassedOverIs
<1>11. Lost(p, d) = {j \in 1..L : Past(d, sent[q][j]) /\ ~Read(p, j)}
  BY DEF Lost
<1>12. Lost(p, dr[p])' = {j \in 1..L : Past(e, sent[q][j]) /\ ~Read(p, j)'}
  BY <1>2 DEF Lost, Past
<1>13. sent[q][i] = m
  OBVIOUS
<1> HIDE DEF m, d, e, L, s, I
<1>14. ok
  <2>1. m.key.chain = d.recv.chain
    BY <1>1, <1>2, <1>5, <1>6, <1>13
  <2> QED
    BY <1>2, <1>7, <1>8, <1>9, <2>1
<1>15. \A l : Past(e, l) <=> l.dh.i < d.remote.i \/ (l.dh = d.remote /\ l.n < m.n + 1)
  BY <1>1, <1>8 DEF Past
<1>16. \A l : Past(d, l) <=> l.dh.i < d.remote.i \/ (l.dh = d.remote /\ l.n < d.recv.n)
  BY DEF Past
<1>17. ASSUME NEW j \in 1..L
       PROVE  /\ Past(d, sent[q][j]) => Past(e, sent[q][j])
              /\ sent[q][j].dh = d.remote /\ sent[q][j].n < e.recv.n =>
                   Read(p, j)' \/ sent[q][j].key \in e.skipped
              /\ Read(p, j)' => Past(e, sent[q][j])
  <2>1. Past(d, sent[q][j]) => Past(e, sent[q][j])
    BY <1>2, <1>3, <1>7, <1>8, <1>15, <1>16
  <2>2. ASSUME sent[q][j].dh = d.remote, sent[q][j].n < e.recv.n
        PROVE  Read(p, j)' \/ sent[q][j].key \in e.skipped
    <3>1. sent[q][j].n \in Nat /\ sent[q][j].key \in MessageKeys /\ sent[q][j].key.n = sent[q][j].n
      BY <1>7
    <3>2. CASE sent[q][j].n = m.n
      <4>1. j = i
        BY <1>1, <1>2, <1>7, <2>2, <3>2
      <4> QED
        BY <1>4, <1>14, <4>1
    <3>3. CASE sent[q][j].n < d.recv.n
      <4>1. Read(p, j) \/ sent[q][j].key \in d.skipped
        BY <1>6, <2>2, <3>3
      <4>2. sent[q][j].key.n \notin between
        BY <1>3, <3>1, <3>3
      <4> QED
        BY <1>4, <1>8, <4>1, <4>2
    <3>4. CASE d.recv.n <= sent[q][j].n /\ sent[q][j].n < m.n
      <4>1. sent[q][j].key.n \in between
        BY <1>2, <1>3, <3>1, <3>4
      <4>2. sent[q][j].key.chain = d.recv.chain
        BY <1>5, <1>6, <2>2
      <4>3. sent[q][j].key = [chain |-> d.recv.chain, n |-> sent[q][j].key.n]
        BY <1>9, <3>1, <4>2
      <4> QED
        BY <1>8, <4>1, <4>3
    <3>5. \/ sent[q][j].n = m.n \/ sent[q][j].n < d.recv.n
          \/ d.recv.n <= sent[q][j].n /\ sent[q][j].n < m.n
      BY <1>2, <1>3, <1>8, <2>2, <3>1
    <3> QED
      BY <3>2, <3>3, <3>4, <3>5
  <2>3. ASSUME Read(p, j)' PROVE Past(e, sent[q][j])
    <3>1. CASE Read(p, j)
      BY <1>6, <2>1, <3>1
    <3>2. CASE j = i
      <4>1. m.n < m.n + 1
        BY <1>2
      <4> QED
        BY <1>1, <1>13, <1>15, <3>2, <4>1
    <3> QED
      BY <1>4, <2>3, <3>1, <3>2
  <2> QED
    BY <2>1, <2>2, <2>3
<1>18. e.skippedCount <= Cardinality(Lost(p, dr[p])')
  <2> DEFINE S == Lost(p, dr[p])'
  <2>1. IsFiniteSet(S)
    <3>1. IsFiniteSet(1..L)
      BY <1>5, FS_Interval
    <3> QED
      BY <1>12, <3>1, FS_Subset
  <2>2. I \subseteq S
    <3>1. ASSUME NEW j \in I PROVE j \in S
      <4>1. /\ j \in 1..L /\ j < i /\ j \in Nat /\ sent[q][j].dh = d.remote
            /\ sent[q][j].n < m.n /\ sent[q][j].n \in Nat /\ ~Read(p, j)
        BY <1>7, <1>10
      <4>2. Past(e, sent[q][j])
        BY <1>2, <1>15, <4>1
      <4>3. ~Read(p, j)'
        BY <1>2, <1>4, <4>1
      <4> QED
        BY <1>12, <4>1, <4>2, <4>3
    <3> QED
      BY <3>1
  <2>3. Lost(p, d) \subseteq S
    <3>1. ASSUME NEW j \in Lost(p, d) PROVE j \in S
      <4>1. j \in 1..L /\ j < i /\ j \in Nat /\ ~Read(p, j) /\ Past(d, sent[q][j])
        BY <1>7, <1>10, <1>11
      <4>2. ~Read(p, j)'
        BY <1>2, <1>4, <4>1
      <4> QED
        BY <1>12, <1>17, <4>1, <4>2
    <3> QED
      BY <3>1
  <2>4. I \cap Lost(p, d) = {}
    BY <1>10
  <2> HIDE DEF S
  <2>5. /\ Cardinality(I) \in Nat /\ Cardinality(Lost(p, d)) \in Nat /\ Cardinality(S) \in Nat
        /\ Cardinality(I) + Cardinality(Lost(p, d)) <= Cardinality(S)
    BY <2>1, <2>2, <2>3, <2>4, TwoParts
  <2>6. e.skippedCount <= Cardinality(S)
    BY <1>2, <1>3, <1>6, <1>8, <1>10, <2>5
  <2> QED
    BY <2>6 DEF S
<1>19. \E j \in 1..L : sent[q][j].dh = d.remote /\ sent[q][j].n = e.recv.n - 1
  BY <1>1, <1>2, <1>8, <1>13
<1>20. e.remote = d.remote /\ e.recv.chain = d.recv.chain
  BY <1>1
<1>21. Matches(p, dr[p])'
  <2>1. \A l : Past(dr[p], l)' <=> Past(e, l)
    BY DEF Past, e
  <2>2. /\ \A j \in 1..Len(Stream(q)') : Stream(q)'[j].dh = e.remote => Stream(q)'[j].key.chain = e.recv.chain
        /\ e.recv.n > 0 => \E j \in 1..Len(sent'[q]) : sent'[q][j].dh = e.remote /\ sent'[q][j].n = e.recv.n - 1
        /\ \A j \in 1..Len(sent'[q]) :
             /\ sent'[q][j].dh = e.remote /\ sent'[q][j].n < e.recv.n =>
                  Read(p, j)' \/ sent'[q][j].key \in e.skipped
             /\ Read(p, j)' => Past(e, sent'[q][j])
        /\ e.skippedCount <= Cardinality(Lost(p, dr[p])')
    BY <1>2, <1>6, <1>17, <1>18, <1>19, <1>20 DEF L, s
  <2> QED
    BY <2>1, <2>2 DEF Matches, e
<1> QED
  BY <1>14, <1>21

\* A message behind the receiving chain that is not read has its key in the
\* list: it opens, and is lost no more.
LEMMA KeptOpens ==
  ASSUME IInv, TypeOK', NEW p \in Peers, NEW i, NEW ok \in BOOLEAN, Outcome(p, i, ok),
         Arrived(p, i), Kept(Turned(p, sent[Other(p)][i]), sent[Other(p)][i], dr'[p], ok)
  PROVE  Matches(p, dr[p])' /\ ok
<1> DEFINE q == Other(p)
           m == sent[q][i]
           d == Turned(p, m)
           e == dr'[p]
           L == Len(sent[q])
           s == Stream(q)
<1>1. /\ TypeOK /\ SentInv /\ HeadersInv
      /\ Matches(p, d) /\ m.dh = d.remote /\ ~Read(p, i) /\ d \in Ratchets /\ Kept(d, m, e, ok)
      /\ e.remote = d.remote /\ d.skipped = dr[p].skipped
  BY OutcomeFields DEF IInv, Arrived
<1>2. /\ q \in Peers /\ i \in 1..L /\ i \in Nat /\ L \in Nat
      /\ sent' = sent /\ s' = s
  <2>1. q \in Peers /\ i \in 1..L /\ i \in Nat /\ sent' = sent /\ s' = s
    BY <1>1, OutcomeFrame, DecryptStreams
  <2>2. sent[q] \in Seq(Sent)
    BY <1>1, <2>1 DEF TypeOK, Sent
  <2> QED
    BY <2>1, <2>2, LenProperties
<1>3. d.recv.n \in Nat /\ d.skippedCount \in Nat
  BY <1>1 DEF Ratchets, MessageKeys
<1>4. \A j : Read(p, j)' <=> Read(p, j) \/ (j = i /\ ok)
  BY <1>1, ReadNow
<1>5. /\ \A j \in 1..Len(s) : s[j].dh = d.remote => s[j].key.chain = d.recv.chain
      /\ d.recv.n > 0 => \E j \in 1..L : sent[q][j].dh = d.remote /\ sent[q][j].n = d.recv.n - 1
      /\ \A j \in 1..L :
           /\ sent[q][j].dh = d.remote /\ sent[q][j].n < d.recv.n =>
                Read(p, j) \/ sent[q][j].key \in d.skipped
           /\ Read(p, j) => Past(d, sent[q][j])
      /\ d.skippedCount <= Cardinality(Lost(p, d))
  BY <1>1 DEF Matches
<1>6. m.key.n = m.n
  BY <1>2, ChainPlaces DEF Placed
<1>7. PICK key \in d.skipped :
        /\ key.n = m.n /\ (ok <=> m.key = key) /\ m.n < d.recv.n
        /\ e.recv = d.recv /\ e.skipped = d.skipped \ {key} /\ e.skippedCount = d.skippedCount - 1
  BY <1>1 DEF Kept
<1>8. m.key = key /\ ok
  <2>1. m.key \in d.skipped
    BY <1>1, <1>2, <1>5, <1>7
  <2>2. \A k, l \in d.skipped : k.n = l.n => k = l
    BY <1>1 DEF HeadersInv
  <2> HIDE DEF m, d, e
  <2> QED
    BY <1>6, <1>7, <2>1, <2>2
<1>9. \A j \in 1..L : sent[q][j].key = m.key => j = i
  BY <1>1, <1>2 DEF SentInv
<1>10. sent[q][i] = m
  OBVIOUS
<1>11. Lost(p, d) = {j \in 1..L : Past(d, sent[q][j]) /\ ~Read(p, j)}
  BY DEF Lost
<1>12. Lost(p, dr[p])' = {j \in 1..L : Past(e, sent[q][j]) /\ ~Read(p, j)'}
  BY <1>2 DEF Lost, Past
<1> HIDE DEF m, d, e, L, s
<1>13. \A l : Past(e, l) <=> Past(d, l)
  BY <1>1, <1>7 DEF Past
<1>14. Past(d, m)
  BY <1>1, <1>7 DEF Past
<1>15. ASSUME NEW j \in 1..L
       PROVE  /\ sent[q][j].dh = e.remote /\ sent[q][j].n < e.recv.n =>
                   Read(p, j)' \/ sent[q][j].key \in e.skipped
              /\ Read(p, j)' => Past(e, sent[q][j])
  <2>1. ASSUME sent[q][j].dh = e.remote, sent[q][j].n < e.recv.n
        PROVE  Read(p, j)' \/ sent[q][j].key \in e.skipped
    <3>1. Read(p, j) \/ sent[q][j].key \in d.skipped
      BY <1>1, <1>5, <1>7, <2>1
    <3> QED
      BY <1>4, <1>7, <1>8, <1>9, <3>1
  <2>2. ASSUME Read(p, j)' PROVE Past(e, sent[q][j])
    <3>1. CASE Read(p, j)
      BY <1>5, <1>13, <3>1
    <3>2. CASE j = i
      BY <1>10, <1>13, <1>14, <3>2
    <3> QED
      BY <1>4, <2>2, <3>1, <3>2
  <2> QED
    BY <2>1, <2>2
<1>16. e.skippedCount <= Cardinality(Lost(p, dr[p])')
  <2>1. i \in Lost(p, d)
    BY <1>1, <1>2, <1>10, <1>11, <1>14
  <2>2. Lost(p, dr[p])' = Lost(p, d) \ {i}
    BY <1>4, <1>8, <1>11, <1>12, <1>13
  <2>3. IsFiniteSet(Lost(p, d)) /\ Cardinality(Lost(p, d)) \in Nat
    BY <1>1, LostFinite
  <2>4. Cardinality(Lost(p, d) \ {i}) = Cardinality(Lost(p, d)) - 1
    BY <2>1, <2>3, FS_RemoveElement
  <2> QED
    BY <1>3, <1>5, <1>7, <2>2, <2>3, <2>4
<1>17. Matches(p, dr[p])'
  <2>1. \A l : Past(dr[p], l)' <=> Past(e, l)
    BY DEF Past, e
  <2>2. /\ \A j \in 1..Len(Stream(q)') : Stream(q)'[j].dh = e.remote => Stream(q)'[j].key.chain = e.recv.chain
        /\ e.recv.n > 0 => \E j \in 1..Len(sent'[q]) : sent'[q][j].dh = e.remote /\ sent'[q][j].n = e.recv.n - 1
        /\ \A j \in 1..Len(sent'[q]) :
             /\ sent'[q][j].dh = e.remote /\ sent'[q][j].n < e.recv.n =>
                  Read(p, j)' \/ sent'[q][j].key \in e.skipped
             /\ Read(p, j)' => Past(e, sent'[q][j])
        /\ e.skippedCount <= Cardinality(Lost(p, dr[p])')
    BY <1>1, <1>2, <1>5, <1>7, <1>15, <1>16 DEF L, s
  <2> QED
    BY <2>1, <2>2 DEF Matches, e
<1> QED
  BY <1>8, <1>17

\* A message behind the receiving chain has its key in the list when it is not
\* read: it is never unknown.
LEMMA NeverUnknown ==
  ASSUME IInv, TypeOK', NEW p \in Peers, NEW i, NEW ok \in BOOLEAN, Outcome(p, i, ok),
         Arrived(p, i)
  PROVE  ~Unknown(Turned(p, sent[Other(p)][i]), sent[Other(p)][i], dr'[p], ok)
<1> DEFINE q == Other(p)
           m == sent[q][i]
           d == Turned(p, m)
<1> SUFFICES ASSUME Unknown(d, m, dr'[p], ok) PROVE FALSE
  OBVIOUS
<1>1. TypeOK /\ Matches(p, d) /\ m.dh = d.remote /\ ~Read(p, i)
  BY DEF IInv, Arrived
<1>2. q \in Peers /\ i \in 1..Len(sent[q])
  BY <1>1, OutcomeFrame
<1>3. m.n < d.recv.n /\ \A key \in d.skipped : key.n # m.n
  BY DEF Unknown
<1>4. m.key.n = m.n
  BY <1>2, ChainPlaces DEF Placed
<1>5. m.key \in d.skipped
  BY <1>1, <1>2, <1>3 DEF Matches
<1> QED
  BY <1>3, <1>4, <1>5

\* Whatever way Decrypt goes in an orderly network, the receiving chain matches
\* afterwards, and a message that does not open comes with too many unread.
LEMMA DecryptOpens ==
  ASSUME IInv, TypeOK', NEW p \in Peers, NEW i, NEW ok \in BOOLEAN, Outcome(p, i, ok), Orderly',
         Ways(Turned(p, sent[Other(p)][i]), sent[Other(p)][i], dr'[p], ok)
  PROVE  Matches(p, dr[p])' /\ (ok \/ Cardinality(Unread(p, i)) > MaxSkip)
<1> DEFINE m == sent[Other(p)][i]
           d == Turned(p, m)
<1>1. Arrived(p, i)
  BY TurnedMatches, Arrival DEF Arrived
<1>2. Refused(d, m, dr'[p], ok) \/ Passing(d, m, dr'[p], ok) \/ Kept(d, m, dr'[p], ok)
  BY <1>1, NeverUnknown DEF Ways
<1>3. CASE Refused(d, m, dr'[p], ok)
  BY <1>1, <1>3, RefusedOpens
<1>4. CASE Passing(d, m, dr'[p], ok)
  BY <1>1, <1>4, PassingOpens
<1>5. CASE Kept(d, m, dr'[p], ok)
  BY <1>1, <1>5, KeptOpens
<1> QED
  BY <1>2, <1>3, <1>4, <1>5

\* A ratchet step of p changes nothing for the other peer: the pair it knows is
\* the one before.
LEMMA DecryptMatchesOther ==
  ASSUME IInv, TypeOK', NEW p \in Peers, NEW i, NEW ok \in BOOLEAN, Outcome(p, i, ok), Orderly',
         Matches(Other(p), dr[Other(p)])
  PROVE  Matches(Other(p), dr[Other(p)])'
<1> DEFINE q == Other(p)
           m == sent[q][i]
           d == Turned(p, m)
           s == Stream(p)
           t == Stream(p)'
           N == Len(sent[p]) + 1
<1>1. TypeOK /\ Other(q) = p
  BY OtherPeer DEF IInv
<1>2. /\ q \in Peers /\ q # p /\ sent' = sent /\ got'[q] = got[q] /\ dr'[q] = dr[q]
      /\ m.dh \in Pairs /\ dr[p] \in Ratchets
  BY <1>1, OutcomeFrame
<1>3. StreamIs /\ StreamIs'
  <2>1. StreamIs'
    BY StreamFields, PTL
  <2> QED
    BY <1>1, <2>1, StreamFields
<1>4. /\ Len(s) = N /\ Len(t) = N /\ Len(sent[p]) \in Nat
      /\ \A j \in 1..Len(sent[p]) : t[j] = s[j]
      /\ s[N] = Sealed(p) /\ t[N] = Sealed(p)'
  BY <1>2, <1>3 DEF StreamIs
<1>5. dr'[p].self = d.self /\ dr'[p].send = d.send
  BY OutcomeFields
<1>6. t[N].dh # dr[q].remote \/ t[N] = s[N]
  <2>1. CASE d = dr[p]
    <3>1. Sealed(p)' = Sealed(p)
      BY <1>5, <2>1 DEF Sealed
    <3> QED
      BY <1>4, <3>1
  <2>2. CASE Ahead(q, p) /\ d = Ratcheted(dr[p], m.dh)
    <3>1. dr[q].remote = dr[p].self
      BY <2>2 DEF Ahead
    <3>2. LET e == Ratcheted(dr[p], m.dh)
          IN NextPair(dr[p].self).i = dr[p].self.i + 1 /\ e.self = NextPair(dr[p].self)
      BY <1>2, RatchetedFields
    <3>3. dr'[p].self.i = dr[p].self.i + 1
      BY <1>5, <2>2, <3>2
    <3>4. dr[p].self.i \in Nat
      BY <1>2 DEF Ratchets, Pairs
    <3>5. dr'[p].self # dr[p].self
      BY <3>3, <3>4
    <3>6. t[N].dh = dr'[p].self
      BY <1>4 DEF Sealed
    <3> QED
      BY <3>1, <3>5, <3>6
  <2> QED
    BY <2>1, <2>2, Arrival
<1>7. \A j : Read(q, j)' = Read(q, j)
  BY <1>2 DEF Read
<1>8. \A l : Past(dr[q], l)' <=> Past(dr[q], l)
  BY <1>2 DEF Past
<1>9. Lost(q, dr[q])' = Lost(q, dr[q])
  BY <1>1, <1>2, <1>7, <1>8 DEF Lost
<1> HIDE DEF s, t, N
<1>10. \A j \in 1..Len(s) : s[j].dh = dr[q].remote => s[j].key.chain = dr[q].recv.chain
  BY <1>1 DEF Matches, s
<1>11. \A j \in 1..Len(t) : t[j].dh = dr[q].remote => t[j].key.chain = dr[q].recv.chain
  <2> SUFFICES ASSUME NEW j \in 1..N, t[j].dh = dr[q].remote PROVE t[j].key.chain = dr[q].recv.chain
    BY <1>4
  <2>1. t[j] = s[j]
    <3>1. j \in 1..Len(sent[p]) \/ j = N
      BY <1>4 DEF N
    <3> QED
      BY <1>4, <1>6, <3>1
  <2> QED
    BY <1>4, <1>10, <2>1
<1> QED
  BY <1>1, <1>2, <1>7, <1>8, <1>9, <1>11 DEF Matches, t

\* Decrypt keeps every delivery as it should be.
LEMMA DecryptDelivers ==
  ASSUME IInv, TypeOK', NEW p \in Peers, NEW i, NEW ok \in BOOLEAN, Outcome(p, i, ok),
         Ways(Turned(p, sent[Other(p)][i]), sent[Other(p)][i], dr'[p], ok)
  PROVE  DeliveryInv'
<1> DEFINE q == Other(p)
           m == sent[q][i]
           last == Len(got[p]) + 1
<1>1. CASE ~Orderly'
  BY <1>1 DEF DeliveryInv
<1>2. CASE Orderly'
  <2>1. /\ TypeOK /\ SpentInv /\ DeliveryInv /\ Orderly /\ Opens
        /\ \A r \in Peers : r = p \/ r = q
    BY <1>2, Arrival, OtherPeer DEF IInv, DeliveryInv
  <2>2. /\ q \in Peers /\ q # p /\ Other(q) = p /\ sent' = sent /\ i \in Nat
        /\ Len(got[p]) \in Nat /\ Len(got'[p]) = last
        /\ \A k \in 1..Len(got[p]) : got'[p][k] = got[p][k]
        /\ got'[p][last].i = i /\ got'[p][last].ok = ok
        /\ \A k \in 1..last : k \in 1..Len(got[p]) \/ k = last
        /\ got'[q] = got[q] /\ dr'[q] = dr[q]
        /\ DOMAIN got[p] = 1..Len(got[p]) /\ DOMAIN got'[p] = 1..last
    BY <2>1, OutcomeFrame
  <2>3. Matches(p, dr[p])' /\ (ok \/ Cardinality(Unread(p, i)) > MaxSkip)
    BY <1>2, DecryptOpens
  <2>4. dr'[p].remote = m.dh
    <3>1. m.dh = Turned(p, m).remote
      BY <1>2, TurnedMatches
    <3> QED
      BY <3>1, OutcomeFields
  <2>5. ASSUME NEW k \in 1..last PROVE got'[p][k].ok \/ Cardinality(Missing(p, k)') > MaxSkip
    <3>1. CASE k = last
      <4>1. Missing(p, k)' = Unread(p, i)
        <5>1. Missing(p, k)' = {j \in 1..(i - 1) : \A l \in 1..(k - 1) : got'[p][l].i = j => ~got'[p][l].ok}
          BY <2>2, <3>1 DEF Missing
        <5>2. 1..(k - 1) = 1..Len(got[p])
          BY <2>2, <3>1
        <5>3. \A j : Read(p, j) <=> \E l \in 1..(k - 1) : got'[p][l].i = j /\ got'[p][l].ok
          BY <2>2, <5>2 DEF Read
        <5> HIDE DEF last
        <5> QED
          BY <5>1, <5>3 DEF Unread
      <4> QED
        BY <2>2, <2>3, <3>1, <4>1
    <3>2. CASE k \in 1..Len(got[p])
      <4>1. got'[p][k] = got[p][k] /\ \A l \in 1..(k - 1) : got'[p][l] = got[p][l]
        <5>1. \A l \in 1..(k - 1) : l \in 1..Len(got[p])
          BY <2>2, <3>2
        <5> QED
          BY <2>2, <3>2, <5>1
      <4>2. Missing(p, k)' = Missing(p, k)
        BY <4>1 DEF Missing
      <4>3. got[p][k].ok \/ Cardinality(Missing(p, k)) > MaxSkip
        BY <2>1, <2>2, <3>2 DEF Opens
      <4> QED
        BY <4>1, <4>2, <4>3
    <3> QED
      BY <2>2, <3>1, <3>2
  <2>6. ASSUME NEW k \in DOMAIN got'[q] PROVE got'[q][k].ok \/ Cardinality(Missing(q, k)') > MaxSkip
    <3>1. Missing(q, k)' = Missing(q, k)
      BY <2>2 DEF Missing
    <3> QED
      BY <2>1, <2>2, <2>6, <3>1 DEF Opens
  <2>7. Opens'
    <3>1. \A r \in Peers : \A k \in DOMAIN got'[r] :
            got'[r][k].ok \/ Cardinality(Missing(r, k)') > MaxSkip
      BY <2>1, <2>2, <2>5, <2>6
    <3> QED
      BY <3>1 DEF Opens
  <2>8. (\E k \in 1..Len(got[p]) : Message(p, k).dh = dr[p].remote)'
    <3>1. last \in 1..last
      BY <2>2
    <3>2. sent'[q][got'[p][last].i] = m
      BY <2>2
    <3>3. \E k \in 1..last : sent'[q][got'[p][k].i].dh = dr'[p].remote
      BY <2>4, <3>1, <3>2
    <3> HIDE DEF last
    <3> QED
      BY <2>2, <3>3 DEF Message
  <2>9. ASSUME Receiving(q)'
        PROVE  Matches(q, dr[q])' /\ (\E k \in 1..Len(got[q]) : Message(q, k).dh = dr[q].remote)'
    <3>1. Receiving(q)
      BY <2>2, <2>9 DEF Receiving
    <3>2. Matches(q, dr[q]) /\ \E k \in 1..Len(got[q]) : Message(q, k).dh = dr[q].remote
      BY <2>1, <2>2, <3>1 DEF DeliveryInv
    <3>3. Matches(q, dr[q])'
      BY <1>2, <3>2, DecryptMatchesOther
    <3>4. \A k : Message(q, k)' = Message(q, k)
      BY <2>2 DEF Message
    <3> QED
      BY <2>2, <3>2, <3>3, <3>4
  <2>10. ASSUME NEW r \in Peers, Receiving(r)'
         PROVE  /\ Matches(r, dr[r])'
                /\ (\E k \in 1..Len(got[r]) : Message(r, k).dh = dr[r].remote)'
    <3>1. CASE r = p
      BY <2>3, <2>8, <3>1
    <3>2. CASE r = q
      BY <2>9, <2>10, <3>2
    <3> QED
      BY <2>1, <3>1, <3>2
  <2> HIDE DEF last, q, m
  <2> QED
    BY <2>7, <2>10 DEF DeliveryInv
<1> QED
  BY <1>1, <1>2

-----------------------------------------------------------------------------

\* Every reachable state satisfies the inductive invariant.
THEOREM Invariance == Spec => []IInv
<1>1. IInv /\ [Next]_vars => IInv'
  <2> SUFFICES ASSUME IInv, [Next]_vars PROVE IInv'
    OBVIOUS
  <2>1. TypeOK' /\ SkipInv'
    BY TypeStep
  <2>2. ASSUME NEW p \in Peers, Encrypt(p)
        PROVE  /\ SentInv' /\ ChainsInv' /\ ApartInv' /\ SpentInv' /\ OpensOnce'
               /\ StreamInv' /\ HeadersInv' /\ TurnsInv' /\ DeliveryInv'
    BY <2>1, <2>2, EncryptSends, EncryptSpends, EncryptOrders, EncryptTurns, EncryptDelivers
  <2>3. ASSUME NEW p \in Peers, NEW i \in 1..MaxSent, Decrypt(p, i)
        PROVE  /\ SentInv' /\ ChainsInv' /\ ApartInv' /\ SpentInv' /\ OpensOnce'
               /\ StreamInv' /\ HeadersInv' /\ TurnsInv' /\ DeliveryInv'
    <3> DEFINE m == sent[Other(p)][i]
    <3>1. PICK ok \in BOOLEAN : Outcome(p, i, ok) /\ Ways(Turned(p, m), m, dr'[p], ok)
      BY <2>3, DecryptWays DEF IInv, SkipInv
    <3>2. SentInv' /\ ChainsInv' /\ ApartInv' /\ SpentInv' /\ OpensOnce'
      BY <3>1, DecryptSends, DecryptSpends
    <3>3. StreamInv' /\ HeadersInv' /\ TurnsInv'
      BY <2>1, <3>1, DecryptStreams, DecryptHeaders, DecryptTurns
    <3>4. DeliveryInv'
      BY <2>1, <3>1, DecryptDelivers
    <3> QED
      BY <3>2, <3>3, <3>4
  <2>4. ASSUME UNCHANGED vars
        PROVE  /\ SentInv' /\ ChainsInv' /\ ApartInv' /\ SpentInv' /\ OpensOnce'
               /\ StreamInv' /\ HeadersInv' /\ TurnsInv' /\ DeliveryInv'
    <3>1. dr' = dr /\ sent' = sent /\ got' = got
      BY <2>4 DEF vars
    <3>2. SentInv'
      BY <3>1 DEF IInv, SentInv
    <3>3. ChainsInv'
      BY <3>1 DEF IInv, ChainsInv, MadeWith
    <3>4. ApartInv'
      <4>1. \A p : SendingChains(p)' = SendingChains(p)
        BY <3>1 DEF SendingChains
      <4> QED
        BY <3>1, <4>1 DEF IInv, ApartInv
    <3>5. \A p \in Peers : Used(p)' = Used(p) /\ Receiving(p)' = Receiving(p)
      BY <3>1 DEF Used, Message, Receiving
    <3>6. SpentInv'
      BY <3>1, <3>5 DEF IInv, SpentInv, Behind
    <3>7. OpensOnce'
      BY <3>1 DEF IInv, OpensOnce
    <3>8. \A p \in Peers : Stream(p)' = Stream(p)
      BY <3>1 DEF Stream
    <3>9. StreamInv'
      <4>1. ASSUME NEW p \in Peers PROVE InOrder(Stream(p)')
        BY <3>8 DEF IInv, StreamInv
      <4> QED
        BY <4>1 DEF StreamInv, InOrder
    <3>10. HeadersInv'
      BY <3>1 DEF IInv, HeadersInv, Receiving
    <3>11. Orderly' <=> Orderly
      <4>1. (DeliveredOnce' <=> DeliveredOnce) /\ (Early' <=> Early)
        BY <3>1 DEF DeliveredOnce, Early
      <4>2. \A p, k : Message(p, k)' = Message(p, k)
        BY <3>1 DEF Message
      <4>3. Forward' <=> Forward
        BY <3>1, <4>2 DEF Forward
      <4> QED
        BY <4>1, <4>3 DEF Orderly
    <3>12. TurnsInv'
      <4>1. \A p, q : Ahead(p, q)' <=> Ahead(p, q)
        BY <3>1 DEF Ahead, Expected
      <4> QED
        BY <3>11, <4>1 DEF IInv, TurnsInv
    <3>13. DeliveryInv'
      <4>1. Opens' <=> Opens
        <5>1. \A p, k : Missing(p, k)' = Missing(p, k)
          BY <3>1 DEF Missing
        <5> QED
          BY <3>1, <5>1 DEF Opens
      <4>2. ASSUME NEW p \in Peers PROVE Matches(p, dr[p])' <=> Matches(p, dr[p])
        <5>1. \A i : Read(p, i)' <=> Read(p, i)
          BY <3>1 DEF Read
        <5>2. \A m : Past(dr[p], m)' <=> Past(dr[p], m)
          BY <3>1 DEF Past
        <5>3. Lost(p, dr[p])' = Lost(p, dr[p])
          BY <3>1, <5>1, <5>2 DEF Lost
        <5>4. Stream(Other(p))' = Stream(Other(p))
          BY <3>8, OtherPeer
        <5> QED
          BY <3>1, <5>1, <5>2, <5>3, <5>4 DEF Matches
      <4>3. \A p \in Peers : (\E k \in 1..Len(got[p]) : Message(p, k).dh = dr[p].remote)' <=>
                              (\E k \in 1..Len(got[p]) : Message(p, k).dh = dr[p].remote)
        BY <3>1 DEF Message
      <4> QED
        BY <3>5, <3>11, <4>1, <4>2, <4>3 DEF IInv, DeliveryInv
    <3> QED
      BY <3>2, <3>3, <3>4, <3>6, <3>7, <3>9, <3>10, <3>12, <3>13
  <2> QED
    BY <2>1, <2>2, <2>3, <2>4 DEF Next, IInv, SkipInv
<1> QED
  BY <1>1, InitInv, PTL DEF Spec

\* However many messages are lost, the skip list keeps within MaxSkip.
THEOREM SkipListFits == Spec => []SkipListBounded
  BY Invariance, PTL DEF IInv

\* A message opens at most once, however often and late it is repeated, also
\* when its number is in the list again for another chain.
THEOREM ReplaysFail == Spec => []OpensOnce
  BY Invariance, PTL DEF IInv

\* No two messages of either peer are encrypted under one key.
THEOREM KeysFresh == Spec => []KeysUsedOnce
<1>1. IInv => KeysUsedOnce
  <2> SUFFICES ASSUME IInv, NEW p \in Peers, NEW q \in Peers,
                      NEW i \in DOMAIN sent[p], NEW j \in DOMAIN sent[q],
                      sent[p][i].key = sent[q][j].key
               PROVE  p = q /\ i = j
    BY DEF KeysUsedOnce
  <2>1. i \in 1..Len(sent[p]) /\ j \in 1..Len(sent[q])
    BY DEF IInv, TypeOK
  <2>2. CASE p = q
    BY <2>1, <2>2 DEF IInv, SentInv
  <2>3. CASE q = Other(p)
    <3>1. sent[p][i].key.chain \in SendingChains(p) /\ sent[q][j].key.chain \in SendingChains(q)
      BY <2>1 DEF SendingChains
    <3> QED
      BY <2>3, <3>1 DEF IInv, ApartInv
  <2> QED
    BY <2>2, <2>3, OtherPeer
<1> QED
  BY <1>1, Invariance, PTL

\* While the network delivers each message once at most, none of an older chain
\* late, and the initiator encrypts first, a message opens unless more than
\* MaxSkip sent before it have not been opened.
THEOREM OrderlyDecrypts == Spec => []ForwardDecrypts
<1>1. IInv => ForwardDecrypts
  BY DEF IInv, DeliveryInv, ForwardDecrypts
<1> QED
  BY <1>1, Invariance, PTL

\* Under the same conditions one peer is a ratchet step behind the other, with
\* a root key the other had.
THEOREM RootsNeverPart == Spec => []RootsAgree
<1>1. ASSUME TypeOK, NEW p \in Peers, NEW q \in Peers, Ahead(q, p)
      PROVE  IsPrefix(dr[p].root, dr[q].root)
  <2> DEFINE x == Secret(dr[p].self, dr[q].self)
  <2>1. dr[p].root \in Seq(SUBSET Pairs) /\ x \in SUBSET Pairs
    BY <1>1 DEF TypeOK, Ratchets, RootKeys, Secret
  <2>2. dr[q].root = Append(dr[p].root, x)
    BY <1>1 DEF Ahead
  <2> HIDE DEF x
  <2> QED
    BY <2>1, <2>2 DEF IsPrefix
<1>2. IInv => RootsAgree
  <2> SUFFICES ASSUME IInv, Orderly
               PROVE  \/ IsPrefix(dr["alice"].root, dr["bob"].root)
                      \/ IsPrefix(dr["bob"].root, dr["alice"].root)
    BY DEF RootsAgree
  <2>1. PICK p \in Peers : Ahead(p, Other(p))
    BY DEF IInv, TurnsInv
  <2>2. IsPrefix(dr[Other(p)].root, dr[p].root)
    BY <1>1, <2>1, OtherPeer DEF IInv
  <2> QED
    BY <2>2 DEF Peers, Other
<1> QED
  BY <1>2, Invariance, PTL

=============================================================================
