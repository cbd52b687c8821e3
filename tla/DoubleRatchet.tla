--------------------------- MODULE DoubleRatchet ---------------------------
(***************************************************************************)
(* The Double Ratchet of pkg/crypto/ratchet.go: two peers, each with the   *)
(* state of one DoubleRatchet, over a network that loses, reorders and     *)
(* duplicates messages.                                                    *)
(*                                                                         *)
(* Keys are symbolic.  A key pair is a peer and the number of pairs the    *)
(* peer made before it; the secret of two pairs is their set; a root key   *)
(* is the sequence of secrets mixed into the shared secret by kdfRK, and a *)
(* chain has the name of the root key made with it; a message key is a     *)
(* chain and a place in it.  Two keys are equal when they were derived     *)
(* alike, and a message decrypts under its own key only (AES-GCM).         *)
(* PN is left out: the receiver never reads it.                            *)
(***************************************************************************)
EXTENDS Integers, Sequences, FiniteSets, SequencesExt

CONSTANTS MaxSkip,
          MaxSent, MaxGot  \* bounds: calls of Encrypt and of Decrypt per peer

ASSUME RatchetAssumption == MaxSkip \in Nat

Peers == {"alice", "bob"}
Other(p) == IF p = "alice" THEN "bob" ELSE "alice"

Pair(p, i) == [owner |-> p, i |-> i]
NextPair(k) == [k EXCEPT !.i = @ + 1]
Secret(k, l) == {k, l}  \* X25519

NoPair == Pair("nobody", 0)  \* 32 zero bytes
ZeroChain == <<{}>>          \* the chain key of 32 zero bytes

VARIABLES
  dr,    \* the DoubleRatchet of each peer
  sent,  \* what each peer encrypted, in order
  got    \* history: which of the other's messages a peer decrypted, and how it went

vars == <<dr, sent, got>>

Pairs == [owner : Peers \cup {"nobody"}, i : Nat]
RootKeys == Seq(SUBSET Pairs)
MessageKeys == [chain : RootKeys, n : Nat]

Ratchets ==
  [root : RootKeys, self : Pairs, remote : Pairs, send : MessageKeys, recv : MessageKeys,
   stepNeeded : BOOLEAN, skipped : SUBSET MessageKeys, skippedCount : Nat]

TypeOK ==
  /\ dr \in [Peers -> Ratchets]
  /\ sent \in [Peers -> Seq([dh : Pairs, n : Nat, key : MessageKeys])]
  /\ got \in [Peers -> Seq([i : Nat, ok : BOOLEAN])]

\* InitAlice and InitBob; Bob's first pair is known to Alice.
InitAlice ==
  LET root == <<Secret(Pair("alice", 0), Pair("bob", 0))>>
  IN [root |-> root,
      self |-> Pair("alice", 0), remote |-> Pair("bob", 0),
      send |-> [chain |-> root, n |-> 0], recv |-> [chain |-> ZeroChain, n |-> 0],
      stepNeeded |-> TRUE, skipped |-> {}, skippedCount |-> 0]

InitBob ==
  [root |-> <<>>,
   self |-> Pair("bob", 0), remote |-> NoPair,
   send |-> [chain |-> ZeroChain, n |-> 0], recv |-> [chain |-> ZeroChain, n |-> 0],
   stepNeeded |-> FALSE, skipped |-> {}, skippedCount |-> 0]

Init ==
  /\ dr = [p \in Peers |-> IF p = "alice" THEN InitAlice ELSE InitBob]
  /\ sent = [p \in Peers |-> <<>>]
  /\ got = [p \in Peers |-> <<>>]

-----------------------------------------------------------------------------

\* Fault: the sending chain is not moved on.
EncryptInPlace(p) ==
  LET d == dr[p]
  IN /\ Len(sent[p]) < MaxSent
     /\ sent' = [sent EXCEPT ![p] = Append(@, [dh |-> d.self, n |-> d.send.n, key |-> d.send])]
     /\ UNCHANGED <<dr, got>>

\* Encrypt: the next key of the sending chain.
Encrypt(p) ==
  LET d == dr[p]
  IN /\ Len(sent[p]) < MaxSent
     /\ sent' = [sent EXCEPT ![p] = Append(@, [dh |-> d.self, n |-> d.send.n, key |-> d.send])]
     /\ dr' = [dr EXCEPT ![p].send.n = @ + 1]
     /\ UNCHANGED got

\* Fault: the root key of the sending chain is not kept.
RatchetedHalf(d, remote) ==
  LET root1 == Append(d.root, Secret(d.self, remote))
      self2 == NextPair(d.self)
      root2 == Append(root1, Secret(self2, remote))
  IN [d EXCEPT !.root = root1, !.self = self2, !.remote = remote,
               !.recv = [chain |-> root1, n |-> 0], !.send = [chain |-> root2, n |-> 0],
               !.stepNeeded = FALSE]

\* Fault: the receiving chain gets a new key but keeps its length.
RatchetedLengthKept(d, remote) ==
  LET root1 == Append(d.root, Secret(d.self, remote))
      self2 == NextPair(d.self)
      root2 == Append(root1, Secret(self2, remote))
  IN [d EXCEPT !.root = root2, !.self = self2, !.remote = remote,
               !.recv = [chain |-> root1, n |-> @.n], !.send = [chain |-> root2, n |-> 0],
               !.stepNeeded = FALSE]

\* dhRatchetStep: a receiving chain from the present pair, then a new pair and
\* a sending chain from it.  The skipped keys of the chain left behind stay,
\* its chain key does not.
Ratcheted(d, remote) ==
  LET root1 == Append(d.root, Secret(d.self, remote))
      self2 == NextPair(d.self)
      root2 == Append(root1, Secret(self2, remote))
  IN [d EXCEPT !.root = root2, !.self = self2, !.remote = remote,
               !.recv = [chain |-> root1, n |-> 0], !.send = [chain |-> root2, n |-> 0],
               !.stepNeeded = FALSE]

\* The first step of Decrypt: a ratchet step when the header names a new key.
Turned(p, m) ==
  IF dr[p].stepNeeded \/ dr[p].remote # m.dh THEN Ratcheted(dr[p], m.dh) ELSE dr[p]

\* Fault: what is already in the skip list is not counted.
TooFarAtOnce(d, n) == n > d.recv.n + MaxSkip

\* skipMessageKeys refuses.
TooFar(d, n) ==
  /\ n > d.recv.n
  /\ \/ d.recv.n + MaxSkip < n
     \/ d.skippedCount + (n - d.recv.n) > MaxSkip

\* skipMessageKeys: the keys up to n are put aside, each in the place of one
\* with its number.
SkippedTo(d, n) ==
  LET passed == d.recv.n..(n - 1)
  IN [d EXCEPT !.skipped = {k \in @ : k.n \notin passed}
                             \cup {[chain |-> d.recv.chain, n |-> i] : i \in passed},
               !.skippedCount = @ + Cardinality(passed),
               !.recv.n = n]

\* Decrypt leaves state d and opens the message, or fails to, with the key.
Opened(p, i, d, ok) ==
  /\ dr' = [dr EXCEPT ![p] = d]
  /\ got' = [got EXCEPT ![p] = Append(@, [i |-> i, ok |-> ok])]
  /\ UNCHANGED sent

\* Message i of the other peer, sent at some time before, reaches p.
Arrives(p, i) == Len(got[p]) < MaxGot /\ i \in DOMAIN sent[Other(p)]

DecryptTooFar(p, i) ==
  LET m == sent[Other(p)][i]
      d == Turned(p, m)
  IN Arrives(p, i) /\ TooFar(d, m.n) /\ Opened(p, i, d, FALSE)

\* A message the receiving chain has reached or passes over to.
DecryptNext(p, i) ==
  LET m == sent[Other(p)][i]
      d == Turned(p, m)
  IN /\ Arrives(p, i) /\ ~TooFar(d, m.n) /\ m.n >= d.recv.n
     /\ LET e == SkippedTo(d, m.n)
        IN Opened(p, i, [e EXCEPT !.recv.n = @ + 1], m.key = e.recv)

\* The message is behind the receiving chain, and the skip list has key under
\* its number.
Skipped(d, m, key) == m.n < d.recv.n /\ key \in d.skipped /\ key.n = m.n

\* Fault: a skipped key is used and stays in the list.
DecryptSkippedKept(p, i) ==
  LET m == sent[Other(p)][i]
      d == Turned(p, m)
  IN Arrives(p, i) /\ \E key \in d.skipped : Skipped(d, m, key) /\ Opened(p, i, d, m.key = key)

DecryptSkipped(p, i) ==
  LET m == sent[Other(p)][i]
      d == Turned(p, m)
  IN /\ Arrives(p, i)
     /\ \E key \in d.skipped :
          /\ Skipped(d, m, key)
          /\ Opened(p, i, [d EXCEPT !.skipped = @ \ {key}, !.skippedCount = @ - 1], m.key = key)

\* Fault: the counter goes down whether or not the key was there.
DecryptUnknownCounted(p, i) ==
  LET m == sent[Other(p)][i]
      d == Turned(p, m)
  IN /\ Arrives(p, i) /\ m.n < d.recv.n /\ \A key \in d.skipped : key.n # m.n
     /\ Opened(p, i, [d EXCEPT !.skippedCount = @ - 1], FALSE)

DecryptUnknown(p, i) ==
  LET m == sent[Other(p)][i]
      d == Turned(p, m)
  IN /\ Arrives(p, i) /\ m.n < d.recv.n /\ \A key \in d.skipped : key.n # m.n
     /\ Opened(p, i, d, FALSE)

Decrypt(p, i) ==
  DecryptTooFar(p, i) \/ DecryptNext(p, i) \/ DecryptSkipped(p, i) \/ DecryptUnknown(p, i)

Next == \E p \in Peers : Encrypt(p) \/ \E i \in 1..MaxSent : Decrypt(p, i)

Spec == Init /\ [][Next]_vars

-----------------------------------------------------------------------------
(* Properties *)

\* Bob has encrypted before he ever decrypted.
Early == \E i \in DOMAIN sent["bob"] : sent["bob"][i].key.chain = ZeroChain

Message(p, k) == sent[Other(p)][got[p][k].i]

DeliveredOnce ==
  \A p \in Peers : \A j, k \in DOMAIN got[p] : got[p][j].i = got[p][k].i => j = k

\* No message of a chain arrives after one of a later chain.
Forward ==
  \A p \in Peers : \A j, k \in DOMAIN got[p] : j < k => Message(p, j).dh.i <= Message(p, k).dh.i

\* The messages sent before the one p got as its k-th that p had not opened by then.
Missing(p, k) ==
  {i \in 1..(got[p][k].i - 1) : \A j \in 1..(k - 1) : got[p][j].i = i => ~got[p][j].ok}

Opens == \A p \in Peers : \A k \in DOMAIN got[p] : got[p][k].ok \/ Cardinality(Missing(p, k)) > MaxSkip

\* The network delivers a message once at most and none of an older chain late,
\* and the initiator encrypts first.
Orderly == DeliveredOnce /\ Forward /\ ~Early

\* The session survives loss, and reordering within a chain: when the initiator
\* encrypts first and no message of an older chain comes late, every message
\* opens, unless more than MaxSkip sent before it are missing.
ForwardDecrypts == Orderly => Opens

\* Under the same conditions the peers never part ways: the root key of one is
\* what the other's will be or was.
RootsAgree ==
  Orderly =>
    IsPrefix(dr["alice"].root, dr["bob"].root) \/ IsPrefix(dr["bob"].root, dr["alice"].root)

\* However often and late the network repeats a message, it opens at most once.
OpensOnce ==
  \A p \in Peers : \A j, k \in DOMAIN got[p] :
    got[p][j].i = got[p][k].i /\ got[p][j].ok /\ got[p][k].ok => j = k

\* No two messages are encrypted under one key, whatever is lost or comes late.
KeysUsedOnce ==
  \A p, q \in Peers : \A i \in DOMAIN sent[p], j \in DOMAIN sent[q] :
    sent[p][i].key = sent[q][j].key => p = q /\ i = j

\* The skip list never outgrows MaxSkip, across chains and failed decryptions.
SkipListBounded ==
  \A p \in Peers : /\ Cardinality(dr[p].skipped) <= dr[p].skippedCount
                   /\ dr[p].skippedCount <= MaxSkip

\* README.md:509, "Skip keys: handling of skipped and reordered messages": the
\* order in which messages arrive does not matter.
ReorderedDecrypts == DeliveredOnce /\ ~Early => Opens

\* No two messages of one peer have one key; a key of the present pair is of
\* the present sending chain, and behind it.
SentInv ==
  \A p \in Peers :
    /\ dr[p].self.owner = p
    /\ \A i \in 1..Len(sent[p]) :
         /\ sent[p][i].dh.owner = p /\ sent[p][i].dh.i <= dr[p].self.i
         /\ sent[p][i].dh = dr[p].self => sent[p][i].key.n < dr[p].send.n
         /\ \A j \in 1..Len(sent[p]) : sent[p][i].key = sent[p][j].key => i = j

\* The sending chain c of p was made with pair k: of the pairs of p, its last
\* secret has k alone.  Bob's first chain was made with none.
MadeWith(c, p, k) ==
  /\ c # <<>>
  /\ \/ c = ZeroChain /\ k = Pair("bob", 0)
     \/ k \in Last(c) /\ \A l \in Last(c) : l.owner = p => l = k

\* A chain tells the pair it was made with.
ChainsInv ==
  \A p \in Peers :
    /\ MadeWith(dr[p].send.chain, p, dr[p].self)
    /\ \A i \in 1..Len(sent[p]) : MadeWith(sent[p][i].key.chain, p, sent[p][i].dh)

SendingChains(p) == {dr[p].send.chain} \cup {sent[p][i].key.chain : i \in 1..Len(sent[p])}

\* The peers never send on one chain: a new chain has a pair of its maker that
\* the other peer has not seen.
ApartInv ==
  \A p \in Peers :
    /\ \A c \in SendingChains(p) : \A l \in Last(c) : l.owner \in Peers /\ l.i \in 0..dr[l.owner].self.i
    /\ SendingChains(p) \cap SendingChains(Other(p)) = {}

\* The keys p has opened messages with.
Used(p) == {Message(p, k).key : k \in {j \in 1..Len(got[p]) : got[p][j].ok}}

\* p has a receiving chain.
Receiving(p) == ~dr[p].stepNeeded /\ dr[p].remote # NoPair

\* State d of a ratchet has left key behind: it will not derive it again.
Behind(d, key) ==
  /\ Len(key.chain) <= Len(d.root)
  /\ key.chain = d.recv.chain => key.n < d.recv.n

\* A key is used once: those used and those kept are behind, and no key is both.
SpentInv ==
  \A p \in Peers :
    /\ ~Receiving(p) => dr[p].skipped = {} /\ Used(p) = {}
    /\ Receiving(p) => Len(dr[p].recv.chain) <= Len(dr[p].root)
    /\ \A key \in dr[p].skipped \cup Used(p) : Behind(dr[p], key)
    /\ dr[p].skipped \cap Used(p) = {}
    /\ \A k \in 1..Len(got[p]) : got[p][k].i \in 1..Len(sent[Other(p)])

\* What p has sent, and the message it would send now.
Stream(p) == Append(sent[p], [dh |-> dr[p].self, n |-> dr[p].send.n, key |-> dr[p].send])

\* The numbers in a chain are consecutive, and the chains follow one another.
InOrder(s) ==
  \A i \in 1..Len(s) :
    /\ s[i].key.n = s[i].n /\ s[i].n < i /\ s[i - s[i].n].dh = s[i].dh
    /\ \A j \in 1..Len(s) :
         /\ j <= i => s[j].dh.i <= s[i].dh.i
         /\ s[j].dh = s[i].dh => i - j = s[i].n - s[j].n /\ s[j].key.chain = s[i].key.chain

StreamInv == \A p \in Peers : InOrder(Stream(p))

\* What a ratchet knows of the other peer, and when its sending chain is still
\* the one of zero bytes.
HeadersInv ==
  /\ dr["alice"].remote # NoPair /\ ~dr["bob"].stepNeeded
  /\ \A p \in Peers :
       /\ dr[p].remote # NoPair => dr[p].remote.owner = Other(p)
       /\ dr[p].stepNeeded => dr[p].remote.i = 0
       /\ ~Receiving(p) => got[p] = <<>> /\ dr[p].skippedCount = 0
       /\ \A k, l \in dr[p].skipped : k.n = l.n => k = l
       /\ dr[p].send.chain = IF p = "bob" /\ dr[p].self.i = 0 THEN ZeroChain ELSE dr[p].root
  /\ \A i \in 1..Len(sent["bob"]) : sent["bob"][i].dh.i = 0 => sent["bob"][i].key.chain = ZeroChain

\* The number of the first pair of the other peer that p has not seen.
Expected(p) == IF dr[p].remote = NoPair THEN 0 ELSE dr[p].remote.i + 1

\* q has made one ratchet step more than p: it knows p's pair, p not yet its.
Ahead(q, p) ==
  /\ dr[q].remote = dr[p].self /\ dr[q].self.i = Expected(p)
  /\ dr[q].root = Append(dr[p].root, Secret(dr[p].self, dr[q].self))

\* The peers ratchet in turn.
TurnsInv == Orderly => \E p \in Peers : Ahead(p, Other(p))

\* p has opened message i of the other.
Read(p, i) == \E k \in 1..Len(got[p]) : got[p][k].i = i /\ got[p][k].ok

\* A ratchet in state d has passed the place of message m.
Past(d, m) == m.dh.i < d.remote.i \/ (m.dh = d.remote /\ m.n < d.recv.n)

\* The messages p has passed and not opened.
Lost(p, d) == {i \in 1..Len(sent[Other(p)]) : Past(d, sent[Other(p)][i]) /\ ~Read(p, i)}

\* State d of p's receiving chain matches what the other peer has sent: the
\* chain is the right one, every message passed in it was opened or has its key
\* in the list, and the list is not larger than what has been lost.
Matches(p, d) ==
  LET q == Other(p)
  IN /\ \A i \in 1..Len(Stream(q)) : Stream(q)[i].dh = d.remote => Stream(q)[i].key.chain = d.recv.chain
     /\ d.recv.n > 0 => \E i \in 1..Len(sent[q]) : /\ sent[q][i].dh = d.remote
                                                   /\ sent[q][i].n = d.recv.n - 1
     /\ \A i \in 1..Len(sent[q]) :
          /\ sent[q][i].dh = d.remote /\ sent[q][i].n < d.recv.n =>
               Read(p, i) \/ sent[q][i].key \in d.skipped
          /\ Read(p, i) => Past(d, sent[q][i])
     /\ d.skippedCount <= Cardinality(Lost(p, d))

DeliveryInv ==
  Orderly =>
    /\ Opens
    /\ \A p \in Peers : Receiving(p) =>
         /\ Matches(p, dr[p])
         /\ \E k \in 1..Len(got[p]) : Message(p, k).dh = dr[p].remote

\* Inductive.
IInv ==
  /\ TypeOK /\ (\A p \in Peers : IsFiniteSet(dr[p].skipped))
  /\ SkipListBounded /\ SentInv /\ ChainsInv /\ ApartInv /\ SpentInv /\ OpensOnce
  /\ StreamInv /\ HeadersInv /\ TurnsInv /\ DeliveryInv

=============================================================================
