---------------------------- MODULE ClientProofs ----------------------------
(***************************************************************************)
(* The terminal client for any number of chats, messages and restarts.     *)
(***************************************************************************)
EXTENDS Client, FiniteSetTheorems, SequenceTheorems, TLAPS

-----------------------------------------------------------------------------
(* Sequences *)

\* What is left of a sequence without its k-th element.
LEMMA RemoveAtElements ==
  ASSUME NEW S, NEW s \in Seq(S), NEW k \in 1..Len(s)
  PROVE  /\ RemoveAt(s, k) \in Seq(S)
         /\ Len(RemoveAt(s, k)) = Len(s) - 1
         /\ \A j \in 1..(Len(s) - 1) : RemoveAt(s, k)[j] = IF j < k THEN s[j] ELSE s[j + 1]
<1> DEFINE a == SubSeq(s, 1, k - 1)
           b == SubSeq(s, k + 1, Len(s))
<1>1. a \in Seq(S) /\ Len(a) = k - 1 /\ \A j \in 1..(k - 1) : a[j] = s[j]
  OBVIOUS
<1>2. /\ b \in Seq(S) /\ Len(b) = Len(s) - k
      /\ \A j \in 1..(Len(s) - k) : b[j] = s[j + k]
  OBVIOUS
<1> HIDE DEF a, b
<1>0. Len(s) \in Nat /\ k \in Nat /\ 1 <= k /\ k <= Len(s)
  OBVIOUS
<1>3. /\ a \o b \in Seq(S) /\ Len(a \o b) = Len(a) + Len(b)
      /\ \A i \in 1..(Len(a) + Len(b)) :
           (a \o b)[i] = IF i <= Len(a) THEN a[i] ELSE b[i - Len(a)]
  BY <1>1, <1>2, ConcatProperties
<1>4. \A j \in 1..(Len(s) - 1) : (a \o b)[j] = IF j < k THEN s[j] ELSE s[j + 1]
  <2> TAKE j \in 1..(Len(s) - 1)
  <2>1. CASE j < k
    BY <1>1, <1>2, <1>3, <2>1
  <2>2. CASE j >= k
    <3>1. j - (k - 1) \in 1..(Len(s) - k) /\ (j - (k - 1)) + k = j + 1
      BY <1>0, <2>2
    <3>2. b[j - (k - 1)] = s[j + 1]
      BY <1>2, <3>1
    <3>3. j \in 1..(Len(a) + Len(b)) /\ ~(j <= Len(a)) /\ j - Len(a) = j - (k - 1)
      BY <1>0, <1>1, <1>2, <2>2
    <3>4. (a \o b)[j] = b[j - (k - 1)]
      BY <1>3, <3>3, Zenon
    <3> QED
      BY <1>0, <2>2, <3>2, <3>4
  <2> QED
    <3>1. j < k \/ j >= k
      BY <1>0
    <3> QED
      BY <2>1, <2>2, <3>1
<1>5. RemoveAt(s, k) = a \o b
  BY DEF RemoveAt, a, b
<1>6. (k - 1) + (Len(s) - k) = Len(s) - 1
  BY <1>0
<1>7. Len(a \o b) = Len(s) - 1
  BY <1>1, <1>2, <1>3, <1>6
<1> QED
  BY <1>3, <1>4, <1>5, <1>7, Zenon

\* Without the first element the tail is left.
LEMMA TailRemoves ==
  ASSUME NEW S, NEW s \in Seq(S), s # <<>>
  PROVE  RemoveAt(s, 1) = Tail(s) /\ 1 \in 1..Len(s)
<1>1. 1 \in 1..Len(s)
  OBVIOUS
<1>2. /\ RemoveAt(s, 1) \in Seq(S) /\ Len(RemoveAt(s, 1)) = Len(s) - 1
      /\ \A j \in 1..(Len(s) - 1) : RemoveAt(s, 1)[j] = IF j < 1 THEN s[j] ELSE s[j + 1]
  BY <1>1, RemoveAtElements
<1>3. /\ Tail(s) \in Seq(S) /\ Len(Tail(s)) = Len(s) - 1
      /\ \A j \in 1..Len(Tail(s)) : Tail(s)[j] = s[j + 1]
  BY HeadTailProperties
<1>4. \A j \in 1..(Len(s) - 1) : RemoveAt(s, 1)[j] = Tail(s)[j]
  BY <1>2, <1>3
<1> QED
  BY <1>1, <1>2, <1>3, <1>4, SeqEqual

\* Inserting behind the last element is appending.
LEMMA InsertAtEnd ==
  ASSUME NEW S, NEW s \in Seq(S), NEW d \in S
  PROVE  InsertAt(s, Len(s) + 1, d) = Append(s, d)
<1>1. SubSeq(s, 1, Len(s)) = s
  OBVIOUS
<1>2. SubSeq(s, Len(s) + 1, Len(s)) = <<>>
  OBVIOUS
<1>3. (Len(s) + 1) - 1 = Len(s)
  OBVIOUS
<1>4. InsertAt(s, Len(s) + 1, d) = (s \o <<d>>) \o <<>>
  BY <1>1, <1>2, <1>3, Zenon DEF InsertAt
<1>5. s \o <<d>> = Append(s, d) /\ Append(s, d) \in Seq(S)
  BY AppendIsConcat, AppendProperties
<1> QED
  BY <1>4, <1>5, ConcatEmptySeq

\* The elements of a sequence are members of the set it is over, the last one too.
LEMMA ToSetType ==
  ASSUME NEW S, NEW s \in Seq(S)
  PROVE  ToSet(s) \subseteq S /\ (s # <<>> => Last(s) \in S)
  BY DEF ToSet, Last

-----------------------------------------------------------------------------
(* Ranks *)

\* The next rank is a number from 1 on.
LEMMA RankIsNat == TypeOK => NextRank \in Nat \ {0}
<1> SUFFICES ASSUME TypeOK PROVE NextRank \in Nat \ {0}
  OBVIOUS
<1>1. IsFiniteSet({m \in Mail : rank[m] > 0})
  BY ClientAssumption, FS_Subset, {m \in Mail : rank[m] > 0} \in SUBSET Mail
<1>2. Cardinality({m \in Mail : rank[m] > 0}) \in Nat
  BY <1>1, FS_CardinalityType
<1> QED
  BY <1>2 DEF NextRank

\* The next rank is used up by the message that gets it.
LEMMA RankGrows ==
  ASSUME TypeOK, NEW m \in Mail, rank[m] = 0, rank' = [rank EXCEPT ![m] = NextRank]
  PROVE  NextRank' = NextRank + 1
<1> DEFINE A == {x \in Mail : rank[x] > 0}
<1>1. IsFiniteSet(A) /\ Cardinality(A) \in Nat
  BY ClientAssumption, FS_Subset, FS_CardinalityType, A \in SUBSET Mail
<1>2. NextRank \in Nat \ {0}
  BY RankIsNat
<1>3. \A x \in Mail : rank'[x] > 0 <=> rank[x] > 0 \/ x = m
  BY <1>2 DEF TypeOK
<1>4. {x \in Mail : rank'[x] > 0} = A \cup {m}
  BY <1>3
<1>5. Cardinality(A \cup {m}) = Cardinality(A) + 1
  BY <1>1, FS_AddElement, m \notin A
<1>6. NextRank' = Cardinality(A \cup {m}) + 1
  BY <1>4, Zenon DEF NextRank
<1> QED
  BY <1>1, <1>5, <1>6 DEF NextRank

-----------------------------------------------------------------------------
(* Steps *)

\* What the list shows it has.
LEMMA VisibleType ==
  ASSUME TypeOK
  PROVE  Len(Visible) \in Nat /\ (filter = Ids => Visible = items)
  BY DEF TypeOK, Visible

\* The message sent is not being sent any more.
LEMMA SendIsOver ==
  ASSUME TypeOK, UiInv, out \in Own, NEW end \in {"accepted", "failed", "silent"}, SendEnds(end)
  PROVE  out' \notin Own /\ \A m \in Own : fate'[m] # "sending"
  BY ClientAssumption DEF TypeOK, UiInv, SendEnds

LEMMA SendEndsTypes ==
  ASSUME fate \in [Own -> {"none", "sending", "accepted", "failed", "silent"}],
         NEW end \in {"accepted", "failed", "silent"}, SendEnds(end)
  PROVE  /\ fate' \in [Own -> {"none", "sending", "accepted", "failed", "silent"}]
         /\ out' \in Own \cup {NoMessage} /\ recipient' \in Ids \cup {NoId}
  BY DEF SendEnds

\* Every step keeps the types.
LEMMA TypeNext == IInv /\ [Next]_vars => TypeOK'
<1> SUFFICES ASSUME IInv, [Next]_vars PROVE TypeOK'
  OBVIOUS
<1> USE ClientAssumption DEF IInv, TypeOK, UiInv, server, lists, typed, chat, history, Goto, UiFree,
          Goroutines
<1>1. ASSUME NEW m \in Mail, PeerPush(m) PROVE TypeOK'
  <2>1. NextRank \in Nat
    BY RankIsNat
  <2>2. rank' \in [Mail -> Nat]
    BY <1>1, <2>1 DEF PeerPush
  <2>3. box' \in Seq(Mail) /\ lost' \in SUBSET Mail
    <3>1. CASE Len(box) >= MaxMailbox
      <4>1. box # <<>>
        BY <3>1
      <4>2. Tail(box) \in Seq(Mail) /\ Head(box) \in Mail
        BY <4>1, HeadTailProperties
      <4>3. Append(Tail(box), m) \in Seq(Mail)
        BY <4>2, AppendProperties
      <4>4. box' = Append(Tail(box), m) /\ lost' = lost \cup {Head(box)}
        BY <1>1, <3>1, Zenon DEF PeerPush
      <4> QED
        BY <4>2, <4>3, <4>4
    <3>2. CASE ~(Len(box) >= MaxMailbox)
      <4>1. Append(box, m) \in Seq(Mail)
        BY AppendProperties
      <4>2. box' = Append(box, m) /\ lost' = lost
        BY <1>1, <3>2, Zenon DEF PeerPush
      <4> QED
        BY <4>1, <4>2
    <3> QED
      BY <3>1, <3>2
  <2> QED
    BY <1>1, <2>2, <2>3 DEF PeerPush
<1>2. ASSUME NEW i \in DOMAIN box, Expire(i) PROVE TypeOK'
  <2>1. RemoveAt(box, i) \in Seq(Mail)
    BY RemoveAtElements
  <2> QED
    BY <1>2, <2>1 DEF Expire
<1>3. CASE ServerRestart
  BY <1>3, ToSetType DEF ServerRestart
<1>4. ASSUME NEW g \in Goroutines, RequestChallenge(g) PROVE TypeOK'
  BY <1>4 DEF RequestChallenge
<1>5. ASSUME NEW g \in Goroutines, VerifyAccepted(g) PROVE TypeOK'
  BY <1>5 DEF VerifyAccepted
<1>6. ASSUME NEW g \in Goroutines, VerifyRefused(g) PROVE TypeOK'
  <2>1. CASE g = "ui"
    <3>1. /\ fate' \in [Own -> {"none", "sending", "accepted", "failed", "silent"}]
          /\ out' \in Own \cup {NoMessage} /\ recipient' \in Ids \cup {NoId}
      <4>1. SendEnds("silent")
        BY <1>6, <2>1 DEF VerifyRefused, GiveUp
      <4> QED
        BY <4>1, SendEndsTypes
    <3>2. pc' \in [Goroutines -> {"idle", "begin", "asking", "verifying", "transfer", "pulled"}]
      BY <1>6 DEF VerifyRefused, GiveUp
    <3>3. pending' = "none" /\ UNCHANGED <<box, rank, connected, batch, lists, chat, messages, history>>
      BY <1>6 DEF VerifyRefused
    <3> QED
      BY <3>1, <3>2, <3>3
  <2>2. CASE g = "poll"
    BY <1>6, <2>2 DEF VerifyRefused, GiveUp
  <2> QED
    BY <2>1, <2>2
<1>7. ASSUME NEW g \in Goroutines, ConnectFails(g) PROVE TypeOK'
  <2>1. pending' \in Goroutines \cup {"none"}
    BY <1>7 DEF ConnectFails
  <2>2. CASE g = "ui"
    <3>1. /\ fate' \in [Own -> {"none", "sending", "accepted", "failed", "silent"}]
          /\ out' \in Own \cup {NoMessage} /\ recipient' \in Ids \cup {NoId}
      <4>1. SendEnds("silent")
        BY <1>7, <2>2 DEF ConnectFails, GiveUp
      <4> QED
        BY <4>1, SendEndsTypes
    <3>2. pc' \in [Goroutines -> {"idle", "begin", "asking", "verifying", "transfer", "pulled"}]
      BY <1>7 DEF ConnectFails, GiveUp
    <3>3. UNCHANGED <<box, rank, connected, batch, lists, chat, messages, history>>
      BY <1>7 DEF ConnectFails
    <3> QED
      BY <2>1, <3>1, <3>2, <3>3
  <2>3. CASE g = "poll"
    BY <1>7, <2>1, <2>3 DEF ConnectFails, GiveUp
  <2> QED
    BY <2>2, <2>3
<1>8. CASE PollAgain
  BY <1>8 DEF PollAgain
<1>9. CASE PollBegin
  BY <1>9 DEF PollBegin
<1>10. CASE Pull
  BY <1>10 DEF Pull
<1>11. CASE PullFails
  <2>1. box' \in Seq(Mail) /\ lost' \in SUBSET Mail
    BY <1>11, ToSetType DEF PullFails
  <2> QED
    BY <1>11, <2>1 DEF PullFails
<1>12. CASE ShowPulled
  <2>1. Last(batch) \in Mail
    BY <1>12, ToSetType DEF ShowPulled, Handled
  <2>2. messages \o batch \in Seq(Mail \cup Own)
    <3>1. batch \in Seq(Mail \cup Own)
      BY SeqMonotonic
    <3> QED
      BY <3>1, ConcatProperties
  <2>3. missed' \in SUBSET Mail
    BY <1>12, ToSetType DEF ShowPulled, Handled
  <2> QED
    BY <1>12, <2>1, <2>2, <2>3 DEF ShowPulled, Handled
<1>13. CASE Push
  <2>1. /\ fate' \in [Own -> {"none", "sending", "accepted", "failed", "silent"}]
        /\ out' \in Own \cup {NoMessage} /\ recipient' \in Ids \cup {NoId}
    BY <1>13, SendEndsTypes DEF Push
  <2> QED
    BY <1>13, <2>1 DEF Push
<1>14. ASSUME NEW i \in 1..Len(Visible), OpenChat(i) PROVE TypeOK'
  <2>1. i \in Nat \ {0}
    BY VisibleType
  <2>2. opened' \in Ids \cup {NoId}
    BY <1>14, VisibleType DEF OpenChat
  <2> QED
    BY <1>14, <2>1, <2>2 DEF OpenChat
<1>15. ASSUME NEW i \in 1..Len(Visible), DeleteChat(i) PROVE TypeOK'
  <2>1. conversations' \in Seq(Ids)
    BY <1>15, RemoveAtElements DEF DeleteChat
  <2>2. items' \in Seq(Ids)
    BY <1>15, RemoveAtElements DEF DeleteChat
  <2> QED
    BY <1>15, <2>1, <2>2 DEF DeleteChat
<1>16. ASSUME NEW f \in SUBSET Ids, SetFilter(f) PROVE TypeOK'
  BY <1>16 DEF SetFilter
<1>17. ASSUME NEW from, NEW to \in {"list", "new"}, GoTo(from, to) PROVE TypeOK'
  BY <1>17 DEF GoTo
<1>18. ASSUME NEW d \in Peers, AddChat(d) PROVE TypeOK'
  <2>1. d \in Ids
    BY DEF Ids
  <2>2. conversations' \in Seq(Ids) /\ Len(conversations') = Len(conversations) + 1
    BY <1>18, <2>1, AppendProperties DEF AddChat
  <2>3. items' = Append(items, d)
    BY <1>18, <2>1, <2>2, InsertAtEnd DEF AddChat, ListsInStep
  <2>4. Append(items, d) \in Seq(Ids)
    BY <2>1, AppendProperties
  <2> QED
    <3>1. items' \in Seq(Ids) /\ screen' = "list"
      BY <1>18, <2>3, <2>4 DEF AddChat
    <3>2. /\ UNCHANGED <<server, connected, pc, batch, filter, messages, typed, history>>
          /\ UNCHANGED <<selectedChat, opened>>
      BY <1>18 DEF AddChat
    <3> QED
      BY <2>2, <3>1, <3>2
<1>19. ASSUME NEW m \in Own, Send(m) PROVE TypeOK'
  <2>1. messages' \in Seq(Mail \cup Own)
    BY <1>19, AppendProperties DEF Send
  <2>2. recipient' \in Ids
    BY <1>19 DEF Send
  <2> QED
    BY <1>19, <2>1, <2>2 DEF Send
<1>20. CASE Quit
  <2>1. box' \in Seq(Mail)
    BY <1>20 DEF Quit
  <2>2. lost' \in SUBSET Mail
    BY <1>20, ToSetType DEF Quit
  <2>3. Welcome \in Ids
    BY DEF Ids
  <2>4. /\ batch' \in Seq(Mail) /\ messages' \in Seq(Mail \cup Own)
        /\ conversations' \in Seq(Ids) /\ items' \in Seq(Ids)
    BY <1>20, <2>3 DEF Quit
  <2>5. restarts' \in Nat /\ filter' \in SUBSET Ids
    BY <1>20 DEF Quit
  <2>6. pc' \in [Goroutines -> {"idle", "begin", "asking", "verifying", "transfer", "pulled"}]
    BY <1>20 DEF Quit
  <2> QED
    <3>1. /\ connected' = FALSE
          /\ selectedChat' = 1 /\ 1 \in Nat \ {0}
          /\ opened' = NoId
      BY <1>20 DEF Quit
    <3>2. UNCHANGED <<pending, screen, out, recipient, fate, rank, shownUpTo, missed>>
      BY <1>20 DEF Quit
    <3> QED
      BY <2>1, <2>2, <2>4, <2>5, <2>6, <3>1, <3>2
<1>21. CASE UNCHANGED vars
  BY <1>21 DEF vars
<1> HIDE DEF TypeOK, UiInv, UiFree, Goto, server, lists, typed, chat, history, Goroutines
<1> QED
  BY <1>1, <1>2, <1>3, <1>4, <1>5, <1>6, <1>7, <1>8, <1>9, <1>10, <1>11,
     <1>12, <1>13, <1>14, <1>15, <1>16, <1>17, <1>18, <1>19, <1>20, <1>21, ClientAssumption
     DEF Next, Network, Connect, Poll, Key

\* Every step keeps where the goroutines are in step with the message on its way,
\* what was pulled and the chat that is open.
LEMMA UiNext == IInv /\ [Next]_vars => UiInv'
<1> SUFFICES ASSUME IInv, [Next]_vars PROVE UiInv'
  OBVIOUS
<1> USE ClientAssumption DEF IInv, TypeOK, UiInv, server, lists, typed, chat, history, Goto, UiFree,
          Goroutines, ListsInStep
<1>1. ASSUME NEW m \in Mail, PeerPush(m) PROVE UiInv'
  BY <1>1 DEF PeerPush
<1>2. ASSUME NEW i \in DOMAIN box, Expire(i) PROVE UiInv'
  BY <1>2 DEF Expire
<1>3. CASE ServerRestart
  BY <1>3 DEF ServerRestart
<1>4. ASSUME NEW g \in Goroutines, RequestChallenge(g) PROVE UiInv'
  BY <1>4 DEF RequestChallenge
<1>5. ASSUME NEW g \in Goroutines, VerifyAccepted(g) PROVE UiInv'
  BY <1>5 DEF VerifyAccepted
<1>6. ASSUME NEW g \in Goroutines, VerifyRefused(g) PROVE UiInv'
  <2>1. CASE g = "ui"
    <3>1. out \in Own /\ SendEnds("silent") /\ pc'["ui"] = "idle" /\ pc'["poll"] = pc["poll"]
      BY <1>6, <2>1 DEF VerifyRefused, GiveUp
    <3>2. out' \notin Own /\ \A m \in Own : fate'[m] # "sending"
      BY <3>1, SendIsOver
    <3> QED
      BY <1>6, <3>1, <3>2 DEF VerifyRefused
  <2>2. CASE g = "poll"
    BY <1>6, <2>2 DEF VerifyRefused, GiveUp
  <2> QED
    BY <2>1, <2>2
<1>7. ASSUME NEW g \in Goroutines, ConnectFails(g) PROVE UiInv'
  <2>1. CASE g = "ui"
    <3>1. out \in Own /\ SendEnds("silent") /\ pc'["ui"] = "idle" /\ pc'["poll"] = pc["poll"]
      BY <1>7, <2>1 DEF ConnectFails, GiveUp
    <3>2. out' \notin Own /\ \A m \in Own : fate'[m] # "sending"
      BY <3>1, SendIsOver
    <3> QED
      BY <1>7, <3>1, <3>2 DEF ConnectFails
  <2>2. CASE g = "poll"
    BY <1>7, <2>2 DEF ConnectFails, GiveUp
  <2> QED
    BY <2>1, <2>2
<1>8. CASE PollAgain
  BY <1>8 DEF PollAgain
<1>9. CASE PollBegin
  BY <1>9 DEF PollBegin
<1>10. CASE Pull
  BY <1>10 DEF Pull
<1>11. CASE PullFails
  BY <1>11 DEF PullFails
<1>12. CASE ShowPulled
  BY <1>12 DEF ShowPulled, Handled
<1>13. CASE Push
  <2>1. out \in Own /\ pc'["ui"] = "idle" /\ pc'["poll"] = pc["poll"]
    BY <1>13 DEF Push
  <2>2. out' \notin Own /\ \A m \in Own : fate'[m] # "sending"
    BY <1>13, <2>1, SendIsOver DEF Push
  <2> QED
    BY <1>13, <2>1, <2>2 DEF Push
<1>14. ASSUME NEW i \in 1..Len(Visible), OpenChat(i) PROVE UiInv'
  <2>1. opened' # NoId => i \in DOMAIN conversations /\ opened' = conversations[i]
    BY <1>14, VisibleType DEF OpenChat
  <2> QED
    BY <1>14, <2>1 DEF OpenChat
<1>15. ASSUME NEW i \in 1..Len(Visible), DeleteChat(i) PROVE UiInv'
  BY <1>15 DEF DeleteChat
<1>16. ASSUME NEW f \in SUBSET Ids, SetFilter(f) PROVE UiInv'
  BY <1>16 DEF SetFilter
<1>17. ASSUME NEW from, NEW to \in {"list", "new"}, GoTo(from, to) PROVE UiInv'
  BY <1>17 DEF GoTo
<1>18. ASSUME NEW d \in Peers, AddChat(d) PROVE UiInv'
  BY <1>18 DEF AddChat
<1>19. ASSUME NEW m \in Own, Send(m) PROVE UiInv'
  BY <1>19 DEF Send
<1>20. CASE Quit
  BY <1>20 DEF Quit
<1>21. CASE UNCHANGED vars
  BY <1>21 DEF vars
<1> HIDE DEF TypeOK, UiInv, UiFree, Goto, server, lists, typed, chat, history, Goroutines
<1> QED
  BY <1>1, <1>2, <1>3, <1>4, <1>5, <1>6, <1>7, <1>8, <1>9, <1>10, <1>11,
     <1>12, <1>13, <1>14, <1>15, <1>16, <1>17, <1>18, <1>19, <1>20, <1>21, ClientAssumption
     DEF Next, Network, Connect, Poll, Key

\* Every step keeps the two lists of chats equal and the send to the open chat.
LEMMA ListsNext == IInv /\ [Next]_vars => ListsInStep' /\ SentToOpened'
<1> SUFFICES ASSUME IInv, [Next]_vars PROVE ListsInStep' /\ SentToOpened'
  OBVIOUS
<1> USE ClientAssumption DEF IInv, TypeOK, UiInv, server, lists, typed, chat, history, Goto, UiFree,
          Goroutines, ListsInStep, SentToOpened
<1>1. ASSUME NEW m \in Mail, PeerPush(m) PROVE ListsInStep' /\ SentToOpened'
  BY <1>1 DEF PeerPush
<1>2. ASSUME NEW i \in DOMAIN box, Expire(i) PROVE ListsInStep' /\ SentToOpened'
  BY <1>2 DEF Expire
<1>3. CASE ServerRestart
  BY <1>3 DEF ServerRestart
<1>4. ASSUME NEW g \in Goroutines, RequestChallenge(g) PROVE ListsInStep' /\ SentToOpened'
  BY <1>4 DEF RequestChallenge
<1>5. ASSUME NEW g \in Goroutines, VerifyAccepted(g) PROVE ListsInStep' /\ SentToOpened'
  BY <1>5 DEF VerifyAccepted
<1>6. ASSUME NEW g \in Goroutines, VerifyRefused(g) PROVE ListsInStep' /\ SentToOpened'
  <2>1. CASE g = "ui"
    BY <1>6, <2>1 DEF VerifyRefused, GiveUp, SendEnds
  <2>2. CASE g = "poll"
    BY <1>6, <2>2 DEF VerifyRefused, GiveUp
  <2> QED
    BY <2>1, <2>2
<1>7. ASSUME NEW g \in Goroutines, ConnectFails(g) PROVE ListsInStep' /\ SentToOpened'
  BY <1>7 DEF ConnectFails, GiveUp, SendEnds
<1>8. CASE PollAgain
  BY <1>8 DEF PollAgain
<1>9. CASE PollBegin
  BY <1>9 DEF PollBegin
<1>10. CASE Pull
  BY <1>10 DEF Pull
<1>11. CASE PullFails
  BY <1>11 DEF PullFails
<1>12. CASE ShowPulled
  BY <1>12 DEF ShowPulled, Handled
<1>13. CASE Push
  BY <1>13 DEF Push, SendEnds
<1>14. ASSUME NEW i \in 1..Len(Visible), OpenChat(i) PROVE ListsInStep' /\ SentToOpened'
  BY <1>14 DEF OpenChat
<1>15. ASSUME NEW i \in 1..Len(Visible), DeleteChat(i) PROVE ListsInStep' /\ SentToOpened'
  <2> DEFINE c == Visible[i]
  <2>1. PICK k \in DOMAIN conversations :
          First(conversations, k, c) /\ conversations' = RemoveAt(conversations, k)
    BY <1>15 DEF DeleteChat
  <2>2. PICK l \in DOMAIN items : First(items, l, c) /\ items' = RemoveAt(items, l)
    BY <1>15 DEF DeleteChat
  <2>3. k = l
    <3>1. k \in Nat /\ l \in Nat /\ k >= 1 /\ l >= 1
      OBVIOUS
    <3>2. ASSUME k < l PROVE FALSE
      <4>1. k \in 1..(l - 1) /\ items[k] = c
        BY <2>1, <3>1, <3>2 DEF First
      <4> QED
        BY <2>2, <4>1 DEF First
    <3>3. ASSUME l < k PROVE FALSE
      <4>1. l \in 1..(k - 1) /\ conversations[l] = c
        BY <2>2, <3>1, <3>3 DEF First
      <4> QED
        BY <2>1, <4>1 DEF First
    <3> QED
      BY <3>1, <3>2, <3>3
  <2> QED
    BY <1>15, <2>1, <2>2, <2>3 DEF DeleteChat
<1>16. ASSUME NEW f \in SUBSET Ids, SetFilter(f) PROVE ListsInStep' /\ SentToOpened'
  BY <1>16 DEF SetFilter
<1>17. ASSUME NEW from, NEW to \in {"list", "new"}, GoTo(from, to)
       PROVE  ListsInStep' /\ SentToOpened'
  BY <1>17 DEF GoTo
<1>18. ASSUME NEW d \in Peers, AddChat(d) PROVE ListsInStep' /\ SentToOpened'
  <2>1. d \in Ids
    BY DEF Ids
  <2>2. Len(conversations') = Len(conversations) + 1
    BY <1>18, <2>1, AppendProperties DEF AddChat
  <2>3. items' = Append(items, d)
    BY <1>18, <2>1, <2>2, InsertAtEnd DEF AddChat
  <2> QED
    BY <1>18, <2>3 DEF AddChat
<1>19. ASSUME NEW m \in Own, Send(m) PROVE ListsInStep' /\ SentToOpened'
  BY <1>19 DEF Send
<1>20. CASE Quit
  BY <1>20 DEF Quit
<1>21. CASE UNCHANGED vars
  BY <1>21 DEF vars
<1> HIDE DEF TypeOK, UiInv, UiFree, Goto, server, lists, typed, chat, history, Goroutines
<1> QED
  BY <1>1, <1>2, <1>3, <1>4, <1>5, <1>6, <1>7, <1>8, <1>9, <1>10, <1>11,
     <1>12, <1>13, <1>14, <1>15, <1>16, <1>17, <1>18, <1>19, <1>20, <1>21, ClientAssumption
     DEF Next, Network, Connect, Poll, Key

-----------------------------------------------------------------------------
(* Order *)

\* The messages of s have rising ranks.
Ascending(s, r) == \A i, j \in DOMAIN s : i < j => r[s[i]] < r[s[j]]

\* What is left without one element keeps its order.
LEMMA RemoveKeepsOrder ==
  ASSUME NEW S, NEW s \in Seq(S), NEW k \in 1..Len(s), NEW r \in [S -> Nat],
         Ascending(s, r)
  PROVE  /\ RemoveAt(s, k) \in Seq(S)
         /\ \A i \in DOMAIN RemoveAt(s, k) : \E j \in DOMAIN s : RemoveAt(s, k)[i] = s[j]
         /\ Ascending(RemoveAt(s, k), r)
<1> DEFINE t == RemoveAt(s, k)
           at(j) == IF j < k THEN j ELSE j + 1
<1>1. /\ t \in Seq(S) /\ Len(t) = Len(s) - 1
      /\ \A j \in 1..(Len(s) - 1) : t[j] = IF j < k THEN s[j] ELSE s[j + 1]
  BY RemoveAtElements
<1> HIDE DEF t
<1>2. /\ Len(s) \in Nat /\ k \in 1..Len(s)
      /\ DOMAIN s = 1..Len(s) /\ DOMAIN t = 1..(Len(s) - 1)
  BY <1>1
<1>3. \A j \in DOMAIN t : at(j) \in DOMAIN s
  BY <1>2
<1>4. \A j \in DOMAIN t : t[j] = s[at(j)]
  BY <1>1, <1>2, Zenon
<1>5. \A i, j \in DOMAIN t : i < j => at(i) < at(j)
  BY <1>2
<1> HIDE DEF at
<1>6. Ascending(t, r)
  BY <1>3, <1>4, <1>5 DEF Ascending
<1> QED
  BY <1>1, <1>3, <1>4, <1>6 DEF t

\* Nothing of the order changes with the rest of the state.
LEMMA OrderFrame ==
  ASSUME OrderInv, ShownInOrder, UNCHANGED <<box, batch, messages, rank, shownUpTo>>
  PROVE  OrderInv' /\ ShownInOrder'
  BY DEF OrderInv, ShownInOrder, NextRank

\* An element of a concatenation is one of the first sequence or of the second.
LEMMA ConcatElements ==
  ASSUME NEW S, NEW s \in Seq(S), NEW t \in Seq(S)
  PROVE  /\ s \o t \in Seq(S)
         /\ Len(s) \in Nat
         /\ \A i \in DOMAIN (s \o t) :
              /\ i \in Nat
              /\ \/ i <= Len(s) /\ i \in DOMAIN s /\ (s \o t)[i] = s[i]
                 \/ /\ i > Len(s) /\ i - Len(s) \in DOMAIN t
                    /\ (s \o t)[i] = t[i - Len(s)]
<1> DEFINE u == s \o t
<1>1. /\ u \in Seq(S) /\ Len(u) = Len(s) + Len(t)
      /\ \A i \in 1..(Len(s) + Len(t)) : u[i] = IF i <= Len(s) THEN s[i] ELSE t[i - Len(s)]
  BY ConcatProperties
<1> HIDE DEF u
<1>2. /\ Len(s) \in Nat /\ DOMAIN s = 1..Len(s)
      /\ Len(t) \in Nat /\ DOMAIN t = 1..Len(t)
      /\ DOMAIN u = 1..(Len(s) + Len(t))
  BY <1>1
<1>3. ASSUME NEW i \in DOMAIN u
      PROVE  /\ i \in Nat
             /\ \/ i <= Len(s) /\ i \in DOMAIN s /\ u[i] = s[i]
                \/ i > Len(s) /\ i - Len(s) \in DOMAIN t /\ u[i] = t[i - Len(s)]
  <2>1. i \in Nat /\ i \in 1..(Len(s) + Len(t))
    BY <1>2, <1>3
  <2>2. CASE i <= Len(s)
    BY <1>1, <1>2, <2>1, <2>2
  <2>3. CASE ~(i <= Len(s))
    <3>1. u[i] = t[i - Len(s)]
      BY <1>1, <2>1, <2>3, Zenon
    <3> QED
      BY <1>2, <2>1, <2>3, <3>1
  <2> QED
    BY <2>2, <2>3
<1> QED
  BY <1>1, <1>2, <1>3 DEF u

\* What was pulled goes behind the messages that are there.
LEMMA ShowKeepsOrder ==
  ASSUME TypeOK, OrderInv, ShownInOrder, batch # <<>>,
         messages' = messages \o batch, batch' = <<>>,
         shownUpTo' = rank[Last(batch)], UNCHANGED <<box, rank>>
  PROVE  OrderInv' /\ ShownInOrder'
<1> DEFINE n == Len(messages)
           last == Len(batch)
<1>1. /\ box \in Seq(Mail) /\ batch \in Seq(Mail) /\ rank \in [Mail -> Nat]
      /\ shownUpTo \in Nat
  BY DEF TypeOK
<1>2. /\ last \in DOMAIN batch /\ shownUpTo' = rank[batch[last]]
      /\ DOMAIN batch = 1..last /\ last \in Nat
  BY <1>1 DEF Last
<1>3. /\ \A i, j \in DOMAIN batch : i < j => rank[batch[i]] < rank[batch[j]]
      /\ \A i \in DOMAIN batch : rank[batch[i]] > shownUpTo /\ rank[batch[i]] \in Nat
  BY <1>1 DEF ShownInOrder
<1>4. \A i \in DOMAIN batch : rank[batch[i]] \in 1..shownUpTo'
  <2> TAKE i \in DOMAIN batch
  <2>1. CASE i = last
    <3>1. rank[batch[last]] > shownUpTo /\ rank[batch[last]] \in Nat
      BY <1>2, <1>3
    <3> QED
      BY <1>1, <1>2, <2>1, <3>1
  <2>2. CASE i < last
    <3>1. rank[batch[i]] < rank[batch[last]]
      BY <1>2, <1>3, <2>2
    <3> QED
      BY <1>1, <1>2, <1>3, <3>1
  <2> QED
    BY <1>2, <2>1, <2>2
<1>5. shownUpTo' > shownUpTo /\ shownUpTo' \in Nat
  BY <1>2, <1>3
<1>6. /\ n \in Nat
      /\ \A i \in DOMAIN messages' :
           /\ i \in Nat
           /\ \/ i <= n /\ i \in DOMAIN messages /\ messages'[i] = messages[i]
              \/ i > n /\ i - n \in DOMAIN batch /\ messages'[i] = batch[i - n]
  <2>1. messages \in Seq(Mail \cup Own) /\ batch \in Seq(Mail \cup Own)
    BY <1>1, SeqMonotonic DEF TypeOK
  <2> QED
    BY <2>1, ConcatElements
<1>7. \A i \in DOMAIN messages : messages[i] \in Mail => rank[messages[i]] \in 1..shownUpTo
  BY DEF OrderInv
<1>8. \A i \in DOMAIN messages' : messages'[i] \in Mail => rank[messages'[i]] \in 1..shownUpTo'
  <2> TAKE i \in DOMAIN messages'
  <2>1. CASE i \in DOMAIN messages /\ messages'[i] = messages[i]
    BY <1>1, <1>5, <1>7, <2>1
  <2>2. CASE i - n \in DOMAIN batch /\ messages'[i] = batch[i - n]
    BY <1>4, <2>2
  <2> QED
    BY <1>6, <2>1, <2>2
<1>9. \A i, j \in DOMAIN messages' :
        i < j /\ messages'[i] \in Mail /\ messages'[j] \in Mail
          => rank[messages'[i]] < rank[messages'[j]]
  <2> TAKE i, j \in DOMAIN messages'
  <2> HAVE i < j /\ messages'[i] \in Mail /\ messages'[j] \in Mail
  <2>1. CASE j <= n
    <3>1. /\ i \in DOMAIN messages /\ messages'[i] = messages[i]
          /\ j \in DOMAIN messages /\ messages'[j] = messages[j]
      BY <1>6, <2>1
    <3> QED
      BY <3>1 DEF ShownInOrder
  <2>2. CASE i <= n /\ j > n
    <3>1. /\ i \in DOMAIN messages /\ messages'[i] = messages[i]
          /\ j - n \in DOMAIN batch /\ messages'[j] = batch[j - n]
      BY <1>6, <2>2
    <3>2. rank[messages[i]] \in 1..shownUpTo
      BY <1>7, <3>1
    <3>3. rank[batch[j - n]] > shownUpTo /\ rank[batch[j - n]] \in Nat
      BY <1>3, <3>1
    <3> QED
      BY <1>1, <3>1, <3>2, <3>3
  <2>3. CASE i > n /\ j > n
    <3>1. /\ i - n \in DOMAIN batch /\ messages'[i] = batch[i - n]
          /\ j - n \in DOMAIN batch /\ messages'[j] = batch[j - n]
      BY <1>6, <2>3
    <3>2. i - n < j - n
      BY <1>6
    <3> QED
      BY <1>3, <3>1, <3>2
  <2> QED
    BY <1>6, <2>1, <2>2, <2>3
<1>10. /\ \A i \in DOMAIN box : rank[box[i]] > shownUpTo'
       /\ \A i, j \in DOMAIN box : i < j => rank[box[i]] < rank[box[j]]
       /\ \A m \in Mail : rank[m] < NextRank
  BY <1>2 DEF OrderInv
<1>11. shownUpTo' < NextRank
  BY <1>1, <1>2, <1>10
<1>12. NextRank' = NextRank
  BY DEF NextRank
<1>13. OrderInv'
  BY <1>8, <1>10, <1>11, <1>12 DEF OrderInv
<1>14. ShownInOrder'
  <2>1. DOMAIN batch' = {}
    OBVIOUS
  <2> QED
    BY <1>9, <2>1 DEF ShownInOrder
<1> QED
  BY <1>13, <1>14

\* What is left after a message expired.
LEMMA ExpireKeepsOrder ==
  ASSUME TypeOK, OrderInv, ShownInOrder, NEW i \in DOMAIN box,
         box' = RemoveAt(box, i), UNCHANGED <<batch, messages, rank, shownUpTo>>
  PROVE  OrderInv' /\ ShownInOrder'
<1>1. box \in Seq(Mail) /\ rank \in [Mail -> Nat] /\ i \in 1..Len(box)
  BY DEF TypeOK
<1>2. Ascending(box, rank)
  BY DEF OrderInv, Ascending
<1>3. /\ \A j \in DOMAIN box' : \E k \in DOMAIN box : box'[j] = box[k]
      /\ Ascending(box', rank)
  BY <1>1, <1>2, RemoveKeepsOrder
<1>4. \A j, k \in DOMAIN box' : j < k => rank'[box'[j]] < rank'[box'[k]]
  BY <1>3 DEF Ascending
<1>5. /\ \A j \in DOMAIN box' : rank[box'[j]] > shownUpTo
      /\ \A j \in DOMAIN box', k \in DOMAIN batch : rank[batch[k]] < rank[box'[j]]
  BY <1>3 DEF OrderInv
<1>6. OrderInv'
  BY <1>4, <1>5 DEF OrderInv, NextRank
<1>7. ShownInOrder'
  BY DEF ShownInOrder
<1> QED
  BY <1>6, <1>7

\* A message pushed gets the highest rank and the last place.
LEMMA PushKeepsOrder ==
  ASSUME TypeOK, OrderInv, ShownInOrder,
         NEW m \in Mail, rank[m] = 0, rank' = [rank EXCEPT ![m] = NextRank],
         box' = Append(box, m) \/ (box # <<>> /\ box' = Append(Tail(box), m)),
         UNCHANGED <<batch, messages, shownUpTo>>
  PROVE  OrderInv' /\ ShownInOrder'
<1>1. /\ box \in Seq(Mail) /\ batch \in Seq(Mail) /\ messages \in Seq(Mail \cup Own)
      /\ rank \in [Mail -> Nat] /\ shownUpTo \in Nat
  BY DEF TypeOK
<1>2. NextRank \in Nat \ {0} /\ NextRank' = NextRank + 1
  BY RankIsNat, RankGrows
<1>3. \A x \in Mail : rank'[x] = IF x = m THEN NextRank ELSE rank[x]
  BY <1>1
\* The mailbox, the batch and m.messages hold messages pushed before.
<1>4. /\ \A i \in DOMAIN box : box[i] \in Mail /\ rank'[box[i]] = rank[box[i]]
      /\ \A i \in DOMAIN batch : batch[i] \in Mail /\ rank'[batch[i]] = rank[batch[i]]
      /\ \A i \in DOMAIN messages :
           messages[i] \in Mail => rank'[messages[i]] = rank[messages[i]]
  <2>1. \A i \in DOMAIN box : box[i] \in Mail /\ rank[box[i]] > shownUpTo
    BY <1>1 DEF OrderInv
  <2>2. \A i \in DOMAIN batch : batch[i] \in Mail /\ rank[batch[i]] > shownUpTo
    BY <1>1 DEF ShownInOrder
  <2>3. \A i \in DOMAIN messages : messages[i] \in Mail => rank[messages[i]] >= 1
    BY <1>1 DEF OrderInv
  <2> QED
    BY <1>1, <1>3, <2>1, <2>2, <2>3
<1>5. \E b \in Seq(Mail) :
        /\ box' = Append(b, m)
        /\ \A i \in DOMAIN b : \E k \in DOMAIN box : b[i] = box[k]
        /\ Ascending(b, rank)
  <2>1. Ascending(box, rank)
    BY DEF OrderInv, Ascending
  <2>2. CASE box # <<>> /\ box' = Append(Tail(box), m)
    <3>1. RemoveAt(box, 1) = Tail(box) /\ 1 \in 1..Len(box)
      BY <1>1, <2>2, TailRemoves
    <3>2. /\ RemoveAt(box, 1) \in Seq(Mail)
          /\ \A i \in DOMAIN RemoveAt(box, 1) :
               \E k \in DOMAIN box : RemoveAt(box, 1)[i] = box[k]
          /\ Ascending(RemoveAt(box, 1), rank)
      BY <1>1, <2>1, <3>1, RemoveKeepsOrder
    <3> QED
      BY <2>2, <3>1, <3>2, Zenon
  <2>3. CASE box' = Append(box, m)
    BY <1>1, <2>1, <2>3, Zenon
  <2> QED
    BY <2>2, <2>3
<1>6. PICK b \in Seq(Mail) :
        /\ box' = Append(b, m)
        /\ \A i \in DOMAIN b : \E k \in DOMAIN box : b[i] = box[k]
        /\ Ascending(b, rank)
  BY <1>5
<1> DEFINE n == Len(b)
<1>7. /\ n \in Nat /\ DOMAIN b = 1..n /\ DOMAIN box' = 1..(n + 1)
      /\ \A i \in 1..n : box'[i] = b[i]
      /\ box'[n + 1] = m
  <2>1. /\ Append(b, m) \in Seq(Mail) /\ Len(Append(b, m)) = Len(b) + 1
        /\ \A i \in 1..Len(b) : Append(b, m)[i] = b[i]
        /\ Append(b, m)[Len(b) + 1] = m
    BY AppendProperties
  <2>2. Len(b) \in Nat /\ DOMAIN b = 1..Len(b)
    OBVIOUS
  <2>3. DOMAIN Append(b, m) = 1..(Len(b) + 1)
    BY <2>1
  <2>4. box' = Append(b, m)
    BY <1>6
  <2> QED
    BY <2>1, <2>2, <2>3, <2>4, Zenon
<1> HIDE DEF n
<1>8. \A i \in DOMAIN box' : i \in DOMAIN b \/ i = n + 1
  BY <1>7
<1>9. ASSUME NEW i \in DOMAIN b
      PROVE  /\ box'[i] = b[i] /\ rank'[b[i]] = rank[b[i]]
             /\ rank'[box'[i]] < NextRank
             /\ rank'[box'[i]] > shownUpTo
             /\ \A j \in DOMAIN batch : rank'[batch[j]] < rank'[box'[i]]
  <2>1. PICK k \in DOMAIN box : b[i] = box[k]
    BY <1>6
  <2>2. box'[i] = box[k] /\ rank'[box[k]] = rank[box[k]] /\ box[k] \in Mail
    BY <1>4, <1>7, <2>1
  <2>3. /\ rank[box[k]] < NextRank /\ rank[box[k]] > shownUpTo
        /\ \A j \in DOMAIN batch : rank[batch[j]] < rank[box[k]]
    BY <2>2 DEF OrderInv
  <2> QED
    BY <1>4, <2>1, <2>2, <2>3
<1>10. /\ rank'[box'[n + 1]] = NextRank
       /\ shownUpTo < NextRank
       /\ \A j \in DOMAIN batch : rank'[batch[j]] < NextRank
  BY <1>3, <1>4, <1>7 DEF OrderInv
<1>11. \A i, j \in DOMAIN box' : i < j => rank'[box'[i]] < rank'[box'[j]]
  <2> TAKE i, j \in DOMAIN box'
  <2> HAVE i < j
  <2>1. i \in DOMAIN b
    BY <1>7
  <2>2. CASE j \in DOMAIN b
    <3>1. rank[b[i]] < rank[b[j]]
      BY <1>6, <2>1, <2>2 DEF Ascending
    <3> QED
      BY <1>9, <2>1, <2>2, <3>1
  <2>3. CASE j = n + 1
    BY <1>9, <1>10, <2>1, <2>3
  <2> QED
    BY <1>8, <2>2, <2>3
<1>12. /\ \A i \in DOMAIN box' : rank'[box'[i]] > shownUpTo'
       /\ \A i \in DOMAIN box', j \in DOMAIN batch' : rank'[batch'[j]] < rank'[box'[i]]
  <2> SUFFICES ASSUME NEW i \in DOMAIN box'
               PROVE  /\ rank'[box'[i]] > shownUpTo
                      /\ \A j \in DOMAIN batch : rank'[batch[j]] < rank'[box'[i]]
    OBVIOUS
  <2>1. CASE i \in DOMAIN b
    BY <1>9, <2>1
  <2>2. CASE i = n + 1
    BY <1>1, <1>2, <1>10, <2>2
  <2> QED
    BY <1>8, <2>1, <2>2
<1>13. \A i \in DOMAIN messages' : messages'[i] \in Mail => rank'[messages'[i]] \in 1..shownUpTo'
  BY <1>4 DEF OrderInv
<1>14. (\A x \in Mail : rank'[x] < NextRank') /\ shownUpTo' < NextRank'
  <2>1. \A x \in Mail : rank[x] < NextRank
    BY DEF OrderInv
  <2> QED
    BY <1>1, <1>2, <1>3, <1>10, <2>1
<1>15. OrderInv'
  BY <1>11, <1>12, <1>13, <1>14 DEF OrderInv
<1>16. ShownInOrder'
  BY <1>4 DEF ShownInOrder
<1> QED
  BY <1>15, <1>16

\* Every step keeps what is shown, pulled and held in the order of acceptance.
LEMMA OrderNext == IInv /\ [Next]_vars => OrderInv' /\ ShownInOrder'
<1> SUFFICES ASSUME IInv, [Next]_vars PROVE OrderInv' /\ ShownInOrder'
  OBVIOUS
<1> USE ClientAssumption DEF IInv, TypeOK, UiInv, OrderInv, ShownInOrder, server, lists, typed,
          chat, history, Goto, UiFree, Goroutines
<1>1. ASSUME NEW m \in Mail, PeerPush(m) PROVE OrderInv' /\ ShownInOrder'
  <2>1. /\ rank[m] = 0 /\ rank' = [rank EXCEPT ![m] = NextRank]
        /\ UNCHANGED <<batch, messages, shownUpTo>>
    BY <1>1 DEF PeerPush
  <2>2. Len(box) >= MaxMailbox => box # <<>>
    OBVIOUS
  <2> HIDE DEF IInv, TypeOK, UiInv, OrderInv, ShownInOrder
  <2>3. box' = Append(box, m) \/ (box # <<>> /\ box' = Append(Tail(box), m))
    <3>1. CASE Len(box) >= MaxMailbox
      BY <1>1, <2>2, <3>1, Zenon DEF PeerPush
    <3>2. CASE ~(Len(box) >= MaxMailbox)
      <4>1. box' = Append(box, m)
        BY <1>1, <3>2, Zenon DEF PeerPush
      <4> QED
        BY <4>1
    <3> QED
      BY <3>1, <3>2
  <2> QED
    BY <2>1, <2>3, PushKeepsOrder DEF IInv
<1>2. ASSUME NEW i \in DOMAIN box, Expire(i) PROVE OrderInv' /\ ShownInOrder'
  <2>1. box' = RemoveAt(box, i) /\ UNCHANGED <<batch, messages, rank, shownUpTo>>
    BY <1>2 DEF Expire
  <2> HIDE DEF IInv, TypeOK, UiInv, OrderInv, ShownInOrder
  <2> QED
    BY <2>1, ExpireKeepsOrder DEF IInv
<1>3. CASE ServerRestart
  <2>1. box' = <<>> /\ UNCHANGED <<batch, messages, rank, shownUpTo>>
    BY <1>3 DEF ServerRestart
  <2> QED
    BY <2>1 DEF NextRank
<1>4. ASSUME NEW g \in Goroutines, RequestChallenge(g) PROVE OrderInv' /\ ShownInOrder'
  BY <1>4, OrderFrame DEF RequestChallenge
<1>5. ASSUME NEW g \in Goroutines, VerifyAccepted(g) PROVE OrderInv' /\ ShownInOrder'
  BY <1>5, OrderFrame DEF VerifyAccepted
<1>6. ASSUME NEW g \in Goroutines, VerifyRefused(g) PROVE OrderInv' /\ ShownInOrder'
  BY <1>6, OrderFrame DEF VerifyRefused, GiveUp, SendEnds
<1>7. ASSUME NEW g \in Goroutines, ConnectFails(g) PROVE OrderInv' /\ ShownInOrder'
  BY <1>7, OrderFrame DEF ConnectFails, GiveUp, SendEnds
<1>8. CASE PollAgain
  BY <1>8, OrderFrame DEF PollAgain
<1>9. CASE PollBegin
  BY <1>9, OrderFrame DEF PollBegin
<1>10. CASE Pull
  <2>1. box' = <<>> /\ batch' = box /\ UNCHANGED <<messages, rank, shownUpTo>>
    BY <1>10 DEF Pull
  <2> QED
    BY <2>1 DEF NextRank
<1>11. CASE PullFails
  <2>1. /\ box' = box \/ box' = <<>>
        /\ UNCHANGED <<batch, messages, rank, shownUpTo>>
    BY <1>11 DEF PullFails
  <2>2. CASE box' = box
    BY <2>1, <2>2, OrderFrame
  <2>3. CASE box' = <<>>
    BY <2>1, <2>3 DEF NextRank
  <2> QED
    BY <2>1, <2>2, <2>3
<1>12. CASE ShowPulled
  <2>1. /\ batch # <<>> /\ messages' = messages \o batch /\ batch' = <<>>
        /\ shownUpTo' = rank[Last(batch)]
        /\ UNCHANGED <<box, rank>>
    BY <1>12 DEF ShowPulled, Handled
  <2> HIDE DEF IInv, TypeOK, UiInv, OrderInv, ShownInOrder
  <2> QED
    BY <2>1, ShowKeepsOrder DEF IInv
<1>13. CASE Push
  BY <1>13, OrderFrame DEF Push, SendEnds
<1>14. ASSUME NEW i \in 1..Len(Visible), OpenChat(i) PROVE OrderInv' /\ ShownInOrder'
  <2>1. messages' = <<>> /\ UNCHANGED <<box, batch, rank, shownUpTo>>
    BY <1>14 DEF OpenChat
  <2> QED
    BY <2>1 DEF NextRank
<1>15. ASSUME NEW i \in 1..Len(Visible), DeleteChat(i) PROVE OrderInv' /\ ShownInOrder'
  BY <1>15, OrderFrame DEF DeleteChat
<1>16. ASSUME NEW f \in SUBSET Ids, SetFilter(f) PROVE OrderInv' /\ ShownInOrder'
  BY <1>16, OrderFrame DEF SetFilter
<1>17. ASSUME NEW from, NEW to \in {"list", "new"}, GoTo(from, to) PROVE OrderInv' /\ ShownInOrder'
  BY <1>17, OrderFrame DEF GoTo
<1>18. ASSUME NEW d \in Peers, AddChat(d) PROVE OrderInv' /\ ShownInOrder'
  BY <1>18, OrderFrame DEF AddChat
<1>19. ASSUME NEW m \in Own, Send(m) PROVE OrderInv' /\ ShownInOrder'
  <2>1. messages' = Append(messages, m) /\ UNCHANGED <<box, batch, rank, shownUpTo>>
    BY <1>19 DEF Send
  <2>2. /\ DOMAIN messages' = 1..(Len(messages) + 1)
        /\ \A i \in 1..Len(messages) : messages'[i] = messages[i]
        /\ messages'[Len(messages) + 1] \notin Mail
    BY <2>1, AppendProperties
  <2>3. \A i \in DOMAIN messages' :
          messages'[i] \in Mail => i \in DOMAIN messages /\ messages'[i] = messages[i]
    BY <2>2, Len(messages) \in Nat, DOMAIN messages = 1..Len(messages)
  <2> HIDE DEF IInv, TypeOK, UiInv, OrderInv, ShownInOrder
  <2>4. OrderInv'
    BY <2>1, <2>3 DEF IInv, OrderInv, NextRank
  <2>5. ShownInOrder'
    BY <2>1, <2>3 DEF IInv, ShownInOrder
  <2> QED
    BY <2>4, <2>5
<1>20. CASE Quit
  <2>1. /\ box' = box \/ box' = <<>>
        /\ batch' = <<>> /\ messages' = <<>>
        /\ UNCHANGED <<rank, shownUpTo>>
    BY <1>20 DEF Quit
  <2>2. CASE box' = box
    BY <2>1, <2>2 DEF NextRank
  <2>3. CASE box' = <<>>
    BY <2>1, <2>3 DEF NextRank
  <2> QED
    BY <2>1, <2>2, <2>3
<1>21. CASE UNCHANGED vars
  BY <1>21, OrderFrame DEF vars
<1> HIDE DEF TypeOK, UiInv, UiFree, Goto, server, lists, typed, chat, history, Goroutines
<1> QED
  BY <1>1, <1>2, <1>3, <1>4, <1>5, <1>6, <1>7, <1>8, <1>9, <1>10, <1>11,
     <1>12, <1>13, <1>14, <1>15, <1>16, <1>17, <1>18, <1>19, <1>20, <1>21, ClientAssumption
     DEF Next, Network, Connect, Poll, Key

-----------------------------------------------------------------------------

\* The client as it starts, on an empty server.
LEMMA InitInv == Init => IInv
<1> SUFFICES ASSUME Init PROVE IInv
  OBVIOUS
<1> USE ClientAssumption DEF Init
<1>1. Welcome \in Ids
  BY DEF Ids
<1>2. <<Welcome>> \in Seq(Ids) /\ DOMAIN <<Welcome>> = {1} /\ <<Welcome>>[1] = Welcome
  BY <1>1
<1>3. NextRank = 1
  <2>1. {m \in Mail : rank[m] > 0} = {}
    OBVIOUS
  <2>2. Cardinality({}) = 0
    BY FS_EmptySet
  <2>3. NextRank = Cardinality({}) + 1
    BY <2>1, Zenon DEF NextRank
  <2> QED
    BY <2>2, <2>3
<1>4. TypeOK
  <2>1. /\ box \in Seq(Mail) /\ batch \in Seq(Mail) /\ messages \in Seq(Mail \cup Own)
        /\ conversations \in Seq(Ids) /\ items \in Seq(Ids)
    BY <1>2
  <2>2. /\ pc \in [Goroutines -> {"idle", "begin", "asking", "verifying", "transfer", "pulled"}]
        /\ fate \in [Own -> {"none", "sending", "accepted", "failed", "silent"}]
        /\ rank \in [Mail -> Nat]
    OBVIOUS
  <2>3. /\ pending \in Goroutines \cup {"none"} /\ connected \in BOOLEAN
        /\ screen \in {"list", "chat", "new"} /\ filter \in SUBSET Ids
        /\ missed \in SUBSET Mail /\ lost \in SUBSET Mail /\ opened \in Ids \cup {NoId}
    OBVIOUS
  <2>4. /\ selectedChat \in Nat \ {0} /\ shownUpTo \in Nat /\ restarts \in Nat
        /\ out \in Own \cup {NoMessage} /\ recipient \in Ids \cup {NoId}
    OBVIOUS
  <2> QED
    BY <2>1, <2>2, <2>3, <2>4, Zenon DEF TypeOK
<1>5. UiInv
  BY DEF UiInv, Goroutines
<1>6. OrderInv /\ ShownInOrder
  BY <1>3 DEF OrderInv, ShownInOrder
<1>7. ListsInStep /\ SentToOpened
  BY DEF ListsInStep, SentToOpened
<1> QED
  BY <1>4, <1>5, <1>6, <1>7 DEF IInv

\* What the client shows, sends and has pulled agrees in every reachable state,
\* whatever the two goroutines, the network and the user do.
THEOREM Invariance == Spec => []IInv
<1>1. IInv /\ [Next]_vars => IInv'
  BY TypeNext, UiNext, ListsNext, OrderNext DEF IInv
<1> QED
  BY InitInv, <1>1, PTL DEF Spec

\* tui.go 375-382 and 499-507: the list and the conversations its positions
\* select change together.
THEOREM ListsAgree == Spec => []ListsInStep
<1>1. IInv => ListsInStep
  BY DEF IInv
<1> QED
  BY Invariance, <1>1, PTL

\* tui.go 352 and 705-709: without a filter a message goes to the chat the user
\* chose, for any number of chats, the same device twice included.
THEOREM SentRight == Spec => []SentToOpened
<1>1. IInv => SentToOpened
  BY DEF IInv
<1> QED
  BY Invariance, <1>1, PTL

\* tui.go 250-289: mail comes to m.messages in the order of its acceptance and
\* at most once, whatever is lost, expires or starts again.
THEOREM OrderKept == Spec => []ShownInOrder
<1>1. IInv => ShownInOrder
  BY DEF IInv
<1> QED
  BY Invariance, <1>1, PTL

=============================================================================
