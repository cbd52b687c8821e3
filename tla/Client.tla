------------------------------- MODULE Client -------------------------------
(***************************************************************************)
(* The terminal client of cmd/encli/tui.go with its network layer, one     *)
(* device's mailbox on the server, and the network between them.           *)
(*                                                                         *)
(* Update runs in one goroutine, the "ui", and sendMessage blocks it until *)
(* the push is over.  A poll is a command with a goroutine of its own;     *)
(* its result comes back as a message that Update must be free to handle,  *)
(* and handling it starts the next poll.  Both use one ClientNetwork and   *)
(* log in when they find it has no mailbox id.                             *)
(*                                                                         *)
(* The server's steps on the mailbox are those of MailboxPromise; the      *)
(* library's list of chats is its items and a filter, the set of chats     *)
(* whose name matches what is typed.  The lines loadMessages puts on a     *)
(* screen and settings are left out.                                       *)
(***************************************************************************)
EXTENDS Naturals, Sequences, FiniteSets, SequencesExt

CONSTANTS Peers,        \* device ids of others
          Welcome,      \* the id of the chat the client starts with
          Mail,         \* messages others push to this device
          Own,          \* messages typed here
          MaxMailbox,   \* the server's maxMailboxSize
          Filters,      \* bound: the filters typed
          MaxChats,     \* bound: chats in the list
          MaxRestarts,  \* bound: restarts of the server or the client
          NoId, NoMessage

Ids == Peers \cup {Welcome}

ASSUME ClientAssumption ==
  /\ Welcome \notin Peers /\ NoId \notin Ids
  /\ IsFiniteSet(Mail) /\ Mail \cap Own = {} /\ NoMessage \notin Own
  /\ Filters \subseteq SUBSET Ids
  /\ MaxMailbox \in Nat \ {0} /\ MaxRestarts \in Nat

Goroutines == {"ui", "poll"}

VARIABLES
  box,           \* the server: this device's queue
  pending,       \* the server: whose challenge is pending, or "none"
  connected,     \* network.mailboxID # ""
  pc,            \* per goroutine, where it is
  batch,         \* poll: what it pulled
  screen,        \* m.screen
  conversations, \* m.conversations, by the id of each
  items,         \* m.chatList's items, by the id of each
  filter,        \* m.chatList's filter, Ids when there is none
  selectedChat,  \* m.selectedChat, from 1
  messages,      \* m.messages, which View draws on the chat screen only
  out,           \* sendMessage: the message being sent
  recipient,     \* sendMessage: recipientID
  fate,          \* fate[m]: what the user is told of m
  rank,          \* history: m's place in the order of acceptance, 0 before it
  shownUpTo,     \* history: the highest rank ever in messages
  missed,        \* history: mail that came while no chat was on the screen
  lost,          \* history: mail that left the mailbox and was not answered
  opened,        \* history: the chat the user chose, NoId behind a filter or outside a chat
  restarts

server  == <<box, pending, rank>>
lists   == <<conversations, items, filter>>
typed   == <<out, recipient, fate>>
chat    == <<screen, selectedChat, opened>>
history == <<shownUpTo, missed, lost, restarts>>
vars == <<server, connected, pc, batch, lists, chat, messages, typed, history>>

TypeOK ==
  /\ box \in Seq(Mail) /\ batch \in Seq(Mail)
  /\ pending \in Goroutines \cup {"none"}
  /\ connected \in BOOLEAN
  /\ pc \in [Goroutines -> {"idle", "begin", "asking", "verifying", "transfer", "pulled"}]
  /\ screen \in {"list", "chat", "new"}
  /\ conversations \in Seq(Ids) /\ items \in Seq(Ids)
  /\ filter \in SUBSET Ids
  /\ selectedChat \in Nat \ {0}
  /\ messages \in Seq(Mail \cup Own)
  /\ out \in Own \cup {NoMessage} /\ recipient \in Ids \cup {NoId}
  /\ fate \in [Own -> {"none", "sending", "accepted", "failed", "silent"}]
  /\ rank \in [Mail -> Nat] /\ shownUpTo \in Nat
  /\ missed \in SUBSET Mail /\ lost \in SUBSET Mail
  /\ opened \in Ids \cup {NoId}
  /\ restarts \in Nat

\* NewAppModel and Init, on a server that has never seen the device.
Init ==
  /\ box = <<>> /\ pending = "none"
  /\ connected = FALSE
  /\ pc = [g \in Goroutines |-> IF g = "poll" THEN "begin" ELSE "idle"]
  /\ batch = <<>>
  /\ screen = "list" /\ selectedChat = 1 /\ opened = NoId
  /\ conversations = <<Welcome>> /\ items = <<Welcome>> /\ filter = Ids
  /\ messages = <<>>
  /\ out = NoMessage /\ recipient = NoId
  /\ fate = [m \in Own |-> "none"]
  /\ rank = [m \in Mail |-> 0]
  /\ shownUpTo = 0 /\ missed = {} /\ lost = {} /\ restarts = 0

Goto(g, place) == pc' = [pc EXCEPT ![g] = place]

UiFree == pc["ui"] = "idle"

-----------------------------------------------------------------------------
(* The mailbox on the server *)

NextRank == Cardinality({m \in Mail : rank[m] > 0}) + 1

\* handlePush for this device: a full mailbox gives up its oldest message.
PeerPush(m) ==
  /\ rank[m] = 0
  /\ rank' = [rank EXCEPT ![m] = NextRank]
  /\ IF Len(box) >= MaxMailbox
     THEN box' = Append(Tail(box), m) /\ lost' = lost \cup {Head(box)}
     ELSE box' = Append(box, m) /\ lost' = lost
  /\ UNCHANGED <<pending, connected, pc, batch, lists, chat, messages, typed, shownUpTo, missed,
                 restarts>>

\* The TTL of a message is over.
Expire(i) ==
  /\ box' = RemoveAt(box, i)
  /\ lost' = lost \cup {box[i]}
  /\ UNCHANGED <<pending, rank, connected, pc, batch, lists, chat, messages, typed, shownUpTo,
                 missed, restarts>>

\* The server comes back empty; the client is not told, and keeps its id.
ServerRestart ==
  /\ restarts < MaxRestarts
  /\ restarts' = restarts + 1
  /\ lost' = lost \cup ToSet(box)
  /\ box' = <<>> /\ pending' = "none"
  /\ UNCHANGED <<rank, connected, pc, batch, lists, chat, messages, typed, shownUpTo, missed>>

-----------------------------------------------------------------------------
(* ClientNetwork.Connect, called by goroutine g.  What follows it is the     *)
(* transfer: a push of the ui, a pull of the poll.                           *)

SendEnds(end) ==
  /\ fate' = [fate EXCEPT ![out] = end]
  /\ out' = NoMessage /\ recipient' = NoId

\* A poll that fails sleeps; a send whose login fails says nothing.
GiveUp(g) ==
  /\ Goto(g, "idle")
  /\ IF g = "ui" THEN SendEnds("silent") ELSE UNCHANGED typed

\* The device has one pending challenge, and this one takes its place.
RequestChallenge(g) ==
  /\ pc[g] = "asking"
  /\ pending' = g
  /\ Goto(g, "verifying")
  /\ UNCHANGED <<box, rank, connected, batch, lists, chat, messages, typed, history>>

VerifyAccepted(g) ==
  /\ pc[g] = "verifying" /\ pending = g
  /\ pending' = "none"
  /\ connected' = TRUE
  /\ Goto(g, "transfer")
  /\ UNCHANGED <<box, rank, batch, lists, chat, messages, typed, history>>

\* The verify handler takes the challenge whether or not it was g's.
VerifyRefused(g) ==
  /\ pc[g] = "verifying" /\ pending # g
  /\ pending' = "none"
  /\ GiveUp(g)
  /\ UNCHANGED <<box, rank, connected, batch, lists, chat, messages, history>>

\* A request of the login, or its answer, is lost, or the server is full.
ConnectFails(g) ==
  /\ pc[g] \in {"asking", "verifying"}
  /\ \/ UNCHANGED pending
     \/ pending' = IF pc[g] = "asking" THEN g ELSE "none"
  /\ GiveUp(g)
  /\ UNCHANGED <<box, rank, connected, batch, lists, chat, messages, history>>

-----------------------------------------------------------------------------
(* pollMessages *)

\* Fault: a login that failed does not start the next poll.
FaultPollAgain ==
  /\ pc["poll"] = "idle" /\ UiFree /\ connected
  /\ Goto("poll", "begin")
  /\ UNCHANGED <<server, connected, batch, lists, chat, messages, typed, history>>

\* Update handles pollMsg.
PollAgain ==
  /\ pc["poll"] = "idle" /\ UiFree
  /\ Goto("poll", "begin")
  /\ UNCHANGED <<server, connected, batch, lists, chat, messages, typed, history>>

PollBegin ==
  /\ pc["poll"] = "begin"
  /\ Goto("poll", IF connected THEN "transfer" ELSE "asking")
  /\ UNCHANGED <<server, connected, batch, lists, chat, messages, typed, history>>

\* Fault: the mailbox is read and not emptied.
FaultPull ==
  /\ pc["poll"] = "transfer"
  /\ batch' = box
  /\ Goto("poll", IF box = <<>> THEN "idle" ELSE "pulled")
  /\ UNCHANGED <<server, connected, lists, chat, messages, typed, history>>

\* The server hands over the whole mailbox.  No mailbox and no mail look alike
\* to the client: it sleeps.
Pull ==
  /\ pc["poll"] = "transfer"
  /\ box' = <<>> /\ batch' = box
  /\ Goto("poll", IF box = <<>> THEN "idle" ELSE "pulled")
  /\ UNCHANGED <<pending, rank, connected, lists, chat, messages, typed, history>>

\* The request is lost, or its answer with what the server took out for it.
PullFails ==
  /\ pc["poll"] = "transfer"
  /\ \/ UNCHANGED <<box, lost>>
     \/ box' = <<>> /\ lost' = lost \cup ToSet(box)
  /\ Goto("poll", "idle")
  /\ UNCHANGED <<pending, rank, connected, batch, lists, chat, messages, typed, shownUpTo,
                 missed, restarts>>

\* The poll is over, and the next one starts at once.
Handled ==
  /\ shownUpTo' = rank[Last(batch)]
  /\ missed' = IF screen = "chat" THEN missed ELSE missed \cup ToSet(batch)
  /\ batch' = <<>>
  /\ Goto("poll", "begin")
  /\ UNCHANGED <<server, connected, lists, chat, typed, lost, restarts>>

\* Fault: of what was pulled only the last message is kept.
FaultShowPulled ==
  /\ pc["poll"] = "pulled" /\ UiFree
  /\ messages' = Append(messages, Last(batch))
  /\ Handled

\* Fault: the messages are put together from the latest back.
FaultShowOrder ==
  /\ pc["poll"] = "pulled" /\ UiFree
  /\ messages' = batch \o messages
  /\ Handled

\* Update handles messagesPulledMsg: the messages go behind those of whatever
\* chat was opened last.
ShowPulled ==
  /\ pc["poll"] = "pulled" /\ UiFree
  /\ messages' = messages \o batch
  /\ Handled

-----------------------------------------------------------------------------
(* sendMessage *)

\* Ctrl+S in a chat.  The message is on the screen before anything is sent.
Send(m) ==
  /\ UiFree /\ screen = "chat" /\ fate[m] = "none"
  /\ selectedChat <= Len(conversations)
  /\ messages' = Append(messages, m)
  /\ out' = m
  /\ recipient' = conversations[selectedChat]
  /\ fate' = [fate EXCEPT ![m] = "sending"]
  /\ Goto("ui", IF connected THEN "transfer" ELSE "asking")
  /\ UNCHANGED <<server, connected, batch, lists, chat, history>>

\* SendMessage returns: with the server's word that it has the message, or
\* with an error, which becomes the status and says nothing of the server.
Push ==
  /\ pc["ui"] = "transfer"
  /\ SendEnds("accepted") \/ SendEnds("failed")
  /\ Goto("ui", "idle")
  /\ UNCHANGED <<server, connected, batch, lists, chat, messages, history>>

-----------------------------------------------------------------------------
(* Keys *)

\* The chats the list shows.  The library sorts them by how well they match
\* the filter; a key works on any of them here, whatever its place.
Visible == IF filter = Ids THEN items ELSE SelectSeq(items, LAMBDA c : c \in filter)

\* Fault: the chat is shown and the one to send to stays.
FaultOpenChat(i) ==
  /\ UiFree /\ screen = "list"
  /\ screen' = "chat"
  /\ messages' = <<>>
  /\ opened' = IF filter = Ids THEN Visible[i] ELSE NoId
  /\ UNCHANGED <<server, connected, pc, batch, lists, selectedChat, typed, history>>

\* Enter on the i-th chat the list shows: loadMessages starts it afresh.
OpenChat(i) ==
  /\ UiFree /\ screen = "list"
  /\ selectedChat' = i
  /\ screen' = "chat"
  /\ messages' = <<>>
  /\ opened' = IF filter = Ids THEN Visible[i] ELSE NoId
  /\ UNCHANGED <<server, connected, pc, batch, lists, typed, history>>

\* The position of the first c.
First(s, k, c) == s[k] = c /\ \A j \in 1..(k - 1) : s[j] # c

\* d on the i-th chat the list shows: the first with its id goes, from both lists.
DeleteChat(i) ==
  /\ UiFree /\ screen = "list"
  /\ Visible[i] # Welcome
  /\ \E k \in DOMAIN conversations :
       /\ First(conversations, k, Visible[i])
       /\ conversations' = RemoveAt(conversations, k)
  /\ \E k \in DOMAIN items :
       /\ First(items, k, Visible[i])
       /\ items' = RemoveAt(items, k)
  /\ UNCHANGED <<server, connected, pc, batch, filter, chat, messages, typed, history>>

\* / and what is typed after it, or Esc.
SetFilter(f) ==
  /\ UiFree /\ screen = "list"
  /\ filter' = f
  /\ UNCHANGED <<server, connected, pc, batch, conversations, items, chat, messages, typed,
                 history>>

\* n, and Esc in the form and in a chat.
GoTo(from, to) ==
  /\ UiFree /\ screen \in from
  /\ screen' = to
  /\ opened' = NoId
  /\ UNCHANGED <<server, connected, pc, batch, lists, selectedChat, messages, typed, history>>

\* Fault: the item is inserted before the last one.
FaultAddChat(d) ==
  /\ UiFree /\ screen = "new" /\ Len(conversations) < MaxChats
  /\ conversations' = Append(conversations, d)
  /\ items' = InsertAt(items, Len(conversations), d)
  /\ screen' = "list"
  /\ UNCHANGED <<server, connected, pc, batch, filter, selectedChat, opened, messages, typed,
                 history>>

\* Enter in the form, when its query stands for d.  The code counts from 0.
AddChat(d) ==
  /\ UiFree /\ screen = "new" /\ Len(conversations) < MaxChats
  /\ conversations' = Append(conversations, d)
  /\ items' = InsertAt(items, Len(conversations'), d)
  /\ screen' = "list"
  /\ UNCHANGED <<server, connected, pc, batch, filter, selectedChat, opened, messages, typed,
                 history>>

\* q in the list, and the program is started again.  Mail that a pull under way
\* brings, now or later, reaches nobody.
Quit ==
  /\ UiFree /\ screen = "list" /\ restarts < MaxRestarts
  /\ restarts' = restarts + 1
  /\ \/ box' = box
     \/ pc["poll"] = "transfer" /\ box' = <<>>
  /\ lost' = lost \cup ToSet(batch) \cup (ToSet(box) \ ToSet(box'))
  /\ connected' = FALSE
  /\ pc' = [pc EXCEPT !["poll"] = "begin"]
  /\ batch' = <<>> /\ messages' = <<>>
  /\ conversations' = <<Welcome>> /\ items' = <<Welcome>> /\ filter' = Ids
  /\ selectedChat' = 1 /\ opened' = NoId
  /\ UNCHANGED <<pending, rank, screen, typed, shownUpTo, missed>>

-----------------------------------------------------------------------------

Network ==
  \/ \E m \in Mail : PeerPush(m)
  \/ \E i \in DOMAIN box : Expire(i)
  \/ ServerRestart

Connect(g) ==
  RequestChallenge(g) \/ VerifyAccepted(g) \/ VerifyRefused(g) \/ ConnectFails(g)

Poll == PollAgain \/ PollBegin \/ Pull \/ PullFails \/ ShowPulled

Key ==
  \/ \E i \in 1..Len(Visible) : OpenChat(i) \/ DeleteChat(i)
  \/ \E f \in Filters \cup {Ids} : SetFilter(f)
  \/ GoTo({"list"}, "new") \/ GoTo({"chat", "new"}, "list")
  \/ \E d \in Peers : AddChat(d)
  \/ \E m \in Own : Send(m)
  \/ Quit

Next == Network \/ (\E g \in Goroutines : Connect(g)) \/ Poll \/ Push \/ Key

Spec == Init /\ [][Next]_vars

\* Goroutines run and requests end, at the latest by DefaultTimeout.  The network
\* is not down and the server not full for ever: of requests repeated for ever
\* some are answered and granted.
Fairness ==
  /\ \A g \in Goroutines : WF_vars(Connect(g))
  /\ WF_vars(Push)
  /\ WF_vars(PollAgain) /\ WF_vars(PollBegin) /\ WF_vars(ShowPulled)
  /\ SF_vars(RequestChallenge("poll")) /\ SF_vars(VerifyAccepted("poll"))
  /\ SF_vars(Pull)

FairSpec == Spec /\ Fairness

-----------------------------------------------------------------------------
(* Properties *)

\* What the list shows without a filter and the conversations that its
\* positions select are the same, whatever was added and deleted, the same
\* device twice included.
ListsInStep == items = conversations

\* A message typed in a chat is sent to the device whose chat was chosen, whatever
\* was added and deleted before.  Behind a filter tui.go:352 takes the position
\* among the chats shown for one among all: there the property claims nothing.
SentToOpened == out \in Own => opened \in {NoId, recipient}

\* Mail comes to m.messages in the order in which the server accepted it, and
\* no message twice, over lost answers, restarts and changes of the chat.
ShownInOrder ==
  /\ \A i, j \in DOMAIN batch : i < j => rank[batch[i]] < rank[batch[j]]
  /\ \A i \in DOMAIN batch : rank[batch[i]] > shownUpTo
  /\ \A i, j \in DOMAIN messages :
       i < j /\ messages[i] \in Mail /\ messages[j] \in Mail
         => rank[messages[i]] < rank[messages[j]]

\* A client that is not logged in gets in, though its two goroutines may refuse
\* each other and logins may fail.
LogsIn == ~connected ~> connected

\* What View draws of the mail.
Drawn == IF screen = "chat" THEN ToSet(messages) \cap Mail ELSE {}

\* Mail the server holds is drawn in the end, unless it is lost on the way or
\* comes while no chat is on the screen: nothing draws it then (tui.go:324), and
\* loadMessages, of which tui.go:736 says that it loads from the local store,
\* starts the next chat without it.
MailReachesScreen ==
  \A m \in Mail : m \in ToSet(box) ~> m \in Drawn \cup missed \cup lost

\* The message and position a goroutine works on exist, and what is in
\* m.messages, pulled or still in the mailbox follows in this order.
OrderInv ==
  /\ \A i, j \in DOMAIN box : i < j => rank[box[i]] < rank[box[j]]
  /\ \A i \in DOMAIN box : rank[box[i]] > shownUpTo
  /\ \A i \in DOMAIN box, j \in DOMAIN batch : rank[batch[j]] < rank[box[i]]
  /\ \A i \in DOMAIN messages : messages[i] \in Mail => rank[messages[i]] \in 1..shownUpTo
  /\ \A m \in Mail : rank[m] < NextRank
  /\ shownUpTo < NextRank

UiInv ==
  /\ pc["ui"] \in {"asking", "verifying", "transfer"} <=> out \in Own
  /\ pc["ui"] # "begin" /\ pc["ui"] # "pulled"
  /\ \A m \in Own : fate[m] = "sending" <=> out = m
  /\ pc["poll"] = "pulled" <=> batch # <<>>
  /\ screen = "chat" /\ opened # NoId =>
       /\ selectedChat \in DOMAIN conversations
       /\ opened = conversations[selectedChat]

IInv == TypeOK /\ UiInv /\ OrderInv /\ ListsInStep /\ SentToOpened /\ ShownInOrder

=============================================================================
