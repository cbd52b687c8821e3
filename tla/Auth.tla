-------------------------------- MODULE Auth --------------------------------
(***************************************************************************)
(* Logging in: Connect of cmd/encli/network.go against the handlers        *)
(* handleAuthChallenge and handleAuthVerify, the session table and the     *)
(* clean-up of both.  The server keeps one pending challenge per device;   *)
(* the verify handler takes it under challengesMu, then opens a session    *)
(* under sm.mu and registers the device under ms.mu, releasing one lock    *)
(* before it takes the next.  The keys it then stores are never read and   *)
(* are left out.                                                           *)
(*                                                                         *)
(* A call of Connect is used once, and the random challenge of its first   *)
(* request and the random session of its second are named after it.  Ages  *)
(* stand for timestamps; they stop one tick past the longest limit that    *)
(* is compared with them.                                                  *)
(***************************************************************************)
EXTENDS Naturals, FiniteSets

CONSTANTS Calls,         \* calls of Connect
          Devices,
          DeviceOf,      \* the identity a call logs in
          Lag,           \* by how much a device's clock is behind the server's
          ChallengeTTL,  \* DefaultChallengeTTL
          SessionTTL,    \* ExpiresAt of CreateSession
          MaxAccounts,   \* maxAccounts
          NoCall

ASSUME AuthAssumption ==
  /\ DeviceOf \in [Calls -> Devices]
  /\ Lag \in [Devices -> Nat]
  /\ ChallengeTTL \in Nat /\ SessionTTL \in Nat /\ MaxAccounts \in Nat
  /\ NoCall \notin Calls

VARIABLES
  pc,            \* the client: where the call of Connect is
  get, post,     \* its two requests: on their way, being handled, answered
  took,          \* handleAuthVerify: pending, the challenge it took
  challenges,    \* s.challenges
  sessions,      \* sm.sessions
  registered,    \* the devices among ms.mailboxes
  others,        \* the accounts of everybody else
  challengeAge,  \* since pending.CreatedAt
  signatureAge,  \* since req.Timestamp, as the server sees it
  sessionAge,    \* since CreateSession
  disturbed      \* history: calls that overlapped another of their device, or a restart

server == <<challenges, sessions, registered, others>>
ages == <<challengeAge, signatureAge, sessionAge>>
vars == <<pc, get, post, took, server, ages, disturbed>>

TypeOK ==
  /\ pc \in [Calls -> {"idle", "asking", "verifying", "connected", "failed"}]
  /\ get \in [Calls -> {"none", "sent", "answered"}]
  /\ post \in [Calls -> {"none", "sent", "taken", "session", "ok", "rejected", "full", "lost"}]
  /\ took \in [Calls -> Calls \cup {NoCall}]
  /\ challenges \in [Devices -> Calls \cup {NoCall}]
  /\ sessions \in SUBSET Calls
  /\ registered \in SUBSET Devices
  /\ others \in 0..MaxAccounts
  /\ challengeAge \in [Calls -> 0..(ChallengeTTL + 1)]
  /\ signatureAge \in [Calls -> 0..(ChallengeTTL + 1)]
  /\ sessionAge \in [Calls -> 0..(SessionTTL + 1)]
  /\ disturbed \in SUBSET Calls

Init ==
  /\ pc = [c \in Calls |-> "idle"]
  /\ get = [c \in Calls |-> "none"] /\ post = [c \in Calls |-> "none"]
  /\ took = [c \in Calls |-> NoCall]
  /\ challenges = [d \in Devices |-> NoCall]
  /\ sessions = {} /\ registered = {} /\ others = 0
  /\ challengeAge = [c \in Calls |-> 0]
  /\ signatureAge = [c \in Calls |-> 0]
  /\ sessionAge = [c \in Calls |-> 0]
  /\ disturbed = {}

Capped(age, limit) == IF age > limit THEN limit + 1 ELSE age

\* A request of the call can still reach the pending challenge of its device.
Open(c) ==
  \/ get[c] = "sent"
  \/ get[c] = "answered" /\ pc[c] = "asking"
  \/ post[c] = "sent"

Rivals(c) == {e \in Calls \ {c} : DeviceOf[e] = DeviceOf[c] /\ Open(e)}

-----------------------------------------------------------------------------
(* The client *)

\* Connect asks for a challenge.
RequestChallenge(c) ==
  /\ pc[c] = "idle"
  /\ pc' = [pc EXCEPT ![c] = "asking"]
  /\ get' = [get EXCEPT ![c] = "sent"]
  /\ disturbed' = disturbed \cup Rivals(c) \cup (IF Rivals(c) = {} THEN {} ELSE {c})
  /\ UNCHANGED <<post, took, server, ages>>

\* The answer arrives; SignChallenge stamps it with the device's own clock and
\* verifyChallenge posts the signature.
VerifyChallenge(c) ==
  /\ pc[c] = "asking" /\ get[c] = "answered"
  /\ pc' = [pc EXCEPT ![c] = "verifying"]
  /\ post' = [post EXCEPT ![c] = "sent"]
  /\ signatureAge' = [signatureAge EXCEPT ![c] = Capped(Lag[DeviceOf[c]], ChallengeTTL)]
  /\ UNCHANGED <<get, took, server, challengeAge, sessionAge, disturbed>>

\* The answer to the signature arrives: a token, or an error.
Return(c) ==
  /\ pc[c] = "verifying" /\ post[c] \in {"ok", "rejected", "full"}
  /\ pc' = [pc EXCEPT ![c] = IF post[c] = "ok" THEN "connected" ELSE "failed"]
  /\ UNCHANGED <<get, post, took, server, ages, disturbed>>

\* DefaultTimeout passes or the connection breaks.  The request may yet arrive.
GiveUp(c) ==
  /\ pc[c] \in {"asking", "verifying"}
  /\ pc' = [pc EXCEPT ![c] = "failed"]
  /\ UNCHANGED <<get, post, took, server, ages, disturbed>>

-----------------------------------------------------------------------------
(* The server *)

\* Fault: a challenge that is still pending is kept.
AuthChallengeKept(c) ==
  LET d == DeviceOf[c]
  IN /\ get[c] = "sent"
     /\ get' = [get EXCEPT ![c] = "answered"]
     /\ challenges' = [challenges EXCEPT ![d] = IF @ = NoCall THEN c ELSE @]
     /\ challengeAge' = [challengeAge EXCEPT ![c] = 0]
     /\ UNCHANGED <<pc, post, took, sessions, registered, others,
                    signatureAge, sessionAge, disturbed>>

\* handleAuthChallenge: the new challenge replaces one still pending.
AuthChallenge(c) ==
  /\ get[c] = "sent"
  /\ get' = [get EXCEPT ![c] = "answered"]
  /\ challenges' = [challenges EXCEPT ![DeviceOf[c]] = c]
  /\ challengeAge' = [challengeAge EXCEPT ![c] = 0]
  /\ UNCHANGED <<pc, post, took, sessions, registered, others,
                 signatureAge, sessionAge, disturbed>>

\* Fault: the challenge is read but not deleted.
AuthVerifyRead(c) ==
  LET d == DeviceOf[c]
  IN /\ post[c] = "sent"
     /\ took' = [took EXCEPT ![c] = challenges[d]]
     /\ post' = [post EXCEPT ![c] = IF challenges[d] = NoCall THEN "rejected" ELSE "taken"]
     /\ UNCHANGED <<pc, get, server, ages, disturbed>>

\* handleAuthVerify takes the pending challenge out of the map; 401 if none.
AuthVerifyTake(c) ==
  LET d == DeviceOf[c]
  IN /\ post[c] = "sent"
     /\ took' = [took EXCEPT ![c] = challenges[d]]
     /\ post' = [post EXCEPT ![c] = IF challenges[d] = NoCall THEN "rejected" ELSE "taken"]
     /\ challenges' = [challenges EXCEPT ![d] = NoCall]
     /\ UNCHANGED <<pc, get, sessions, registered, others, ages, disturbed>>

\* Fault: the signature is not compared with the challenge that was taken.
VerifiedUnsigned(c) ==
  /\ challengeAge[took[c]] <= ChallengeTTL
  /\ signatureAge[c] <= ChallengeTTL

\* The challenge taken is fresh, the signature is fresh by the device's
\* timestamp, and it signs the challenge that was taken.
Verified(c) ==
  /\ challengeAge[took[c]] <= ChallengeTTL
  /\ signatureAge[c] <= ChallengeTTL
  /\ took[c] = c

\* 401, or CreateSession.
AuthVerifyCheck(c) ==
  /\ post[c] = "taken"
  /\ \/ /\ ~Verified(c)
        /\ post' = [post EXCEPT ![c] = "rejected"]
        /\ UNCHANGED <<sessions, sessionAge>>
     \/ /\ Verified(c)
        /\ post' = [post EXCEPT ![c] = "session"]
        /\ sessions' = sessions \cup {c}
        /\ sessionAge' = [sessionAge EXCEPT ![c] = 0]
  /\ UNCHANGED <<pc, get, took, challenges, registered, others,
                 challengeAge, signatureAge, disturbed>>

Accounts == Cardinality(registered) + others

\* RegisterDevice and the answer: 503 when the server is full, and the session
\* stays; the token otherwise.
AuthVerifyRegister(c) ==
  /\ post[c] = "session"
  /\ \/ /\ Accounts >= MaxAccounts
        /\ post' = [post EXCEPT ![c] = "full"]
        /\ UNCHANGED registered
     \/ /\ Accounts < MaxAccounts
        /\ post' = [post EXCEPT ![c] = "ok"]
        /\ registered' = registered \cup {DeviceOf[c]}
  /\ UNCHANGED <<pc, get, took, challenges, sessions, others, ages, disturbed>>

\* Fault: the age is compared the wrong way round.
StaleSessionsInverted == {c \in sessions : sessionAge[c] <= SessionTTL}

StaleSessions == {c \in sessions : sessionAge[c] > SessionTTL}

\* SessionManager.CleanupExpired
CleanSessions ==
  /\ StaleSessions # {}
  /\ sessions' = sessions \ StaleSessions
  /\ UNCHANGED <<pc, get, post, took, challenges, registered, others,
                 ages, disturbed>>

\* Fault: only the challenges of registered devices are looked at.
StaleChallengesRegistered ==
  {d \in registered : challenges[d] # NoCall /\ challengeAge[challenges[d]] > ChallengeTTL}

StaleChallenges ==
  {d \in Devices : challenges[d] # NoCall /\ challengeAge[challenges[d]] > ChallengeTTL}

\* cleanupExpiredChallenges
CleanChallenges ==
  /\ StaleChallenges # {}
  /\ challenges' = [d \in Devices |-> IF d \in StaleChallenges THEN NoCall ELSE challenges[d]]
  /\ UNCHANGED <<pc, get, post, took, sessions, registered, others,
                 ages, disturbed>>

\* Storage seen from here: other accounts come and go, and the clean-up drops
\* the empty mailbox of a device.
AccountsChange ==
  /\ \/ others' \in {n \in 0..MaxAccounts : n # others} /\ UNCHANGED registered
     \/ \E d \in registered : registered' = registered \ {d} /\ UNCHANGED others
  /\ UNCHANGED <<pc, get, post, took, challenges, sessions, ages, disturbed>>

\* The server process ends and another starts: it kept everything in memory.
Restart ==
  /\ challenges' = [d \in Devices |-> NoCall]
  /\ sessions' = {} /\ registered' = {} /\ others' = 0
  /\ post' = [c \in Calls |->
                IF post[c] \in {"taken", "session"} THEN "lost" ELSE post[c]]
  /\ disturbed' = disturbed \cup {c \in Calls : Open(c)}
  /\ UNCHANGED <<pc, get, took, ages>>

\* An age grows while a step may still read it.
Tick ==
  LET challenge(c) == challenges[DeviceOf[c]] = c
                        \/ \E e \in Calls : post[e] = "taken" /\ took[e] = c
  IN /\ challengeAge' = [c \in Calls |-> IF challenge(c) THEN Capped(challengeAge[c] + 1, ChallengeTTL)
                                                         ELSE challengeAge[c]]
     /\ signatureAge' = [c \in Calls |-> IF post[c] \in {"sent", "taken"}
                                           THEN Capped(signatureAge[c] + 1, ChallengeTTL)
                                           ELSE signatureAge[c]]
     /\ sessionAge' = [c \in Calls |-> IF c \in sessions THEN Capped(sessionAge[c] + 1, SessionTTL)
                                                         ELSE sessionAge[c]]
     /\ UNCHANGED <<pc, get, post, took, server, disturbed>>

Connect(c) == RequestChallenge(c) \/ VerifyChallenge(c) \/ Return(c) \/ GiveUp(c)

AuthVerify(c) ==
  AuthVerifyTake(c) \/ AuthVerifyCheck(c) \/ AuthVerifyRegister(c)

Next ==
  \/ \E c \in Calls : Connect(c) \/ AuthChallenge(c) \/ AuthVerify(c)
  \/ CleanSessions \/ CleanChallenges \/ AccountsChange \/ Restart
  \/ Tick

Spec == Init /\ [][Next]_vars

\* Time passes and cleanupLoop runs on its ticker; a client may stop anywhere.
Fairness == WF_vars(Tick) /\ WF_vars(CleanSessions) /\ WF_vars(CleanChallenges)

FairSpec == Spec /\ Fairness

-----------------------------------------------------------------------------
(* Properties *)

\* A login is refused for its challenge only when it overlapped another login
\* of the device or a restart, or took too long: what earlier calls left behind
\* (a challenge nobody answered, a request that timed out) harms no later one.
AloneIsAccepted ==
  \A c \in Calls :
    post[c] = "rejected" =>
      \/ c \in disturbed
      \/ challengeAge[c] > ChallengeTTL \/ signatureAge[c] > ChallengeTTL

\* However verify requests interleave, a challenge is spent by at most one, and
\* a session is opened only by the call the challenge was made for.
ChallengeSpentOnce ==
  /\ \A c, e \in Calls : took[c] = took[e] /\ took[c] # NoCall => c = e
  /\ \A c \in sessions : took[c] = c

\* No session is kept for ever, the ones whose login failed on a full server or
\* whose token was never received included.
SessionsEnd == \A c \in Calls : c \in sessions ~> c \notin sessions

\* A challenge nobody answers is dropped, whether or not its device ever was
\* let in.
ChallengesEnd ==
  \A d \in Devices : \A c \in Calls : challenges[d] = c ~> challenges[d] # c

\* storage.go:151 and :153, "check whether it already exists" and "already
\* registered": a device that has its mailbox is let in again.
RegisteredReadmitted ==
  [][\A c \in Calls : post[c] = "session" /\ post'[c] = "full"
                        => DeviceOf[c] \notin registered]_vars

\* Which stages of a call's two requests go together.
CallInv ==
  \A c \in Calls :
    /\ pc[c] = "idle" => get[c] = "none"
    /\ get[c] # "answered" => post[c] = "none"
    /\ pc[c] = "asking" => post[c] = "none"
    /\ post[c] \in {"none", "sent"} => took[c] = NoCall
    /\ post[c] = "taken" => took[c] # NoCall
    /\ took[c] # NoCall => get[took[c]] = "answered"
    /\ c \in sessions => post[c] \notin {"none", "sent", "taken", "rejected"}

\* A pending challenge was made for its device and nobody has taken it.
PendingInv ==
  \A d \in Devices :
    challenges[d] # NoCall =>
      /\ DeviceOf[challenges[d]] = d
      /\ get[challenges[d]] = "answered"
      /\ \A e \in Calls : took[e] # challenges[d]

\* A call that nothing has disturbed is the only one of its device that can
\* reach the pending challenge, which is its own until it takes it or it expires.
AloneInv ==
  \A c \in Calls \ disturbed :
    /\ Open(c) => Rivals(c) = {}
    /\ Open(c) /\ get[c] = "answered" /\ challengeAge[c] <= ChallengeTTL
         => challenges[DeviceOf[c]] = c
    /\ post[c] = "taken" => took[c] = c \/ challengeAge[c] > ChallengeTTL

\* Inductive.
IInv ==
  TypeOK /\ CallInv /\ PendingInv /\ AloneInv /\ ChallengeSpentOnce /\ AloneIsAccepted
=============================================================================
