----------------------------- MODULE AuthProofs -----------------------------
(***************************************************************************)
(* What logging in guarantees for any number of devices and of calls of    *)
(* Connect: a challenge is spent at most once, and a login is refused for  *)
(* its challenge only when something overlapped it or it took too long.    *)
(* The inductive invariant is that a call nothing has disturbed still has  *)
(* its own challenge pending.                                              *)
(***************************************************************************)
EXTENDS Auth, TLAPS

\* An age that is capped keeps to its range and its order with the limit.
LEMMA CappedAge ==
  ASSUME NEW limit \in Nat, NEW age \in Nat
  PROVE  /\ Capped(age, limit) \in 0..(limit + 1)
         /\ Capped(age + 1, limit) \in 0..(limit + 1)
         /\ Capped(age + 1, limit) <= limit => age <= limit
BY DEF Capped

\* Time only passes: an age that is within its limit after a tick was before.
LEMMA TickAges ==
  ASSUME TypeOK, Tick
  PROVE  /\ challengeAge' \in [Calls -> 0..(ChallengeTTL + 1)]
         /\ signatureAge' \in [Calls -> 0..(ChallengeTTL + 1)]
         /\ sessionAge' \in [Calls -> 0..(SessionTTL + 1)]
         /\ \A c \in Calls : /\ challengeAge'[c] <= ChallengeTTL => challengeAge[c] <= ChallengeTTL
                             /\ signatureAge'[c] <= ChallengeTTL => signatureAge[c] <= ChallengeTTL
<1> USE AuthAssumption DEF TypeOK
<1>1. \A c \in Calls : challengeAge'[c] \in {challengeAge[c], Capped(challengeAge[c] + 1, ChallengeTTL)}
  BY DEF Tick
<1>2. \A c \in Calls : signatureAge'[c] \in {signatureAge[c], Capped(signatureAge[c] + 1, ChallengeTTL)}
  BY DEF Tick
<1>3. \A c \in Calls : sessionAge'[c] \in {sessionAge[c], Capped(sessionAge[c] + 1, SessionTTL)}
  BY DEF Tick
<1>4. /\ challengeAge' = [c \in Calls |-> challengeAge'[c]]
      /\ signatureAge' = [c \in Calls |-> signatureAge'[c]]
      /\ sessionAge' = [c \in Calls |-> sessionAge'[c]]
  BY DEF Tick
<1>5. ASSUME NEW c \in Calls
      PROVE  /\ challengeAge'[c] \in 0..(ChallengeTTL + 1)
             /\ signatureAge'[c] \in 0..(ChallengeTTL + 1)
             /\ sessionAge'[c] \in 0..(SessionTTL + 1)
             /\ challengeAge'[c] <= ChallengeTTL => challengeAge[c] <= ChallengeTTL
             /\ signatureAge'[c] <= ChallengeTTL => signatureAge[c] <= ChallengeTTL
  <2>1. /\ challengeAge[c] \in 0..(ChallengeTTL + 1)
        /\ signatureAge[c] \in 0..(ChallengeTTL + 1)
        /\ sessionAge[c] \in 0..(SessionTTL + 1)
    OBVIOUS
  <2>2. /\ challengeAge'[c] \in 0..(ChallengeTTL + 1)
        /\ challengeAge'[c] <= ChallengeTTL => challengeAge[c] <= ChallengeTTL
    BY <1>1, <2>1 DEF Capped
  <2>3. /\ signatureAge'[c] \in 0..(ChallengeTTL + 1)
        /\ signatureAge'[c] <= ChallengeTTL => signatureAge[c] <= ChallengeTTL
    BY <1>2, <2>1 DEF Capped
  <2>4. sessionAge'[c] \in 0..(SessionTTL + 1)
    BY <1>3, <2>1 DEF Capped
  <2>5. QED
    BY <2>2, <2>3, <2>4
<1>6. QED
  BY <1>4, <1>5

\* Every step preserves the types.
LEMMA TypeOKStep == IInv /\ [Next]_vars => TypeOK'
<1> SUFFICES ASSUME IInv, [Next]_vars PROVE TypeOK'
  OBVIOUS
<1> USE AuthAssumption DEF IInv
<1>1. ASSUME NEW c \in Calls, RequestChallenge(c) PROVE TypeOK'
  BY <1>1 DEF RequestChallenge, TypeOK, Rivals, server, ages
<1>2. ASSUME NEW c \in Calls, VerifyChallenge(c) PROVE TypeOK'
  BY <1>2, CappedAge DEF VerifyChallenge, TypeOK, server, ages
<1>3. ASSUME NEW c \in Calls, Return(c) PROVE TypeOK'
  BY <1>3 DEF Return, TypeOK, server, ages
<1>4. ASSUME NEW c \in Calls, GiveUp(c) PROVE TypeOK'
  BY <1>4 DEF GiveUp, TypeOK, server, ages
<1>5. ASSUME NEW c \in Calls, AuthChallenge(c) PROVE TypeOK'
  BY <1>5 DEF AuthChallenge, TypeOK, server, ages
<1>6. ASSUME NEW c \in Calls, AuthVerifyTake(c) PROVE TypeOK'
  BY <1>6 DEF AuthVerifyTake, TypeOK, server, ages
<1>7. ASSUME NEW c \in Calls, AuthVerifyCheck(c) PROVE TypeOK'
  BY <1>7 DEF AuthVerifyCheck, TypeOK, server, ages
<1>8. ASSUME NEW c \in Calls, AuthVerifyRegister(c) PROVE TypeOK'
  BY <1>8 DEF AuthVerifyRegister, TypeOK, server, ages
<1>9. CASE CleanSessions
  BY <1>9 DEF CleanSessions, TypeOK, server, ages
<1>10. CASE CleanChallenges
  BY <1>10 DEF CleanChallenges, TypeOK, server, ages
<1>11. CASE AccountsChange
  BY <1>11 DEF AccountsChange, TypeOK, server, ages
<1>12. CASE Restart
  BY <1>12 DEF Restart, TypeOK, server, ages
<1>13. CASE Tick
  BY <1>13, TickAges DEF Tick, TypeOK, server, ages
<1>14. CASE UNCHANGED vars
  BY <1>14 DEF vars, TypeOK, server, ages
<1>15. QED
  BY <1>1, <1>2, <1>3, <1>4, <1>5, <1>6, <1>7, <1>8, <1>9, <1>10, <1>11, <1>12, <1>13, <1>14 DEF Next, Connect, AuthVerify

\* Every step keeps the stages of each call's two requests together.
LEMMA CallInvStep == IInv /\ [Next]_vars => CallInv'
<1> SUFFICES ASSUME IInv, [Next]_vars PROVE CallInv'
  OBVIOUS
<1> USE AuthAssumption DEF IInv
<1>1. ASSUME NEW c \in Calls, RequestChallenge(c) PROVE CallInv'
  BY <1>1 DEF RequestChallenge, TypeOK, CallInv, server, ages
<1>2. ASSUME NEW c \in Calls, VerifyChallenge(c) PROVE CallInv'
  BY <1>2 DEF VerifyChallenge, TypeOK, CallInv, server, ages
<1>3. ASSUME NEW c \in Calls, Return(c) PROVE CallInv'
  BY <1>3 DEF Return, TypeOK, CallInv, server, ages
<1>4. ASSUME NEW c \in Calls, GiveUp(c) PROVE CallInv'
  BY <1>4 DEF GiveUp, TypeOK, CallInv, server, ages
<1>5. ASSUME NEW c \in Calls, AuthChallenge(c) PROVE CallInv'
  BY <1>5 DEF AuthChallenge, TypeOK, CallInv, server, ages
<1>6. ASSUME NEW c \in Calls, AuthVerifyTake(c) PROVE CallInv'
  BY <1>6 DEF AuthVerifyTake, TypeOK, CallInv, PendingInv, server, ages
<1>7. ASSUME NEW c \in Calls, AuthVerifyCheck(c) PROVE CallInv'
  BY <1>7 DEF AuthVerifyCheck, TypeOK, CallInv, server, ages
<1>8. ASSUME NEW c \in Calls, AuthVerifyRegister(c) PROVE CallInv'
  BY <1>8 DEF AuthVerifyRegister, TypeOK, CallInv, server, ages
<1>9. CASE CleanSessions
  BY <1>9 DEF CleanSessions, TypeOK, CallInv, server, ages
<1>10. CASE CleanChallenges
  BY <1>10 DEF CleanChallenges, TypeOK, CallInv, server, ages
<1>11. CASE AccountsChange
  BY <1>11 DEF AccountsChange, TypeOK, CallInv, server, ages
<1>12. CASE Restart
  BY <1>12 DEF Restart, TypeOK, CallInv, server, ages
<1>13. CASE Tick
  BY <1>13 DEF Tick, TypeOK, CallInv, server, ages
<1>14. CASE UNCHANGED vars
  BY <1>14 DEF vars, TypeOK, CallInv, server, ages
<1>15. QED
  BY <1>1, <1>2, <1>3, <1>4, <1>5, <1>6, <1>7, <1>8, <1>9, <1>10, <1>11, <1>12, <1>13, <1>14 DEF Next, Connect, AuthVerify

\* A pending challenge stays unspent: AuthVerifyTake removes the one it takes.
LEMMA PendingInvStep == IInv /\ [Next]_vars => PendingInv'
<1> SUFFICES ASSUME IInv, [Next]_vars PROVE PendingInv'
  OBVIOUS
<1> USE AuthAssumption DEF IInv
<1>1. ASSUME NEW c \in Calls, RequestChallenge(c) PROVE PendingInv'
  BY <1>1 DEF RequestChallenge, TypeOK, CallInv, PendingInv, server, ages
<1>2. ASSUME NEW c \in Calls, VerifyChallenge(c) PROVE PendingInv'
  BY <1>2 DEF VerifyChallenge, TypeOK, CallInv, PendingInv, server, ages
<1>3. ASSUME NEW c \in Calls, Return(c) PROVE PendingInv'
  BY <1>3 DEF Return, TypeOK, CallInv, PendingInv, server, ages
<1>4. ASSUME NEW c \in Calls, GiveUp(c) PROVE PendingInv'
  BY <1>4 DEF GiveUp, TypeOK, CallInv, PendingInv, server, ages
<1>5. ASSUME NEW c \in Calls, AuthChallenge(c) PROVE PendingInv'
  BY <1>5 DEF AuthChallenge, TypeOK, CallInv, PendingInv, server, ages
<1>6. ASSUME NEW c \in Calls, AuthVerifyTake(c) PROVE PendingInv'
  BY <1>6 DEF AuthVerifyTake, TypeOK, CallInv, PendingInv, server, ages
<1>7. ASSUME NEW c \in Calls, AuthVerifyCheck(c) PROVE PendingInv'
  BY <1>7 DEF AuthVerifyCheck, TypeOK, CallInv, PendingInv, server, ages
<1>8. ASSUME NEW c \in Calls, AuthVerifyRegister(c) PROVE PendingInv'
  BY <1>8 DEF AuthVerifyRegister, TypeOK, CallInv, PendingInv, server, ages
<1>9. CASE CleanSessions
  BY <1>9 DEF CleanSessions, TypeOK, CallInv, PendingInv, server, ages
<1>10. CASE CleanChallenges
  BY <1>10 DEF CleanChallenges, TypeOK, CallInv, PendingInv, server, ages
<1>11. CASE AccountsChange
  BY <1>11 DEF AccountsChange, TypeOK, CallInv, PendingInv, server, ages
<1>12. CASE Restart
  BY <1>12 DEF Restart, TypeOK, CallInv, PendingInv, server, ages
<1>13. CASE Tick
  BY <1>13 DEF Tick, TypeOK, CallInv, PendingInv, server, ages
<1>14. CASE UNCHANGED vars
  BY <1>14 DEF vars, TypeOK, CallInv, PendingInv, server, ages
<1>15. QED
  BY <1>1, <1>2, <1>3, <1>4, <1>5, <1>6, <1>7, <1>8, <1>9, <1>10, <1>11, <1>12, <1>13, <1>14 DEF Next, Connect, AuthVerify

\* An undisturbed call keeps its challenge: a step that replaces or takes it is
\* one of a rival, and the clean-up waits until it has expired.
LEMMA AloneInvStep == IInv /\ [Next]_vars => AloneInv'
<1> SUFFICES ASSUME IInv, [Next]_vars PROVE AloneInv'
  OBVIOUS
<1> USE AuthAssumption DEF IInv
<1>1. ASSUME NEW c \in Calls, RequestChallenge(c) PROVE AloneInv'
  BY <1>1 DEF RequestChallenge, TypeOK, CallInv, PendingInv, AloneInv, Rivals, Open, server, ages
<1>2. ASSUME NEW c \in Calls, VerifyChallenge(c) PROVE AloneInv'
  BY <1>2 DEF VerifyChallenge, TypeOK, CallInv, PendingInv, AloneInv, Rivals, Open, server, ages
<1>3. ASSUME NEW c \in Calls, Return(c) PROVE AloneInv'
  BY <1>3 DEF Return, TypeOK, CallInv, PendingInv, AloneInv, Rivals, Open, server, ages
<1>4. ASSUME NEW c \in Calls, GiveUp(c) PROVE AloneInv'
  BY <1>4 DEF GiveUp, TypeOK, CallInv, PendingInv, AloneInv, Rivals, Open, server, ages
<1>5. ASSUME NEW c \in Calls, AuthChallenge(c) PROVE AloneInv'
  BY <1>5 DEF AuthChallenge, TypeOK, CallInv, PendingInv, AloneInv, Rivals, Open, server, ages
<1>6. ASSUME NEW c \in Calls, AuthVerifyTake(c) PROVE AloneInv'
  BY <1>6 DEF AuthVerifyTake, TypeOK, CallInv, PendingInv, AloneInv, Rivals, Open, server, ages
<1>7. ASSUME NEW c \in Calls, AuthVerifyCheck(c) PROVE AloneInv'
  BY <1>7 DEF AuthVerifyCheck, TypeOK, CallInv, PendingInv, AloneInv, Rivals, Open, server, ages
<1>8. ASSUME NEW c \in Calls, AuthVerifyRegister(c) PROVE AloneInv'
  BY <1>8 DEF AuthVerifyRegister, TypeOK, CallInv, PendingInv, AloneInv, Rivals, Open, server, ages
<1>9. CASE CleanSessions
  BY <1>9 DEF CleanSessions, TypeOK, CallInv, PendingInv, AloneInv, Rivals, Open, server, ages
<1>10. CASE CleanChallenges
  BY <1>10 DEF CleanChallenges, StaleChallenges, TypeOK, CallInv, PendingInv, AloneInv, Rivals, Open, server, ages
<1>11. CASE AccountsChange
  BY <1>11 DEF AccountsChange, TypeOK, CallInv, PendingInv, AloneInv, Rivals, Open, server, ages
<1>12. CASE Restart
  BY <1>12 DEF Restart, TypeOK, CallInv, PendingInv, AloneInv, Rivals, Open, server, ages
<1>13. CASE Tick
  BY <1>13, TickAges DEF Tick, TypeOK, CallInv, PendingInv, AloneInv, Rivals, Open, server, ages
<1>14. CASE UNCHANGED vars
  BY <1>14 DEF vars, TypeOK, CallInv, PendingInv, AloneInv, Rivals, Open, server, ages
<1>15. QED
  BY <1>1, <1>2, <1>3, <1>4, <1>5, <1>6, <1>7, <1>8, <1>9, <1>10, <1>11, <1>12, <1>13, <1>14 DEF Next, Connect, AuthVerify

\* The challenge a call takes was taken by no other, and a session is opened
\* only for the challenge the call signed.
LEMMA ChallengeSpentOnceStep == IInv /\ [Next]_vars => ChallengeSpentOnce'
<1> SUFFICES ASSUME IInv, [Next]_vars PROVE ChallengeSpentOnce'
  OBVIOUS
<1> USE AuthAssumption DEF IInv
<1>1. ASSUME NEW c \in Calls, RequestChallenge(c) PROVE ChallengeSpentOnce'
  BY <1>1 DEF RequestChallenge, TypeOK, CallInv, PendingInv, ChallengeSpentOnce, server, ages
<1>2. ASSUME NEW c \in Calls, VerifyChallenge(c) PROVE ChallengeSpentOnce'
  BY <1>2 DEF VerifyChallenge, TypeOK, CallInv, PendingInv, ChallengeSpentOnce, server, ages
<1>3. ASSUME NEW c \in Calls, Return(c) PROVE ChallengeSpentOnce'
  BY <1>3 DEF Return, TypeOK, CallInv, PendingInv, ChallengeSpentOnce, server, ages
<1>4. ASSUME NEW c \in Calls, GiveUp(c) PROVE ChallengeSpentOnce'
  BY <1>4 DEF GiveUp, TypeOK, CallInv, PendingInv, ChallengeSpentOnce, server, ages
<1>5. ASSUME NEW c \in Calls, AuthChallenge(c) PROVE ChallengeSpentOnce'
  BY <1>5 DEF AuthChallenge, TypeOK, CallInv, PendingInv, ChallengeSpentOnce, server, ages
<1>6. ASSUME NEW c \in Calls, AuthVerifyTake(c) PROVE ChallengeSpentOnce'
  BY <1>6 DEF AuthVerifyTake, TypeOK, CallInv, PendingInv, ChallengeSpentOnce, server, ages
<1>7. ASSUME NEW c \in Calls, AuthVerifyCheck(c) PROVE ChallengeSpentOnce'
  BY <1>7 DEF AuthVerifyCheck, TypeOK, CallInv, PendingInv, ChallengeSpentOnce, Verified, server, ages
<1>8. ASSUME NEW c \in Calls, AuthVerifyRegister(c) PROVE ChallengeSpentOnce'
  BY <1>8 DEF AuthVerifyRegister, TypeOK, CallInv, PendingInv, ChallengeSpentOnce, server, ages
<1>9. CASE CleanSessions
  BY <1>9 DEF CleanSessions, TypeOK, CallInv, PendingInv, ChallengeSpentOnce, server, ages
<1>10. CASE CleanChallenges
  BY <1>10 DEF CleanChallenges, TypeOK, CallInv, PendingInv, ChallengeSpentOnce, server, ages
<1>11. CASE AccountsChange
  BY <1>11 DEF AccountsChange, TypeOK, CallInv, PendingInv, ChallengeSpentOnce, server, ages
<1>12. CASE Restart
  BY <1>12 DEF Restart, TypeOK, CallInv, PendingInv, ChallengeSpentOnce, server, ages
<1>13. CASE Tick
  BY <1>13 DEF Tick, TypeOK, CallInv, PendingInv, ChallengeSpentOnce, server, ages
<1>14. CASE UNCHANGED vars
  BY <1>14 DEF vars, TypeOK, CallInv, PendingInv, ChallengeSpentOnce, server, ages
<1>15. QED
  BY <1>1, <1>2, <1>3, <1>4, <1>5, <1>6, <1>7, <1>8, <1>9, <1>10, <1>11, <1>12, <1>13, <1>14 DEF Next, Connect, AuthVerify

\* The two places that answer 401 do so to an undisturbed call only when it
\* took too long.
LEMMA AloneIsAcceptedStep == IInv /\ [Next]_vars => AloneIsAccepted'
<1> SUFFICES ASSUME IInv, [Next]_vars PROVE AloneIsAccepted'
  OBVIOUS
<1> USE AuthAssumption DEF IInv
<1>1. ASSUME NEW c \in Calls, RequestChallenge(c) PROVE AloneIsAccepted'
  BY <1>1 DEF RequestChallenge, TypeOK, CallInv, AloneInv, Open, AloneIsAccepted, server, ages
<1>2. ASSUME NEW c \in Calls, VerifyChallenge(c) PROVE AloneIsAccepted'
  BY <1>2 DEF VerifyChallenge, TypeOK, CallInv, AloneInv, Open, AloneIsAccepted, server, ages
<1>3. ASSUME NEW c \in Calls, Return(c) PROVE AloneIsAccepted'
  BY <1>3 DEF Return, TypeOK, CallInv, AloneInv, Open, AloneIsAccepted, server, ages
<1>4. ASSUME NEW c \in Calls, GiveUp(c) PROVE AloneIsAccepted'
  BY <1>4 DEF GiveUp, TypeOK, CallInv, AloneInv, Open, AloneIsAccepted, server, ages
<1>5. ASSUME NEW c \in Calls, AuthChallenge(c) PROVE AloneIsAccepted'
  BY <1>5 DEF AuthChallenge, TypeOK, CallInv, AloneInv, Open, AloneIsAccepted, server, ages
<1>6. ASSUME NEW c \in Calls, AuthVerifyTake(c) PROVE AloneIsAccepted'
  BY <1>6 DEF AuthVerifyTake, TypeOK, CallInv, AloneInv, Open, AloneIsAccepted, server, ages
<1>7. ASSUME NEW c \in Calls, AuthVerifyCheck(c) PROVE AloneIsAccepted'
  BY <1>7 DEF AuthVerifyCheck, TypeOK, CallInv, AloneInv, Open, AloneIsAccepted, Verified, server, ages
<1>8. ASSUME NEW c \in Calls, AuthVerifyRegister(c) PROVE AloneIsAccepted'
  BY <1>8 DEF AuthVerifyRegister, TypeOK, CallInv, AloneInv, Open, AloneIsAccepted, server, ages
<1>9. CASE CleanSessions
  BY <1>9 DEF CleanSessions, TypeOK, CallInv, AloneInv, Open, AloneIsAccepted, server, ages
<1>10. CASE CleanChallenges
  BY <1>10 DEF CleanChallenges, TypeOK, CallInv, AloneInv, Open, AloneIsAccepted, server, ages
<1>11. CASE AccountsChange
  BY <1>11 DEF AccountsChange, TypeOK, CallInv, AloneInv, Open, AloneIsAccepted, server, ages
<1>12. CASE Restart
  BY <1>12 DEF Restart, TypeOK, CallInv, AloneInv, Open, AloneIsAccepted, server, ages
<1>13. CASE Tick
  BY <1>13, TickAges DEF Tick, TypeOK, CallInv, AloneInv, Open, AloneIsAccepted, server, ages
<1>14. CASE UNCHANGED vars
  BY <1>14 DEF vars, TypeOK, CallInv, AloneInv, Open, AloneIsAccepted, server, ages
<1>15. QED
  BY <1>1, <1>2, <1>3, <1>4, <1>5, <1>6, <1>7, <1>8, <1>9, <1>10, <1>11, <1>12, <1>13, <1>14 DEF Next, Connect, AuthVerify

\* IInv is an invariant of logging in.
THEOREM Invariance == Spec => []IInv
<1>1. Init => IInv
  BY AuthAssumption DEF Init, IInv, TypeOK, CallInv, PendingInv, AloneInv,
     ChallengeSpentOnce, AloneIsAccepted, Open
<1>2. IInv /\ [Next]_vars => IInv'
  BY TypeOKStep, CallInvStep, PendingInvStep, AloneInvStep, ChallengeSpentOnceStep,
     AloneIsAcceptedStep DEF IInv
<1>3. QED
  BY <1>1, <1>2, PTL DEF Spec

\* No two verify requests spend one challenge, and no session is opened on a
\* challenge that was made for another call (handlers.go:220-228, 249-255).
THEOREM SpentOnce == Spec => []ChallengeSpentOnce
<1>1. IInv => ChallengeSpentOnce
  BY DEF IInv
<1>2. QED
  BY <1>1, Invariance, PTL

\* A login that overlaps neither another of its device nor a restart, and is
\* quick enough, is not refused for its challenge, whatever earlier logins left.
THEOREM AloneAccepted == Spec => []AloneIsAccepted
<1>1. IInv => AloneIsAccepted
  BY DEF IInv
<1>2. QED
  BY <1>1, Invariance, PTL
=============================================================================
