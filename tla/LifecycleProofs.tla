-------------------------- MODULE LifecycleProofs ---------------------------
(***************************************************************************)
(* The server process shuts down as it should for any number of requests,  *)
(* peers and loops.                                                        *)
(***************************************************************************)
EXTENDS Lifecycle, TLAPS

USE DEF Alive, Active

LEMMA InitInv == Init => IInv
  BY DEF Init, IInv, TypeOK, Stages, Graceful, OwnCloseNoError

\* The process may end before main has begun to stop it, or when Shutdown is over.
LEMMA DieInv ==
  ASSUME IInv, main # "gone", NEW reason \in {"return", "fatal", "signal"},
         Die(reason), asked' \in BOOLEAN,
         closing /\ ~timedOut => Active = {}
  PROVE  IInv'
<1>1. TypeOK'
  BY DEF IInv, TypeOK, Die, channels, ticks
<1>2. Stages'
  BY DEF IInv, TypeOK, Stages, Die, channels, ticks
<1>3. Graceful'
  BY DEF IInv, TypeOK, Stages, Graceful, Die
<1>4. OwnCloseNoError'
  BY DEF IInv, OwnCloseNoError, Die
<1> QED
  BY <1>1, <1>2, <1>3, <1>4 DEF IInv

LEMMA NextInv == IInv /\ [Next]_vars => IInv'
<1> SUFFICES ASSUME IInv, [Next]_vars PROVE IInv'
  OBVIOUS
<1> USE DEF IInv, TypeOK, Stages, Graceful, OwnCloseNoError, web, grpcs, channels, ticks, history
<1>1. CASE Serve
  BY <1>1 DEF Serve
<1>2. CASE ServeFails
  BY <1>2, DieInv DEF ServeFails
<1>3. CASE ServeEnds
  BY <1>3 DEF ServeEnds
<1>4. ASSUME NEW r \in Requests, Accept(r) PROVE IInv'
  BY <1>4 DEF Accept
<1>5. ASSUME NEW r \in Requests, Answer(r) PROVE IInv'
  BY <1>5 DEF Answer
<1>6. CASE Listen
  BY <1>6 DEF Listen
<1>7. CASE AcceptFails
  BY <1>7 DEF AcceptFails
<1>8. ASSUME NEW c \in Peers, AcceptPeer(c) \/ PeerCloses(c) PROVE IInv'
  BY <1>8 DEF AcceptPeer, PeerCloses
<1>9. ASSUME NEW l \in Loops, Fire(l) \/ Round(l) \/ StopLoop(l) PROVE IInv'
  <2>1. CASE Fire(l) \/ Round(l)
    <3>1. fired' \in [Loops -> BOOLEAN]
      BY <2>1, Zenon DEF Fire, Round
    <3>2. UNCHANGED <<main, web, grpcs, channels, loops, history>>
      BY <2>1 DEF Fire, Round
    <3> QED
      BY <3>1, <3>2
  <2>2. CASE StopLoop(l)
    BY <2>2 DEF StopLoop
  <2> QED
    BY <1>9, <2>1, <2>2
<1>10. CASE Signal
  <2>1. CASE main = "starting"
    BY <1>10, <2>1, DieInv DEF Signal
  <2>2. CASE main # "starting"
    BY <1>10, <2>2 DEF Signal
  <2> QED
    BY <2>1, <2>2
<1>11. CASE Notify
  BY <1>11 DEF Notify, Advance
<1>12. CASE Receive
  BY <1>12 DEF Receive, Advance
<1>13. CASE CloseStop
  BY <1>13 DEF CloseStop, Advance
<1>14. CASE CloseHTTP
  BY <1>14 DEF CloseHTTP, Advance
<1>15. CASE Drained
  BY <1>15 DEF Drained, Advance
<1>16. CASE DrainTimeout
  BY <1>16 DEF DrainTimeout, Advance
<1>17. CASE CloseGRPC
  BY <1>17 DEF CloseGRPC, Advance
<1>18. CASE Return
  BY <1>18, DieInv DEF Return
<1>19. CASE UNCHANGED vars
  BY <1>19 DEF vars
<1> QED
  BY <1>1, <1>2, <1>3, <1>4, <1>5, <1>6, <1>7, <1>8, <1>9, <1>10,
     <1>11, <1>12, <1>13, <1>14, <1>15, <1>16, <1>17, <1>18, <1>19 DEF Next

\* The stages of main and what has been stopped by then, with the two below.
THEOREM Invariance == Spec => []IInv
  BY InitInv, NextInv, PTL DEF Spec

\* Whatever comes during Shutdown (more signals, the end of Start, an error of the
\* gRPC listener), no request that got in is cut unless the drain timed out.
THEOREM RequestsDrained == Spec => []Graceful
<1>1. IInv => Graceful
  BY DEF IInv
<1> QED
  BY <1>1, Invariance, PTL

\* StartGRPC never reports Shutdown's own Close as an error.
THEOREM QuietClose == Spec => []OwnCloseNoError
<1>1. IInv => OwnCloseNoError
  BY DEF IInv
<1> QED
  BY <1>1, Invariance, PTL

=============================================================================
