----------------------------- MODULE Lifecycle ------------------------------
(***************************************************************************)
(* The life of a server process: main() of server/main.go with the         *)
(* goroutines it starts, and Start, StartGRPC, Shutdown and the loops of   *)
(* server/server.go.                                                       *)
(*                                                                         *)
(* http.Server is external: Shutdown makes Serve return ErrServerClosed,   *)
(* takes no new request, and returns when none is active or its context is *)
(* over.  A handler may take for ever.  What the requests and the sweeps   *)
(* do to the stores is in Storage, Auth and Directory.                     *)
(***************************************************************************)
EXTENDS Naturals

CONSTANTS Requests,  \* HTTP requests
          Peers,     \* connections to the gRPC port
          Loops      \* the goroutines started: "cleanup", and "noise" if enabled

VARIABLES
  main,      \* where main() is
  http,      \* the goroutine of Start
  closing,   \* http.Server's flag: Shutdown has been called
  grpc,      \* the goroutine of StartGRPC
  listener,  \* s.grpcListener
  stopCh,    \* it is closed
  sigCh,     \* a signal waits in the channel
  requests, conns,
  loops, fired,
  asked,     \* history: a signal has come
  timedOut,  \* history: Shutdown's context was over before the requests were
  exitBy,    \* history: why the process ended
  grpcError  \* history: why StartGRPC reported an error

web      == <<http, closing, requests>>
grpcs    == <<grpc, listener, conns, grpcError>>
channels == <<stopCh, sigCh>>
ticks    == <<loops, fired>>
history  == <<asked, timedOut, exitBy>>
vars == <<main, web, grpcs, channels, ticks, history>>

TypeOK ==
  /\ main \in {"starting", "waiting", "signalled", "draining", "drained", "returned", "gone"}
  /\ http \in {"starting", "serving", "stopped"}
  /\ grpc \in {"starting", "accepting", "stopped"}
  /\ listener \in {"none", "open", "closed"}
  /\ closing \in BOOLEAN /\ stopCh \in BOOLEAN /\ sigCh \in BOOLEAN
  /\ requests \in [Requests -> {"none", "active", "answered", "cut"}]
  /\ conns \in SUBSET Peers
  /\ loops \in [Loops -> {"running", "stopped"}]
  /\ fired \in [Loops -> BOOLEAN]
  /\ asked \in BOOLEAN /\ timedOut \in BOOLEAN
  /\ exitBy \in {"none", "return", "fatal", "signal"}
  /\ grpcError \in {"none", "own", "other"}

Init ==
  /\ main = "starting"
  /\ http = "starting" /\ grpc = "starting" /\ listener = "none"
  /\ closing = FALSE /\ stopCh = FALSE /\ sigCh = FALSE
  /\ requests = [r \in Requests |-> "none"]
  /\ conns = {}
  /\ loops = [l \in Loops |-> "running"]
  /\ fired = [l \in Loops |-> FALSE]
  /\ asked = FALSE /\ timedOut = FALSE
  /\ exitBy = "none" /\ grpcError = "none"

Active == {r \in Requests : requests[r] = "active"}
Alive == main # "gone"

\* The process ends, and every goroutine and connection with it.
Die(reason) ==
  /\ main' = "gone"
  /\ exitBy' = reason
  /\ requests' = [r \in Requests |-> IF r \in Active THEN "cut" ELSE requests[r]]
  /\ conns' = {}
  /\ UNCHANGED <<http, closing, grpc, listener, grpcError, channels, ticks, timedOut>>

-----------------------------------------------------------------------------
(* Start *)

Serve ==
  /\ Alive /\ http = "starting"
  /\ http' = IF closing THEN "stopped" ELSE "serving"
  /\ UNCHANGED <<main, closing, requests, grpcs, channels, ticks, history>>

\* Fault: ErrServerClosed is as fatal as any other error.
FaultServeFails ==
  /\ Alive /\ http \in {"starting", "serving"}
  /\ Die("fatal")
  /\ UNCHANGED asked

\* The port is taken, or accepting fails: log.Fatalf.
ServeFails ==
  /\ Alive /\ http \in {"starting", "serving"} /\ ~closing
  /\ Die("fatal")
  /\ UNCHANGED asked

\* ErrServerClosed, which main does not mind.
ServeEnds ==
  /\ Alive /\ http = "serving" /\ closing
  /\ http' = "stopped"
  /\ UNCHANGED <<main, closing, requests, grpcs, channels, ticks, history>>

Accept(r) ==
  /\ Alive /\ http = "serving" /\ ~closing
  /\ requests[r] = "none"
  /\ requests' = [requests EXCEPT ![r] = "active"]
  /\ UNCHANGED <<main, http, closing, grpcs, channels, ticks, history>>

Answer(r) ==
  /\ Alive /\ r \in Active
  /\ requests' = [requests EXCEPT ![r] = "answered"]
  /\ UNCHANGED <<main, http, closing, grpcs, channels, ticks, history>>

-----------------------------------------------------------------------------
(* StartGRPC *)

Listen ==
  /\ Alive /\ grpc = "starting"
  /\ \/ grpc' = "accepting" /\ listener' = "open" /\ UNCHANGED grpcError
     \/ grpc' = "stopped" /\ grpcError' = "other" /\ UNCHANGED listener
  /\ UNCHANGED <<main, web, conns, channels, ticks, history>>

\* Accept returns an error, because of Shutdown's Close or by itself.
AcceptFails ==
  /\ Alive /\ grpc = "accepting"
  /\ grpc' = "stopped"
  /\ grpcError' = IF stopCh THEN "none" ELSE IF listener = "closed" THEN "own" ELSE "other"
  /\ UNCHANGED <<main, web, listener, conns, channels, ticks, history>>

\* handleGRPCConnection reads until its peer is gone.
AcceptPeer(c) ==
  /\ Alive /\ grpc = "accepting" /\ listener = "open"
  /\ c \notin conns
  /\ conns' = conns \cup {c}
  /\ UNCHANGED <<main, web, grpc, listener, grpcError, channels, ticks, history>>

PeerCloses(c) ==
  /\ Alive /\ c \in conns
  /\ conns' = conns \ {c}
  /\ UNCHANGED <<main, web, grpc, listener, grpcError, channels, ticks, history>>

-----------------------------------------------------------------------------
(* noiseTrafficLoop and cleanupLoop: a ticker, and select between it and stopCh. *)

Fire(l) ==
  /\ Alive /\ loops[l] = "running" /\ ~fired[l]
  /\ fired' = [fired EXCEPT ![l] = TRUE]
  /\ UNCHANGED <<main, web, grpcs, channels, loops, history>>

Round(l) ==
  /\ Alive /\ loops[l] = "running" /\ fired[l]
  /\ fired' = [fired EXCEPT ![l] = FALSE]
  /\ UNCHANGED <<main, web, grpcs, channels, loops, history>>

StopLoop(l) ==
  /\ Alive /\ loops[l] = "running" /\ stopCh
  /\ loops' = [loops EXCEPT ![l] = "stopped"]
  /\ UNCHANGED <<main, web, grpcs, channels, fired, history>>

-----------------------------------------------------------------------------
(* Signals and Shutdown *)

\* Before signal.Notify it ends the process; afterwards the channel has room for one.
Signal ==
  /\ Alive
  /\ asked' = TRUE
  /\ IF main = "starting"
     THEN Die("signal")
     ELSE /\ sigCh' = TRUE
          /\ UNCHANGED <<main, web, grpcs, stopCh, ticks, timedOut, exitBy>>

\* main moves on and touches nothing else.
Advance(from, to) ==
  /\ main = from
  /\ main' = to
  /\ UNCHANGED <<http, requests, grpc, conns, grpcError, ticks, asked, exitBy>>

Notify ==
  /\ Advance("starting", "waiting")
  /\ UNCHANGED <<closing, listener, channels, timedOut>>

Receive ==
  /\ sigCh
  /\ Advance("waiting", "signalled")
  /\ sigCh' = FALSE
  /\ UNCHANGED <<closing, listener, stopCh, timedOut>>

\* Fault: Shutdown does not close the channel.
FaultCloseStop ==
  /\ Advance("signalled", "draining")
  /\ UNCHANGED <<closing, listener, channels, timedOut>>

\* Shutdown begins.
CloseStop ==
  /\ Advance("signalled", "draining")
  /\ stopCh' = TRUE
  /\ UNCHANGED <<closing, listener, sigCh, timedOut>>

CloseHTTP ==
  /\ ~closing
  /\ Advance("draining", "draining")
  /\ closing' = TRUE
  /\ UNCHANGED <<listener, channels, timedOut>>

\* Fault: httpServer.Close, which waits for nobody.
FaultDrained ==
  /\ closing
  /\ Advance("draining", "drained")
  /\ UNCHANGED <<closing, listener, channels, timedOut>>

\* httpServer.Shutdown returns: all requests are over ...
Drained ==
  /\ closing /\ Active = {}
  /\ Advance("draining", "drained")
  /\ UNCHANGED <<closing, listener, channels, timedOut>>

\* Fault: the context has no timeout.
FaultDrainTimeout == FALSE /\ UNCHANGED vars

\* ... or the 30 seconds of its context are.
DrainTimeout ==
  /\ closing /\ Active # {}
  /\ Advance("draining", "drained")
  /\ timedOut' = TRUE
  /\ UNCHANGED <<closing, listener, channels>>

\* A listener that StartGRPC has not made yet stays unknown to Shutdown.
CloseGRPC ==
  /\ Advance("drained", "returned")
  /\ listener' = IF listener = "open" THEN "closed" ELSE listener
  /\ UNCHANGED <<closing, channels, timedOut>>

Return ==
  /\ main = "returned"
  /\ Die("return")
  /\ UNCHANGED asked

Next ==
  \/ Serve \/ ServeFails \/ ServeEnds
  \/ \E r \in Requests : Accept(r) \/ Answer(r)
  \/ Listen \/ AcceptFails
  \/ \E c \in Peers : AcceptPeer(c) \/ PeerCloses(c)
  \/ \E l \in Loops : Fire(l) \/ Round(l) \/ StopLoop(l)
  \/ Signal \/ Notify \/ Receive
  \/ CloseStop \/ CloseHTTP \/ Drained \/ DrainTimeout \/ CloseGRPC \/ Return

Spec == Init /\ [][Next]_vars

\* The scheduler lets main go on, and a timer that is set fires.  Nothing is assumed of
\* the requests, the peers or the other goroutines.
FairSpec ==
  /\ Spec
  /\ WF_vars(Receive) /\ WF_vars(CloseStop) /\ WF_vars(CloseHTTP)
  /\ WF_vars(Drained) /\ WF_vars(DrainTimeout) /\ WF_vars(CloseGRPC) /\ WF_vars(Return)

-----------------------------------------------------------------------------
(* Properties. *)

\* Once Shutdown has closed the door, a request that got in is cut only by the timeout:
\* not by the end of Start, nor by another signal, nor by main's return.
Graceful == closing /\ ~timedOut => \A r \in Requests : requests[r] # "cut"

\* StartGRPC does not report the server's own closing of its listener as an error.
OwnCloseNoError == grpcError # "own"

\* How far main is says which parts have been stopped.
Stages ==
  /\ main \in {"starting", "waiting", "signalled"} => ~stopCh /\ ~closing /\ listener # "closed"
  /\ main \in {"draining", "drained", "returned"} => stopCh
  /\ main \in {"drained", "returned"} => closing
  /\ main \in {"drained", "returned"} /\ ~timedOut => Active = {}
  /\ listener = "closed" => stopCh
  /\ closing => stopCh
  /\ http = "stopped" => closing
  /\ (exitBy = "none") <=> Alive
  /\ Alive => \A r \in Requests : requests[r] # "cut"

IInv == TypeOK /\ Stages /\ Graceful /\ OwnCloseNoError

\* A signal ends the process in any case, whatever requests and peers do.
SignalledExits == asked ~> ~Alive

=============================================================================
