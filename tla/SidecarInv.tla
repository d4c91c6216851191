----------------------------- MODULE SidecarInv -----------------------------
(***************************************************************************)
(* The inductive invariant behind OneStream, PumpUntouched and             *)
(* CleanCloseWasAsked of module Sidecar, for a host that follows both      *)
(* policies (WaitForClosed and CloseFirst).  The idea: at any time at most *)
(* one engine is current - running, in the map, or in the main thread's    *)
(* hands - so nobody else can reach the process-wide stream.               *)
(***************************************************************************)
EXTENDS Sidecar

\* The engine is in the map or in the hands of the main thread.
Held(e) == Mapped(e) \/ mEng = e
Current(e) == pc[e] \in Running \/ Held(e)

OneCurrent == \A e, f \in Engines : Current(e) /\ Current(f) => e = f

\* sessionClosed is the last thing a worker does.
ToldIsDone == \A e \in Engines : ToldClosed(e) => pc[e] = "done"

\* The main thread holds an engine exactly inside the handlers that need one.
MainShape ==
    /\ mpc \in Closing \cup {"insert"} <=> mEng # None
    /\ mpc \in Closing => mPasses \in 1..2

\* The host connects only when it has closed everything it ever opened.
InsertAlone == mpc = "insert" => \A i \in Ids : sessions[i] = None

ConnShape == IF conn.owner = None THEN conn = NoConn ELSE conn.st # "down"

\* Where the worker can be while the library's connection is its own ...
ConnLive == {"handshake", "ready", "stop_li", "stop_join"} \cup Pumping
\* ... and where it can be after it gave a connection up.
AfterConn == {"startfail", "stop_clear", "release", "on_closed", "done"}

ConnOwned(e) ==
    conn.owner = e =>
      \/ pc[e] \in ConnLive
      \/ pc[e] \in AfterConn /\ mpc = "close_join" /\ mEng = e

\* Nobody has begun to close the engine.
Untouched(e) == ~stop[e] /\ ~MainCloses(e)

SinkMine(e) ==
    /\ Untouched(e)
    /\ pc[e] \in {"reset", "listart", "handshake", "ready"} \cup Pumping
    => VIDEO_SINK = e

ConnMine(e) ==
    Untouched(e) =>
      /\ pc[e] = "handshake" => StillMine(e)
      /\ pc[e] \in {"ready"} \cup Pumping
           => conn.owner = e /\ conn.st \in {"streaming", "lost"}

\* A worker only ends without an error when it was asked to.
EndedWasAsked(e) ==
    \/ reason[e] = "ended"
    \/ \E i \in 1..Len(log[e]) : log[e][i] = "sessionClosed"
    => ~Untouched(e)

EngineInv(e) == ConnOwned(e) /\ SinkMine(e) /\ ConnMine(e) /\ EndedWasAsked(e)

\* A connection that is being stopped is about to be gone.
SomebodyStops ==
    conn.st = "stopping"
      => mpc = "close_join" \/ \E e \in Engines : pc[e] = "stop_join"

DecoderBusy == decoder # None => conn.st \in {"streaming", "lost", "stopping"}

\* TERMINATED is down when a connection starts, and goes up with its loss.
FlagFresh ==
    /\ TERMINATED /\ conn.owner # None => conn.st \in {"lost", "stopping"}
    /\ TERMINATED => \A e \in Engines : pc[e] # "listart"

\* What TypeOK needs to be preserved, for every host.
TypeInv == TypeOK /\ MainShape /\ ConnShape

\* Together with TypeOK, the invariant that every step preserves: the one
\* stream of the process belongs to the one current engine.
IInv ==
    /\ TypeInv
    /\ OneCurrent /\ ToldIsDone /\ InsertAlone
    /\ SomebodyStops /\ DecoderBusy /\ FlagFresh
    /\ \A e \in Engines : EngineInv(e)

\* From a successful /launch on, Sunshine's video session is the one of the
\* engine that nobody has begun to close, until its connection is lost.
Serving == {"install", "reset", "listart", "handshake", "ready"} \cup Pumping
BusyMine(e) ==
    Untouched(e) /\ pc[e] \in Serving
      => busy = e \/ (busy = None /\ conn.owner = e /\ conn.st = "lost")

-----------------------------------------------------------------------------
(* For every host: behind ExitStopsEveryEngine and ReleasedOrExcused.      *)

\* An engine that nobody has stopped is still within the main thread's reach.
ReachInv ==
    /\ \A e \in Engines : Born(e) => stop[e] \/ Held(e)
    /\ mpc = "hello" => \A e \in Engines : ~Born(e)
    /\ mpc \in {"hello", "exited"} => \A i \in Ids : sessions[i] = None

\* Labels between a successful /launch and the end of release_host.
Holding == {"install", "release"} \cup Streaming

\* Sunshine holds a session for an engine only while that engine is still
\* going to release it, or has a reason not to.
BusyInv ==
    \A e \in Engines :
        busy = e =>
          \/ pc[e] \in Holding
          \/ pc[e] \in {"on_closed", "done"}
             /\ (netfail[e] \/ reason[e] = "terminated")
=============================================================================
