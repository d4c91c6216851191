----------------------------- MODULE HostProofs -----------------------------
(***************************************************************************)
(* The theorems of module Sidecar that need no assumption about the host:  *)
(* the process never exits with an engine it has not stopped, a finished   *)
(* worker has released what it allocated on Sunshine, or could not, the    *)
(* messages of every session come in the order of SessionProtocol, and a   *)
(* worker that is stopped in time allocates nothing.                       *)
(***************************************************************************)
EXTENDS SidecarProofs

\* The labels of a running worker, spelled out.
LEMMA RunningLabels ==
  Running = {"identity", "serverinfo", "prompt", "pair", "checkstop", "applist",
    "launch", "install", "reset", "listart", "handshake", "startfail", "ready",
    "loop", "chkterm", "recv", "stop_li", "stop_join", "stop_clear", "release",
    "on_closed"}
  BY DEF Running, PreCheck, Streaming

\* The labels of a worker that still has to release Sunshine, spelled out.
LEMMA HoldingLabels ==
  Holding = {"install", "release", "reset", "listart", "handshake", "startfail",
    "ready", "loop", "chkterm", "recv", "stop_li", "stop_join", "stop_clear"}
  BY DEF Holding, Streaming

-----------------------------------------------------------------------------
(* The video session on Sunshine.                                          *)

\* A step of a worker, /launch and /cancel above all, keeps BusyInv.
LEMMA BusyWorker ==
  ASSUME TypeInv, BusyInv, NEW e \in Engines, WorkerStep(e) \/ PairStep(e)
  PROVE  BusyInv'
<1> USE StreamAssumption, HoldingLabels
    DEF TypeInv, TypeOK, SessionTypeOK, BusyInv, Goto, Leave, PumpEnds, MustRelease
<1>1. CASE restore_identity(e)
  BY <1>1 DEF restore_identity
<1>2. CASE server_info(e)
  BY <1>2 DEF server_info
<1>3. CASE on_pair_prompt(e)
  BY <1>3 DEF on_pair_prompt
<1>4. CASE pair(e)
  BY <1>4 DEF pair
<1>5. CASE PairPanics(e)
  BY <1>5 DEF PairPanics
<1>6. CASE CheckStop(e)
  BY <1>6 DEF CheckStop
<1>7. CASE app_list(e)
  BY <1>7 DEF app_list
<1>8. CASE launch(e)
  BY <1>8 DEF launch
<1>9. CASE StartInstall(e)
  BY <1>9 DEF StartInstall
<1>10. CASE StartReset(e)
  BY <1>10 DEF StartReset
<1>11. CASE StartConnection(e)
  BY <1>11 DEF StartConnection
<1>12. CASE StartReturns(e)
  BY <1>12 DEF StartReturns
<1>13. CASE StartFailed(e)
  BY <1>13 DEF StartFailed
<1>14. CASE on_ready(e)
  BY <1>14 DEF on_ready
<1>15. CASE PumpCheckStop(e)
  BY <1>15 DEF PumpCheckStop
<1>16. CASE PumpCheckTerminated(e)
  BY <1>16 DEF PumpCheckTerminated
<1>17. CASE PumpReceive(e)
  BY <1>17 DEF PumpReceive
<1>18. CASE WorkerStopBegin(e)
  BY <1>18 DEF WorkerStopBegin
<1>19. CASE WorkerStopEnd(e)
  BY <1>19 DEF WorkerStopEnd
<1>20. CASE WorkerStopClear(e)
  BY <1>20 DEF WorkerStopClear
<1>21. CASE release_host(e)
  BY <1>21 DEF release_host
<1>22. CASE on_closed(e)
  BY <1>22 DEF on_closed
<1> QED
  BY <1>1, <1>2, <1>3, <1>4, <1>5, <1>6, <1>7, <1>8, <1>9, <1>10, <1>11, <1>12, <1>13, <1>14, <1>15, <1>16, <1>17, <1>18, <1>19, <1>20, <1>21, <1>22 DEF WorkerStep, PairStep

\* Every step keeps BusyInv.
LEMMA BusyStep ==
  ASSUME TypeInv, BusyInv, [Next]_vars
  PROVE  BusyInv'
<1>1. ASSUME NEW e \in Engines, Worker(e) \/ Pairing(e)
      PROVE  BusyInv'
  BY <1>1, BusyWorker DEF Worker, Pairing
<1>2. CASE Library \/ Submit
  BY <1>2, StreamAssumption
     DEF Library, Submit, Callback, DecoderStep, Terminated, sessionVars, BusyInv
<1>3. ASSUME NEW id \in Ids, NEW e \in Engines, NEW codec \in DocCodecs,
             Connect(id, e, codec)
      PROVE  BusyInv'
  BY <1>3, HoldingLabels
     DEF Connect, Goto, BusyInv, TypeInv, TypeOK, SessionTypeOK
<1>4. ASSUME UNCHANGED <<pc, busy, netfail, reason>>
      PROVE  BusyInv'
  BY <1>4 DEF BusyInv
<1>5. CASE MainStep \/ Pipe \/ Exited \/ UNCHANGED vars
  BY <1>4, <1>5
     DEF MainStep, Insert, CloseLi, CloseJoin, CloseClear, CloseFlag, Drain,
         Unwind, Pipe, Exited, vars, sessionVars
<1>6. CASE HostMessage
  BY <1>3, <1>4, <1>6
     DEF HostMessage, HelloAccepted, HelloRefused, CloseMsg, Ignored, Shutdown,
         ProtocolError, vars, sessionVars
<1> QED
  BY <1>1, <1>2, <1>5, <1>6 DEF Next

\* The typed states of every host keep to BusyInv.
LEMMA BusyAlways == Spec => [](TypeInv /\ BusyInv)
<1>1. Init => BusyInv
  BY StreamAssumption DEF Init, SessionInit, BusyInv
<1>2. TypeInv /\ BusyInv /\ [Next]_vars => TypeInv' /\ BusyInv'
  BY BusyStep, TypeInvStep
<1> QED
  BY TypeInvInit, <1>1, <1>2, PTL DEF Spec

\* Whatever the host does: a worker that has finished leaves no video session
\* of its own on Sunshine, unless the network lost the reply to /launch or the
\* /cancel, or the connection was reported terminated (session.rs, release_host).
THEOREM ReleaseHolds == Spec => []ReleasedOrExcused
<1>1. TypeInv /\ BusyInv => ReleasedOrExcused
  BY HoldingLabels DEF BusyInv, ReleasedOrExcused
<1> QED
  BY BusyAlways, <1>1, PTL

-----------------------------------------------------------------------------
(* A session that is closed early.                                         *)

\* Engine e was stopped ahead of run_moonlight's only look at the flag: it can
\* only leave from there.
Shut(e) == stop[e] /\ busy # e /\ pc[e] \in PreCheck \cup {"on_closed", "done"}

\* The worker of e itself sees the flag at the latest at "checkstop".
LEMMA ShutWorker ==
  ASSUME TypeInv, NEW e \in Engines, Shut(e), WorkerStep(e) \/ PairStep(e)
  PROVE  Shut(e)'
<1> USE StreamAssumption
    DEF TypeInv, TypeOK, SessionTypeOK, Shut, PreCheck, Goto, Leave, Stopped
<1>1. CASE restore_identity(e)
  BY <1>1 DEF restore_identity
<1>2. CASE server_info(e)
  BY <1>2 DEF server_info
<1>3. CASE on_pair_prompt(e)
  BY <1>3 DEF on_pair_prompt
<1>4. CASE pair(e)
  BY <1>4 DEF pair
<1>5. CASE PairPanics(e)
  BY <1>5 DEF PairPanics
<1>6. CASE CheckStop(e)
  BY <1>6 DEF CheckStop
<1>7. CASE on_closed(e)
  BY <1>7 DEF on_closed
<1>8. pc[e] \notin {"applist", "launch", "install", "release"} \cup Streaming
  BY DEF Streaming
<1>9. ~(app_list(e) \/ launch(e) \/ StartInstall(e) \/ StartReset(e)
         \/ StartConnection(e) \/ StartReturns(e) \/ StartFailed(e) \/ on_ready(e)
         \/ PumpCheckStop(e) \/ PumpCheckTerminated(e) \/ PumpReceive(e)
         \/ WorkerStopBegin(e) \/ WorkerStopEnd(e) \/ WorkerStopClear(e)
         \/ release_host(e))
  BY <1>8 DEF Streaming, app_list, launch, StartInstall, StartReset, StartConnection,
     StartReturns, StartFailed, on_ready, PumpCheckStop, PumpCheckTerminated,
     PumpReceive, WorkerStopBegin, WorkerStopEnd, WorkerStopClear, release_host
<1> QED
  BY <1>1, <1>2, <1>3, <1>4, <1>5, <1>6, <1>7, <1>9 DEF WorkerStep, PairStep

\* Other workers have sessions of their own: none gives one to e.
LEMMA ShutOther ==
  ASSUME TypeInv, NEW e \in Engines, Shut(e), NEW f \in Engines, f # e,
         WorkerStep(f) \/ PairStep(f)
  PROVE  Shut(e)'
<1>1. Moves(f)
  BY WorkerMoves
<1>2. pc'[e] = pc[e] /\ stop'[e] = stop[e]
  BY <1>1 DEF Moves, Goto, TypeInv, TypeOK, SessionTypeOK
<1>3. busy' = busy \/ busy' = f \/ busy' = None
  <2>1. CASE launch(f)
    BY <2>1 DEF launch
  <2>2. CASE release_host(f)
    BY <2>2 DEF release_host
  <2>3. CASE ~launch(f) /\ ~release_host(f)
    BY <2>3 DEF WorkerStep, PairStep, restore_identity, server_info, on_pair_prompt,
       pair, PairPanics, CheckStop, app_list, StartInstall, StartReset,
       StartConnection, StartReturns, StartFailed, on_ready, PumpCheckStop,
       PumpCheckTerminated, PumpReceive, WorkerStopBegin, WorkerStopEnd,
       WorkerStopClear, on_closed
  <2> QED
    BY <2>1, <2>2, <2>3
<1> QED
  BY <1>2, <1>3, StreamAssumption DEF Shut

\* Nothing that happens in the process takes e out of Shut.
LEMMA ShutStep ==
  ASSUME TypeInv, NEW e \in Engines, Shut(e), [Next]_vars
  PROVE  Shut(e)'
<1>1. ASSUME NEW f \in Engines, Worker(f) \/ Pairing(f)
      PROVE  Shut(e)'
  BY <1>1, ShutWorker, ShutOther DEF Worker, Pairing
<1>2. CASE Library \/ Submit
  BY <1>2, StreamAssumption
     DEF Library, Submit, Callback, DecoderStep, Terminated, sessionVars, Shut
<1>3. ASSUME NEW id \in Ids, NEW f \in Engines, NEW codec \in DocCodecs,
             Connect(id, f, codec)
      PROVE  Shut(e)'
  <2>1. f # e
    BY <1>3 DEF Connect, Shut, PreCheck
  <2> QED
    BY <1>3, <2>1 DEF Connect, Goto, Shut, TypeInv, TypeOK, SessionTypeOK
<1>4. CASE CloseFlag
  BY <1>4 DEF CloseFlag, Shut, TypeInv, TypeOK, SessionTypeOK
<1>5. ASSUME UNCHANGED <<pc, stop, busy>>
      PROVE  Shut(e)'
  BY <1>5 DEF Shut
<1>6. CASE MainStep \/ Pipe \/ Exited \/ UNCHANGED vars
  BY <1>4, <1>5, <1>6
     DEF MainStep, Insert, CloseLi, CloseJoin, CloseClear, Drain, Unwind, Pipe,
         Exited, vars, sessionVars
<1>7. CASE HostMessage
  BY <1>3, <1>5, <1>7
     DEF HostMessage, HelloAccepted, HelloRefused, CloseMsg, Ignored, Shutdown,
         ProtocolError, vars, sessionVars
<1> QED
  BY <1>1, <1>2, <1>6, <1>7 DEF Next

\* Whatever the host does with its other sessions: one that is closed before
\* run_moonlight's only look at the stop flag never has Sunshine hold a video
\* session for it, from then on to the end of the process.
THEOREM EarlyCloseHolds == Spec => NoLaunchAfterEarlyClose
<1>1. ASSUME NEW e \in Engines
      PROVE  Spec => [](stop[e] /\ pc[e] \in PreCheck => [](busy # e))
  <2>1. TypeInv /\ BusyInv /\ stop[e] /\ pc[e] \in PreCheck => Shut(e)
    BY HoldingLabels DEF BusyInv, Shut, PreCheck
  <2>2. TypeInv /\ Shut(e) /\ [Next]_vars => Shut(e)'
    BY ShutStep
  <2>3. Shut(e) => busy # e
    BY DEF Shut
  <2>4. Spec => [](TypeInv /\ BusyInv)
    BY BusyAlways
  <2>5. Spec => [][Next]_vars
    BY PTL DEF Spec
  <2> QED
    BY <2>1, <2>2, <2>3, <2>4, <2>5, PTL
<1> QED
  BY <1>1 DEF NoLaunchAfterEarlyClose
-----------------------------------------------------------------------------
(* The end of the process.                                                 *)

\* A worker neither leaves the map nor takes its stop flag back.
LEMMA ReachWorker ==
  ASSUME TypeInv, ReachInv, NEW e \in Engines, WorkerStep(e) \/ PairStep(e),
         UNCHANGED mainVars, mpc # "exited"
  PROVE  ReachInv'
<1>1. Moves(e)
  BY WorkerMoves
<1>2. \A f \in Engines : Born(f)' <=> Born(f)
  BY <1>1, RunningLabels
     DEF Moves, Born, Goto, TypeInv, TypeOK, SessionTypeOK
<1> QED
  BY <1>1, <1>2 DEF Moves, ReachInv, Held, Mapped, mainVars

\* Taking an entry out of the map keeps its engine in reach.
LEMMA ReachTake ==
  ASSUME TypeInv, ReachInv, UNCHANGED <<streamVars, sessionVars>>,
         mpc \in {"loop", "drain", "unwind"}, NEW id \in Ids,
         sessions[id] # None,
         sessions' = [sessions EXCEPT ![id] = None],
         mEng' = sessions[id], mpc' = "close_li"
  PROVE  ReachInv'
<1>1. mEng = None
  BY DEF TypeInv, MainShape, Closing
<1>2. ASSUME NEW f \in Engines, Held(f) PROVE Held(f)'
  BY <1>1, <1>2, StreamAssumption DEF Held, Mapped, TypeInv, TypeOK, MainTypeOK
<1> QED
  BY <1>2 DEF ReachInv, Born, sessionVars

\* The main thread drops an engine only after telling it to stop.
LEMMA ReachMain ==
  ASSUME TypeInv, ReachInv, HostMessage \/ MainStep \/ Exited
  PROVE  ReachInv'
<1> USE DEF TypeInv, TypeOK, MainTypeOK
<1>1. CASE HelloAccepted \/ HelloRefused \/ Shutdown \/ ProtocolError
           \/ Ignored \/ Exited
  BY <1>1 DEF HelloAccepted, HelloRefused, Shutdown, ProtocolError, Ignored,
              Exited, vars, mainVars, sessionVars, ReachInv, Born, Held, Mapped
<1>2. ASSUME NEW id \in Ids, NEW e \in Engines, NEW codec \in DocCodecs,
             Connect(id, e, codec)
      PROVE  ReachInv'
  <2>1. mEng = None /\ mEng' = e /\ mpc' = "insert" /\ UNCHANGED <<sessions, stop>>
    BY <1>2 DEF Connect, MainShape, Closing
  <2>2. \A f \in Engines \ {e} : pc'[f] = pc[f]
    BY <1>2 DEF Connect, Goto, SessionTypeOK
  <2> QED
    BY <2>1, <2>2, StreamAssumption DEF ReachInv, Born, Held, Mapped
<1>3. ASSUME NEW id \in Ids, CloseMsg(id)
      PROVE  ReachInv'
  BY <1>3, ReachTake DEF CloseMsg, StartClosing
<1>4. CASE Insert
  <2>1. /\ sessions' = [sessions EXCEPT ![mId] = mEng]
        /\ mEng' = sessions[mId]
        /\ mpc' \in {"loop", "close_li"} /\ UNCHANGED <<pc, stop>>
    BY <1>4 DEF Insert, StartClosing, sessionVars
  <2>2. ASSUME NEW f \in Engines, Held(f) PROVE Held(f)'
    <3>1. CASE mEng = f
      BY <2>1, <3>1 DEF Held, Mapped
    <3>2. CASE \E i \in Ids : sessions[i] = f
      BY <2>1, <3>2 DEF Held, Mapped
    <3> QED
      BY <2>2, <3>1, <3>2 DEF Held, Mapped
  <2> QED
    BY <2>1, <2>2 DEF ReachInv, Born
<1>5. CASE CloseLi \/ CloseJoin \/ CloseClear
  BY <1>5 DEF CloseLi, CloseJoin, CloseClear, sessionVars, ReachInv, Born, Held,
              Mapped
<1>6. CASE CloseFlag
  <2>1. /\ mEng \in Engines /\ mEng' \in {mEng, None}
        /\ stop' = [stop EXCEPT ![mEng] = TRUE]
        /\ UNCHANGED <<pc, sessions>>
        /\ mpc' \in {"close_li", "loop", "drain", "unwind"}
    BY <1>6 DEF CloseFlag, MainShape, Closing
  <2> QED
    BY <2>1 DEF ReachInv, Born, Held, Mapped, SessionTypeOK
<1>7. CASE Drain \/ Unwind
  <2>1. UNCHANGED <<streamVars, sessionVars>> /\ mpc \in {"drain", "unwind"}
    BY <1>7 DEF Drain, Unwind
  <2>2. CASE TakeEntry(1) \/ TakeEntry(2)
    <3>1. PICK id \in Ids :
            /\ sessions[id] # None
            /\ sessions' = [sessions EXCEPT ![id] = None]
            /\ mEng' = sessions[id] /\ mpc' = "close_li"
      BY <2>2 DEF TakeEntry, StartClosing
    <3> QED
      BY <2>1, <3>1, ReachTake
  <2>3. CASE (Exit(0) \/ Exit(ErrorCode)) /\ UNCHANGED <<sessions, mEng, mPasses, mBack>>
    BY <2>1, <2>3 DEF Exit, sessionVars, ReachInv, Born, Held, Mapped
  <2> QED
    BY <1>7, <2>2, <2>3 DEF Drain, Unwind
<1> QED
  BY <1>1, <1>2, <1>3, <1>4, <1>5, <1>6, <1>7 DEF HostMessage, MainStep

\* Every step keeps ReachInv.
LEMMA ReachStep ==
  ASSUME TypeInv, ReachInv, [Next]_vars
  PROVE  ReachInv'
<1>1. CASE HostMessage \/ MainStep \/ Exited
  BY <1>1, ReachMain
<1>2. ASSUME NEW e \in Engines, Worker(e) \/ Pairing(e)
      PROVE  ReachInv'
  BY <1>2, ReachWorker DEF Worker, Pairing, Beside
<1>3. CASE Library \/ Submit
  BY <1>3 DEF Library, Submit, Beside, Callback, DecoderStep, Terminated,
              sessionVars, mainVars, ReachInv, Born, Held, Mapped
<1>4. CASE Pipe \/ UNCHANGED vars
  BY <1>4 DEF Pipe, vars, sessionVars, mainVars, ReachInv, Born, Held, Mapped
<1> QED
  BY <1>1, <1>2, <1>3, <1>4 DEF Next

\* Whatever the host does, and however the process ends: every engine it ever
\* started has been told to stop before the process exits (main.rs, "Either
\* way the engine threads must be told").
THEOREM ExitStopsHolds == Spec => []ExitStopsEveryEngine
<1>1. Init => ReachInv
  BY StreamAssumption DEF Init, SessionInit, ReachInv, Born, Held, Mapped
<1>2. TypeInv /\ ReachInv => ExitStopsEveryEngine
  BY StreamAssumption
     DEF TypeInv, MainShape, Closing, ReachInv, ExitStopsEveryEngine, Held, Mapped
<1>3. TypeInv /\ ReachInv /\ [Next]_vars => TypeInv' /\ ReachInv'
  BY ReachStep, TypeInvStep
<1> QED
  BY TypeInvInit, <1>1, <1>2, <1>3, PTL DEF Spec

-----------------------------------------------------------------------------
(* The order of the messages.                                              *)

\* The last message of a session, as module SessionProtocol has it.
LastSaid(e) == IF log[e] = <<>> THEN "connect" ELSE log[e][Len(log[e])]

BeforePairing == {"connect", "identity"}
Paired == BeforePairing \cup {"pairFinished"}

\* Where the worker is says what the host has heard last; and a run that ended
\* without an error is not prompting for a PIN.
LastAt(e) ==
    /\ pc[e] \in {"unborn", "nothread", "identity"} => LastSaid(e) = "connect"
    /\ pc[e] \in {"serverinfo", "prompt"} => LastSaid(e) \in BeforePairing
    /\ pc[e] = "pair" => LastSaid(e) = "pairPrompt"
    /\ pc[e] \in {"checkstop", "applist", "launch", "install", "reset", "listart",
                  "handshake", "startfail", "ready"} => LastSaid(e) \in Paired
    /\ pc[e] \in Pumping \cup {"stop_li", "stop_join", "stop_clear"}
         => LastSaid(e) = "sessionReady"
    /\ pc[e] = "release" => LastSaid(e) \in Paired \cup {"sessionReady"}
    /\ pc[e] = "on_closed" =>
         /\ LastSaid(e) \notin ClosedMessages
         /\ reason[e] = "ended" => LastSaid(e) # "pairPrompt"

LastInv == \A e \in Engines : LastAt(e)

LEMMA LastInit == Init => LastInv
<1>1. Init => \A e \in Engines : pc[e] = "unborn" /\ LastSaid(e) = "connect"
  BY DEF Init, SessionInit, LastSaid
<1> QED
  BY <1>1 DEF LastInv, LastAt, Pumping, BeforePairing, Paired

-----------------------------------------------------------------------------
(* What a step does to the messages.                                       *)

\* A message that is sent is the last one, of its own session only.
LEMMA SendLast ==
  ASSUME TypeInv, NEW e \in Engines, NEW msg \in Messages, Send(e, msg)
  PROVE  LastSaid(e)' = msg /\ \A f \in Engines \ {e} : LastSaid(f)' = LastSaid(f)
<1>1. log[e] \in Seq(Messages) /\ log'[e] = Append(log[e], msg)
  BY DEF TypeInv, TypeOK, SessionTypeOK, Send
<1>2. log'[e] # <<>> /\ log'[e][Len(log'[e])] = msg
  BY <1>1
<1>3. \A f \in Engines \ {e} : log'[f] = log[f]
  BY DEF TypeInv, TypeOK, SessionTypeOK, Send
<1> QED
  BY <1>2, <1>3 DEF LastSaid

\* One step of worker e in the protocol.
Talks(e) ==
    \/ UNCHANGED <<log, shown>>
    \/ Protocol!Identity(e) \/ Protocol!Prompt(e) \/ Protocol!Finished(e)
    \/ Protocol!Ready(e) \/ Protocol!Frame(e) \/ Protocol!Closed(e)

\* Module SessionProtocol spells out what Send and LastSaid abbreviate.
LEMMA SaysIt ==
  ASSUME NEW e \in Engines, NEW msg, Send(e, msg), UNCHANGED shown
  PROVE  /\ LastSaid(e) = "connect" /\ msg = "identity" => Talks(e)
         /\ LastSaid(e) \in BeforePairing /\ msg = "pairPrompt" => Talks(e)
         /\ LastSaid(e) = "pairPrompt" /\ msg = "pairFinished" => Talks(e)
         /\ LastSaid(e) \in Paired /\ msg = "sessionReady" => Talks(e)
         /\ LastSaid(e) \notin ClosedMessages \cup {"pairPrompt"} /\ msg = "sessionClosed"
              => Talks(e)
         /\ LastSaid(e) \notin ClosedMessages /\ msg = "sessionClosedError" => Talks(e)
<1>1. Protocol!Says(e, msg) /\ Protocol!Last(e) = LastSaid(e)
  BY DEF Send, Protocol!Says, Protocol!Last, LastSaid
<1> QED
  BY <1>1, Zenon DEF Talks, BeforePairing, Paired, ClosedMessages, Protocol!Identity,
     Protocol!Prompt, Protocol!Finished, Protocol!Ready, Protocol!Closed

\* Nothing is said of the other engines.
LEMMA OthersSaid ==
  ASSUME LastInv, NEW e \in Engines, LastAt(e)',
         \A f \in Engines \ {e} :
           pc'[f] = pc[f] /\ reason'[f] = reason[f] /\ LastSaid(f)' = LastSaid(f)
  PROVE  LastInv'
<1>1. ASSUME NEW f \in Engines \ {e} PROVE LastAt(f)'
  BY DEF LastInv, LastAt
<1> QED
  BY <1>1 DEF LastInv

\* A worker's step keeps LastInv and is one of the protocol's.
LEMMA WorkerTalks ==
  ASSUME TypeInv, LastInv, NEW e \in Engines, WorkerStep(e) \/ PairStep(e)
  PROVE  LastInv' /\ Talks(e)
<1>S. ASSUME NEW msg \in Messages, Send(e, msg)
      PROVE  LastSaid(e)' = msg /\ \A f \in Engines \ {e} : LastSaid(f)' = LastSaid(f)
  BY <1>S, SendLast
<1>U. ASSUME UNCHANGED log
      PROVE  \A f \in Engines : LastSaid(f)' = LastSaid(f)
  BY <1>U DEF LastSaid
<1>Q. ASSUME UNCHANGED <<log, shown>> PROVE Talks(e)
  BY <1>Q DEF Talks
<1> USE DEF TypeInv, TypeOK, SessionTypeOK, LastInv, LastAt, Goto, Leave, PumpEnds, MustRelease,
        Pumping, BeforePairing, Paired, ClosedMessages, Messages
<1>1. CASE restore_identity(e)
  <2>1. /\ pc[e] = "identity" /\ LastSaid(e) = "connect" /\ UNCHANGED shown
        /\ Send(e, "identity") \/ UNCHANGED log
        /\ \/ Goto(e, "serverinfo") /\ UNCHANGED reason
           \/ Leave(e, "error", "on_closed")
    BY <1>1 DEF restore_identity
  <2>2. Talks(e)
    BY <2>1, <1>Q, SaysIt
  <2>3. LastSaid(e)' \in BeforePairing /\ \A f \in Engines \ {e} : LastSaid(f)' = LastSaid(f)
    BY <2>1, <1>S, <1>U
  <2>4. /\ pc'[e] = "serverinfo" \/ (pc'[e] = "on_closed" /\ reason'[e] = "error")
        /\ \A f \in Engines \ {e} : pc'[f] = pc[f] /\ reason'[f] = reason[f]
    BY <2>1
  <2>5. LastAt(e)'
    BY <2>3, <2>4
  <2> QED
    BY <2>2, <2>3, <2>4, <2>5, OthersSaid
<1>2. CASE server_info(e)
  BY <1>2, <1>S, <1>U, <1>Q, SaysIt DEF server_info
<1>3. CASE on_pair_prompt(e)
  BY <1>3, <1>S, <1>U, <1>Q, SaysIt DEF on_pair_prompt
<1>4. CASE pair(e)
  BY <1>4, <1>S, <1>U, <1>Q, SaysIt, SMTT(30) DEF pair, on_pair_finished
<1>5. CASE PairPanics(e)
  BY <1>5, <1>S, <1>U, <1>Q, SaysIt DEF PairPanics
<1>6. CASE CheckStop(e)
  <2>1. /\ pc[e] = "checkstop" /\ UNCHANGED <<log, shown>>
        /\ Leave(e, "ended", "on_closed") \/ (Goto(e, "applist") /\ UNCHANGED reason)
    BY <1>6 DEF CheckStop
  <2> QED
    BY <2>1, <1>U, <1>Q
<1>7. CASE app_list(e)
  BY <1>7, <1>S, <1>U, <1>Q, SaysIt DEF app_list
<1>8. CASE launch(e)
  BY <1>8, <1>S, <1>U, <1>Q, SaysIt DEF launch
<1>9. CASE StartInstall(e)
  BY <1>9, <1>S, <1>U, <1>Q, SaysIt DEF StartInstall
<1>10. CASE StartReset(e)
  BY <1>10, <1>S, <1>U, <1>Q, SaysIt DEF StartReset
<1>11. CASE StartConnection(e)
  BY <1>11, <1>S, <1>U, <1>Q, SaysIt DEF StartConnection
<1>12. CASE StartReturns(e)
  BY <1>12, <1>S, <1>U, <1>Q, SaysIt DEF StartReturns
<1>13. CASE StartFailed(e)
  BY <1>13, <1>S, <1>U, <1>Q, SaysIt DEF StartFailed
<1>14. CASE on_ready(e)
  BY <1>14, <1>S, <1>U, <1>Q, SaysIt DEF on_ready
<1>15. CASE PumpCheckStop(e)
  <2>1. /\ pc[e] = "loop" /\ UNCHANGED <<log, shown>>
        /\ Leave(e, "ended", "stop_li") \/ (Goto(e, "chkterm") /\ UNCHANGED reason)
    BY <1>15 DEF PumpCheckStop
  <2> QED
    BY <2>1, <1>U, <1>Q
<1>16. CASE PumpCheckTerminated(e)
  <2>1. /\ pc[e] = "chkterm" /\ UNCHANGED <<log, shown>>
        /\ Leave(e, "terminated", "stop_li") \/ (Goto(e, "recv") /\ UNCHANGED reason)
    BY <1>16 DEF PumpCheckTerminated
  <2> QED
    BY <2>1, <1>U, <1>Q
<1>17. CASE PumpReceive(e)
  <2>1. LastInv'
    BY <1>17, <1>U DEF PumpReceive
  <2>2. CASE UNCHANGED shown
    BY <1>17, <1>Q, <2>1, <2>2 DEF PumpReceive
  <2>3. CASE rx[e] # <<>> /\ shown' = [shown EXCEPT ![e] = Append(@, Head(rx[e]))]
    <3>1. Head(rx[e]) \in VideoUnit
      BY <2>3 DEF StreamTypeOK
    <3>2. Protocol!Last(e) = "sessionReady"
      BY <1>17 DEF PumpReceive, LastSaid, Protocol!Last
    <3>3. Protocol!Frame(e)
      BY <1>17, <2>3, <3>1, <3>2 DEF PumpReceive, Protocol!Frame
    <3> QED
      BY <2>1, <3>3 DEF Talks
  <2> QED
    BY <1>17, <2>2, <2>3 DEF PumpReceive
<1>18. CASE WorkerStopBegin(e)
  BY <1>18, <1>S, <1>U, <1>Q, SaysIt DEF WorkerStopBegin
<1>19. CASE WorkerStopEnd(e)
  BY <1>19, <1>S, <1>U, <1>Q, SaysIt DEF WorkerStopEnd
<1>20. CASE WorkerStopClear(e)
  BY <1>20, <1>S, <1>U, <1>Q, SaysIt DEF WorkerStopClear
<1>21. CASE release_host(e)
  BY <1>21, <1>S, <1>U, <1>Q, SaysIt DEF release_host
<1>22. CASE on_closed(e)
  BY <1>22, <1>S, <1>U, <1>Q, SaysIt DEF on_closed
<1> QED
  BY <1>1, <1>2, <1>3, <1>4, <1>5, <1>6, <1>7, <1>8, <1>9, <1>10, <1>11, <1>12, <1>13, <1>14, <1>15, <1>16, <1>17, <1>18, <1>19, <1>20, <1>21, <1>22
     DEF WorkerStep, PairStep

-----------------------------------------------------------------------------
\* Every step keeps LastInv and is a step of the protocol, or none.
LEMMA StepTalks ==
  ASSUME TypeInv, LastInv, [Next]_vars
  PROVE  LastInv' /\ [Protocol!Next]_<<log, shown>>
<1>1. ASSUME NEW e \in Engines, Worker(e) \/ Pairing(e)
      PROVE  LastInv' /\ [Protocol!Next]_<<log, shown>>
  <2>1. LastInv' /\ Talks(e)
    BY <1>1, WorkerTalks DEF Worker, Pairing
  <2> QED
    BY <2>1 DEF Talks, Protocol!Next
<1>2. ASSUME UNCHANGED <<log, shown>>,
             \/ UNCHANGED <<pc, reason>>
             \/ \E e \in Engines : \E label \in {"identity", "nothread"} :
                  pc[e] = "unborn" /\ Goto(e, label) /\ UNCHANGED reason
      PROVE  LastInv' /\ [Protocol!Next]_<<log, shown>>
  <2>1. \A e \in Engines : LastSaid(e)' = LastSaid(e)
    BY <1>2 DEF LastSaid
  <2> QED
    BY <1>2, <2>1 DEF LastInv, LastAt, Goto, Pumping, TypeInv, TypeOK, SessionTypeOK
<1>3. CASE HostMessage
  BY <1>2, <1>3
     DEF HostMessage, HelloAccepted, HelloRefused, Connect, CloseMsg, Ignored, Shutdown,
         ProtocolError, sessionVars, vars
<1>4. CASE MainStep
  BY <1>2, <1>4
     DEF MainStep, Insert, CloseLi, CloseJoin, CloseClear, CloseFlag, Drain, Unwind, sessionVars
<1>5. CASE Library \/ Submit \/ Pipe \/ Exited \/ UNCHANGED vars
  BY <1>2, <1>5
     DEF Library, Callback, Terminated, Submit, DecoderStep, Pipe, Exited, sessionVars, vars
<1> QED
  BY <1>1, <1>3, <1>4, <1>5 DEF Next

\* Whatever the host does, its sessions' messages come as host.rs and
\* PROTOCOL.md promise: identity, prompt, ready, frames, one sessionClosed, and
\* nothing after it; a session that still prompts never ends cleanly.
THEOREM SidecarImplementsProtocol == Spec => FollowsProtocol
<1>1. Init => Protocol!Init
  BY DEF Init, SessionInit, Protocol!Init
<1>2. LastInv /\ TypeInv /\ [Next]_vars => LastInv' /\ [Protocol!Next]_<<log, shown>>
  BY StepTalks
<1>3. TypeInv /\ [Next]_vars => TypeInv'
  BY TypeInvStep
<1> QED
  BY <1>1, <1>2, <1>3, TypeInvInit, LastInit, PTL DEF Spec, FollowsProtocol, Protocol!Spec
=============================================================================
