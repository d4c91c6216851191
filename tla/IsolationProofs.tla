-------------------------- MODULE IsolationProofs --------------------------
(***************************************************************************)
(* For a host that follows both policies of module Sidecar: the process    *)
(* has one stream at a time, nobody touches it but its session, and a      *)
(* session that ends cleanly was closed.                                   *)
(***************************************************************************)
EXTENDS SidecarProofs

Patient == WaitForClosed = TRUE /\ CloseFirst = TRUE

\* With no engine born, IInv holds.
LEMMA IInvInit == Init => IInv
<1> SUFFICES ASSUME Init PROVE IInv
  OBVIOUS
<1>1. TypeInv
  BY TypeInvInit
<1> USE StreamAssumption DEF Init, StreamInit, SessionInit
<1>2. OneCurrent
  BY DEF OneCurrent, Current, Held, Mapped, Running, PreCheck, Streaming
<1>3. ToldIsDone /\ InsertAlone
  BY DEF ToldIsDone, ToldClosed, InsertAlone
<1>4. SomebodyStops /\ DecoderBusy /\ FlagFresh
  BY DEF SomebodyStops, DecoderBusy, FlagFresh, NoConn
<1>5. ASSUME NEW e \in Engines PROVE EngineInv(e)
  BY DEF EngineInv, ConnOwned, SinkMine, ConnMine, EndedWasAsked, NoConn, Pumping
<1> QED
  BY <1>1, <1>2, <1>3, <1>4, <1>5 DEF IInv

-----------------------------------------------------------------------------
(* A worker's step preserves IInv.                                         *)

\* A running engine is the only current one.
LEMMA Alone ==
  ASSUME IInv, NEW e \in Engines, Current(e)
  PROVE  \A f \in Engines \ {e} :
           pc[f] \notin Running /\ ~Mapped(f) /\ mEng # f
  BY DEF IInv, OneCurrent, Current, Held

\* The invariant of the proof implies OneStream.
LEMMA IInvGivesOneStream == IInv => OneStream
<1> SUFFICES ASSUME IInv PROVE OneStream
  OBVIOUS
<1> USE DEF IInv, TypeInv, TypeOK, StreamTypeOK
<1>1. \A e, f \in Engines :
        pc[e] \in Streaming /\ pc[f] \in Streaming => e = f
  BY DEF OneCurrent, Current, Running
<1>2. \A e \in Engines : conn.owner = e => pc[e] \in Streaming \/ MainCloses(e)
  BY DEF EngineInv, ConnOwned, ConnLive, Pumping, Streaming, MainCloses, Closing
<1>3. ASSUME NEW e \in Engines, pc[e] = "listart"
      PROVE  conn = NoConn /\ decoder = None
  <2>1. \A f \in Engines : conn.owner = f => f = e
    BY <1>2, <1>3 DEF OneCurrent, Current, Held, Running, Streaming, MainCloses
  <2>2. conn.owner # e
    BY <1>3 DEF EngineInv, ConnOwned, ConnLive, AfterConn, Pumping
  <2>3. conn = NoConn
    BY <2>1, <2>2 DEF Connection, ConnShape
  <2> QED
    BY <2>3 DEF DecoderBusy, NoConn
<1> QED
  BY <1>1, <1>2, <1>3 DEF OneStream

\* ... so the invariants of the other engines survive its step.
LEMMA OthersKeep ==
  ASSUME IInv, NEW e \in Engines, Moves(e), UNCHANGED mainVars,
         NEW f \in Engines, f # e
  PROVE  EngineInv(f)'
<1>1. pc[f] \notin Running /\ mEng # f /\ pc'[f] = pc[f]
  BY Alone DEF Moves, Current, Goto, IInv, TypeInv, TypeOK, SessionTypeOK
<1>2. conn.owner # f
  BY <1>1 DEF IInv, EngineInv, ConnOwned, ConnLive, Pumping, Running, Streaming
<1>3. ConnOwned(f)'
  BY <1>1, <1>2, StreamAssumption DEF ConnOwned, Moves
<1>4. SinkMine(f)' /\ ConnMine(f)'
  BY <1>1 DEF SinkMine, ConnMine, Pumping, Running, Streaming
<1>5. EndedWasAsked(f)'
  BY DEF Moves, IInv, EngineInv, EndedWasAsked, Untouched, MainCloses, mainVars
<1> QED
  BY <1>3, <1>4, <1>5 DEF EngineInv

\* A worker's step leaves SomebodyStops, DecoderBusy and its own EngineInv.
LEMMA StreamStep ==
  ASSUME IInv, TypeInv', NEW e \in Engines, WorkerStep(e) \/ PairStep(e), UNCHANGED mainVars
  PROVE  /\ SomebodyStops' /\ DecoderBusy'
         /\ (ConnOwned(e) /\ SinkMine(e) /\ ConnMine(e))'
<1> USE DEF IInv, TypeInv, TypeOK, StreamTypeOK, SessionTypeOK, EngineInv
<1>M. Moves(e)
  BY WorkerMoves
<1>A. \A f \in Engines \ {e} : pc[f] \notin Running /\ mEng # f
  BY <1>M, Alone DEF Moves, Current
<1>T. \A f \in Engines \ {e} : pc[f] # "stop_join"
  BY <1>A DEF Running, Streaming
<1>C. conn.owner \in {e, None}
  BY <1>A DEF ConnOwned, ConnLive, Pumping, Running, Streaming, Connection
<1> USE DEF SomebodyStops, DecoderBusy, ConnOwned, SinkMine, ConnMine, Goto,
        Leave, Untouched, MainCloses, mainVars, Pumping, ConnLive, AfterConn,
        Stopped, PumpEnds, MustRelease, is_terminated
<1> DEFINE early == {"identity", "serverinfo", "prompt", "pair", "checkstop", "applist"}
           calm == {"serverinfo", "prompt", "pair", "checkstop", "applist", "launch", "on_closed"}
<1>E. ASSUME pc[e] \in early, UNCHANGED <<streamVars, stop>>,
             \E label \in calm : Goto(e, label)
      PROVE  /\ SomebodyStops' /\ DecoderBusy'
             /\ (ConnOwned(e) /\ SinkMine(e) /\ ConnMine(e))'
  <2>1. pc'[e] \in calm /\ \A f \in Engines \ {e} : pc'[f] = pc[f]
    BY <1>E
  <2>2. conn.owner = None /\ UNCHANGED <<conn, decoder>>
    BY <1>E, <1>C DEF streamVars
  <2>3. SomebodyStops' /\ DecoderBusy'
    BY <1>E, <2>1, <2>2, mpc' = mpc
  <2> QED
    BY <2>1, <2>2, <2>3, StreamAssumption
<1> HIDE DEF early, calm
<1>1. CASE restore_identity(e)
  BY <1>1, <1>E DEF restore_identity, early, calm
<1>2. CASE server_info(e)
  BY <1>2, <1>E DEF server_info, early, calm
<1>3. CASE on_pair_prompt(e)
  BY <1>3, <1>E DEF on_pair_prompt, early, calm
<1>4. CASE pair(e)
  BY <1>4, <1>E DEF pair, early, calm
<1>5. CASE PairPanics(e)
  BY <1>5, <1>E DEF PairPanics, early, calm
<1>6. CASE CheckStop(e)
  BY <1>6, <1>E DEF CheckStop, early, calm
<1>7. CASE app_list(e)
  BY <1>7, <1>E DEF app_list, early, calm
<1>8. CASE launch(e)
  <2>1. UNCHANGED <<streamVars, stop>>
        /\ \E label \in {"install", "on_closed"} : Goto(e, label)
    BY <1>8 DEF launch
  <2> QED
    BY <1>8, <2>1, <1>T, <1>C, StreamAssumption DEF launch, streamVars
<1>9. CASE StartInstall(e)
  BY <1>9, <1>T, <1>C, StreamAssumption DEF StartInstall, InstallSink
<1>10. CASE StartReset(e)
  BY <1>10, <1>T, <1>C, StreamAssumption DEF StartReset, ResetTerminated
<1>11. CASE StartConnection(e)
  <2>1. conn.owner = None /\ conn = NoConn /\ decoder = None
    <3>1. pc[e] = "listart"
      BY <1>11 DEF StartConnection
    <3>2. conn.owner = None
      BY <3>1, <1>C
    <3>3. conn = NoConn
      BY <3>2 DEF ConnShape
    <3> QED
      BY <3>2, <3>3 DEF NoConn
  <2>2. /\ conn' = [st |-> "starting", owner |-> e, fmt |-> wanted[e], n |-> 0]
        /\ pc' = [pc EXCEPT ![e] = "handshake"]
        /\ UNCHANGED <<VIDEO_SINK, decoder, stop>>
    BY <1>11 DEF StartConnection, LiStartConnection
  <2>3. /\ conn'.owner = e /\ conn'.st = "starting" /\ decoder' = None
        /\ pc[e] = "listart" /\ pc'[e] = "handshake"
        /\ VIDEO_SINK' = VIDEO_SINK /\ stop' = stop
    BY <1>11, <2>1, <2>2 DEF StartConnection
  <2> QED
    BY <2>1, <2>3, <1>T, StreamAssumption DEF StillMine
<1>12. CASE StartReturns(e)
  <2>1. pc[e] = "handshake" /\ UNCHANGED <<VIDEO_SINK, stop>>
    BY <1>12 DEF StartReturns, LiStartSucceeds, LiStartFails, streamVars
  <2>2. CASE LiStartSucceeds(e) /\ Goto(e, "ready")
    BY <2>1, <2>2, <1>T, <1>C, StreamAssumption
       DEF LiStartSucceeds, streamVars, StillMine
  <2>3. CASE LiStartFails(e) /\ Goto(e, "startfail") /\ StillMine(e)
    BY <2>1, <2>3, <1>T, StreamAssumption DEF LiStartFails, NoConn
  <2>4. CASE LiStartFails(e) /\ Goto(e, "startfail") /\ ~StillMine(e)
    <3>1. UNCHANGED <<conn, decoder>>
      BY <2>4 DEF LiStartFails
    <3>2. conn.st = "stopping" => mpc = "close_join" /\ mEng = e
      BY <2>1, <1>A, <1>T DEF MainShape, MainTypeOK, Closing
    <3>3. conn.owner = e => conn.st = "stopping"
      BY <2>4, StreamAssumption DEF StillMine, ConnShape, Connection, ConnStates
    <3> QED
      BY <2>1, <2>4, <3>1, <3>2, <3>3, <1>T, <1>C, StreamAssumption
  <2> QED
    BY <1>12, <2>2, <2>3, <2>4 DEF StartReturns
<1>13. CASE StartFailed(e)
  BY <1>13, <1>T, <1>C, StreamAssumption DEF StartFailed, DropSink
<1>14. CASE on_ready(e)
  BY <1>14, <1>T, <1>C, StreamAssumption DEF on_ready, streamVars
<1>15. CASE PumpCheckStop(e)
  BY <1>15, <1>T, <1>C, StreamAssumption DEF PumpCheckStop, streamVars
<1>16. CASE PumpCheckTerminated(e)
  BY <1>16, <1>T, <1>C, StreamAssumption DEF PumpCheckTerminated, streamVars
<1>17. CASE PumpReceive(e)
  BY <1>17, <1>T, <1>C, StreamAssumption DEF PumpReceive
<1>18. CASE WorkerStopBegin(e)
  BY <1>18, <1>T, <1>C, StreamAssumption DEF WorkerStopBegin, LiStopBegin, Connection
<1>19. CASE WorkerStopEnd(e)
  BY <1>19, <1>T, <1>C, StreamAssumption DEF WorkerStopEnd, LiStopEnd, NoConn
<1>20. CASE WorkerStopClear(e)
  BY <1>20, <1>T, <1>C, StreamAssumption DEF WorkerStopClear, DropSink
<1>21. CASE release_host(e)
  BY <1>21, <1>T, <1>C, StreamAssumption DEF release_host, streamVars
<1>22. CASE on_closed(e)
  BY <1>22, <1>T, <1>C, StreamAssumption DEF on_closed, streamVars
<1> QED
  BY <1>1, <1>2, <1>3, <1>4, <1>5, <1>6, <1>7, <1>8, <1>9, <1>10, <1>11, <1>12, <1>13, <1>14, <1>15, <1>16, <1>17, <1>18, <1>19, <1>20, <1>21, <1>22 DEF WorkerStep, PairStep

\* A worker leaves without an error only when somebody has begun to close it:
\* the stop flag, or its Sender dropped from VIDEO_SINK.
LEMMA EndedStep ==
  ASSUME IInv, TypeInv', NEW e \in Engines, WorkerStep(e) \/ PairStep(e),
         UNCHANGED mainVars
  PROVE  EndedWasAsked(e)'
<1> USE DEF IInv, TypeInv, TypeOK, SessionTypeOK, EngineInv, Stopped, PumpEnds,
        is_terminated, on_pair_finished
<1>1. Moves(e) /\ Speaks(e) /\ pc[e] # "done"
  BY WorkerMoves DEF Moves, Running, PreCheck, Streaming
<1>2. Untouched(e)' <=> Untouched(e)
  BY <1>1 DEF Moves, Untouched, MainCloses, mainVars
<1>3. SUFFICES ASSUME Untouched(e) PROVE ~(\/ reason[e] = "ended"
        \/ \E i \in 1..Len(log[e]) : log[e][i] = "sessionClosed")'
  BY <1>2 DEF EndedWasAsked
<1>4. reason[e] # "ended"
  BY <1>3 DEF EndedWasAsked
<1>5. reason'[e] # "ended"
  <2>1. CASE UNCHANGED reason \/ \E why \in Reasons \ {"ended"}, label \in Labels :
                                 Leave(e, why, label)
    BY <2>1, <1>4 DEF Leave
  <2>2. CASE CheckStop(e) \/ PumpCheckStop(e)
    BY <2>2, <1>3, <1>4 DEF CheckStop, PumpCheckStop, Untouched, Leave
  <2>3. CASE PumpReceive(e)
    BY <2>3, <1>3, <1>4
       DEF PumpReceive, SinkMine, ConnMine, Pumping, Leave
  <2>L. {"release", "on_closed", "stop_li"} \subseteq Labels
        /\ {"error", "panic", "terminated"} \subseteq Reasons \ {"ended"}
    BY DEF Labels, Running, Streaming, Reasons
  <2>4. CASE restore_identity(e) \/ server_info(e)
    BY <2>1, <2>4, <2>L DEF restore_identity, server_info
  <2>5. CASE pair(e) \/ PairPanics(e) \/ app_list(e) \/ on_pair_prompt(e)
    BY <2>1, <2>5, <2>L DEF pair, PairPanics, app_list, on_pair_prompt
  <2>6. CASE launch(e)
    BY <2>1, <2>6, <2>L DEF launch
  <2>7. CASE StartReset(e) \/ StartFailed(e) \/ PumpCheckTerminated(e)
    BY <2>1, <2>7, <2>L DEF StartReset, StartFailed, PumpCheckTerminated
  <2>8. CASE StartInstall(e) \/ StartConnection(e) \/ StartReturns(e)
             \/ on_ready(e)
    BY <2>1, <2>8 DEF StartInstall, StartConnection, StartReturns, on_ready
  <2>9. CASE WorkerStopBegin(e) \/ WorkerStopEnd(e) \/ WorkerStopClear(e)
             \/ release_host(e) \/ on_closed(e)
    BY <2>1, <2>9
       DEF WorkerStopBegin, WorkerStopEnd, WorkerStopClear, release_host, on_closed
  <2> QED
    BY <2>2, <2>3, <2>4, <2>5, <2>6, <2>7, <2>8, <2>9 DEF WorkerStep, PairStep
<1>6. \A i \in 1..Len(log'[e]) : log'[e][i] # "sessionClosed"
  <2>1. \A i \in 1..Len(log[e]) : log[e][i] # "sessionClosed"
    BY <1>3 DEF EndedWasAsked
  <2>2. CASE UNCHANGED log
    BY <2>1, <2>2
  <2>A. ASSUME NEW msg \in Messages, msg # "sessionClosed", Send(e, msg)
        PROVE  \A i \in 1..Len(log'[e]) : log'[e][i] # "sessionClosed"
    <3>1. log[e] \in Seq(Messages) /\ log'[e] = Append(log[e], msg)
      BY <2>A DEF Send
    <3>2. \A i \in 1..Len(log'[e]) :
            log'[e][i] = IF i = Len(log[e]) + 1 THEN msg ELSE log[e][i]
      BY <3>1
    <3>3. \A i \in 1..Len(log'[e]) : i = Len(log[e]) + 1 \/ i \in 1..Len(log[e])
      BY <3>1
    <3> QED
      BY <2>1, <2>A, <3>2, <3>3
  <2>3. CASE on_closed(e)
    BY <2>3, <2>A, <1>4 DEF on_closed, Messages
  <2>4. CASE \E msg \in Messages \ ClosedMessages : Send(e, msg)
    BY <2>4, <2>A DEF ClosedMessages
  <2>M. {"identity", "pairPrompt", "pairFinished", "sessionReady"}
          \subseteq Messages \ ClosedMessages
    BY DEF Messages, ClosedMessages
  <2>5. CASE restore_identity(e) \/ on_pair_prompt(e) \/ pair(e) \/ on_ready(e)
    BY <2>2, <2>4, <2>5, <2>M DEF restore_identity, on_pair_prompt, pair, on_ready
  <2>6. CASE server_info(e) \/ PairPanics(e) \/ app_list(e) \/ CheckStop(e)
             \/ launch(e)
    BY <2>2, <2>6 DEF server_info, PairPanics, app_list, CheckStop, launch
  <2>7. CASE StartInstall(e) \/ StartConnection(e) \/ StartReturns(e)
             \/ StartReset(e) \/ StartFailed(e)
    BY <2>2, <2>7
       DEF StartInstall, StartConnection, StartReturns, StartReset, StartFailed
  <2>8. CASE PumpCheckStop(e) \/ PumpCheckTerminated(e) \/ PumpReceive(e)
    BY <2>2, <2>8 DEF PumpCheckStop, PumpCheckTerminated, PumpReceive
  <2>9. CASE WorkerStopBegin(e) \/ WorkerStopEnd(e) \/ WorkerStopClear(e)
             \/ release_host(e)
    BY <2>2, <2>9
       DEF WorkerStopBegin, WorkerStopEnd, WorkerStopClear, release_host
  <2> QED
    BY <2>3, <2>5, <2>6, <2>7, <2>8, <2>9 DEF WorkerStep, PairStep
<1> QED
  BY <1>5, <1>6

\* Saying something else than goodbye does not end a session.
LEMMA ToldStep ==
  ASSUME IInv, TypeInv', NEW e \in Engines, Moves(e), Speaks(e),
         UNCHANGED mainVars
  PROVE  ToldIsDone' /\ OneCurrent' /\ InsertAlone'
<1> USE DEF IInv, TypeInv, TypeOK, SessionTypeOK, Moves
<1>1. pc[e] # "done" /\ ~ToldClosed(e)
  BY DEF ToldIsDone, Running, PreCheck, Streaming
<1>2. ToldClosed(e)' => pc'[e] = "done"
  <2>1. CASE UNCHANGED log
    BY <1>1, <2>1 DEF ToldClosed
  <2>2. ASSUME NEW msg \in Messages, Send(e, msg), msg \notin ClosedMessages
        PROVE  ~ToldClosed(e)'
    <3>1. log[e] \in Seq(Messages) /\ log'[e] = Append(log[e], msg)
      BY <2>2 DEF Send
    <3>2. \A i \in 1..Len(log'[e]) :
            log'[e][i] = msg \/ (i \in 1..Len(log[e]) /\ log'[e][i] = log[e][i])
      BY <3>1
    <3> HIDE DEF IInv, Moves
    <3> QED
      BY <1>1, <2>2, <3>2 DEF ToldClosed
  <2> QED
    BY <2>1, <2>2 DEF Speaks
<1>3. \A f \in Engines \ {e} : (ToldClosed(f)' <=> ToldClosed(f)) /\ pc'[f] = pc[f]
  BY DEF ToldClosed, Goto
<1>4. \A f \in Engines : Current(f)' => Current(f)
  BY <1>3 DEF Current, Held, Mapped, mainVars
<1> QED
  BY <1>2, <1>3, <1>4 DEF ToldIsDone, OneCurrent, InsertAlone, mainVars

\* Only a connection that starts needs the flag down, and only start_stream
\* touches it on this side.
LEMMA FlagStep ==
  ASSUME IInv, TypeInv', NEW e \in Engines, WorkerStep(e) \/ PairStep(e),
         UNCHANGED mainVars
  PROVE  FlagFresh'
<1> USE DEF IInv, TypeInv, TypeOK, StreamTypeOK, SessionTypeOK, EngineInv
<1>1. Moves(e)
  BY WorkerMoves
<1>2. \A f \in Engines \ {e} : pc'[f] = pc[f] /\ pc[f] # "listart"
  BY <1>1, Alone DEF Moves, Current, Goto, Running, Streaming
<1>3. CASE StartReset(e)
  BY <1>3, <1>2 DEF StartReset, ResetTerminated, FlagFresh
<1>4. CASE StartConnection(e)
  <2>1. ~TERMINATED' /\ pc[e] = "listart"
    BY <1>4 DEF StartConnection, LiStartConnection, FlagFresh
  <2> QED
    BY <2>1 DEF FlagFresh
<1>5. CASE UNCHANGED <<TERMINATED, conn>> /\ pc'[e] # "listart"
  BY <1>2, <1>5 DEF FlagFresh
<1>6. CASE StartReturns(e)
  <2>1. pc'[e] # "listart" /\ UNCHANGED TERMINATED /\ (conn' = conn \/ conn' = NoConn)
    BY <1>6 DEF StartReturns, LiStartSucceeds, LiStartFails, streamVars, Goto
  <2>2. NoConn.owner = None /\ \A f \in Engines : pc'[f] # "listart"
    BY <2>1, <1>2 DEF NoConn
  <2>3. conn'.owner # None => conn' = conn
    BY <2>1, <2>2
  <2> QED
    BY <2>1, <2>2, <2>3 DEF FlagFresh
<1>7. CASE WorkerStopBegin(e) \/ WorkerStopEnd(e)
  BY <1>2, <1>7
     DEF WorkerStopBegin, LiStopBegin, WorkerStopEnd, LiStopEnd, NoConn,
         FlagFresh, Goto, Connection
<1>8. CASE restore_identity(e) \/ server_info(e) \/ on_pair_prompt(e)
           \/ pair(e) \/ PairPanics(e) \/ CheckStop(e) \/ app_list(e)
  BY <1>5, <1>8
     DEF restore_identity, server_info, on_pair_prompt, pair, PairPanics,
         CheckStop, app_list, Goto, Leave, streamVars
<1>9. CASE launch(e) \/ StartInstall(e) \/ StartFailed(e) \/ on_ready(e)
  BY <1>5, <1>9
     DEF launch, StartInstall, InstallSink, StartFailed, DropSink, on_ready,
         Goto, Leave, streamVars
<1>10. CASE PumpCheckStop(e) \/ PumpCheckTerminated(e) \/ PumpReceive(e)
  BY <1>5, <1>10
     DEF PumpCheckStop, PumpCheckTerminated, PumpReceive, PumpEnds, Goto, Leave,
         streamVars
<1>11. CASE WorkerStopClear(e) \/ release_host(e) \/ on_closed(e)
  BY <1>5, <1>11
     DEF WorkerStopClear, MustRelease, DropSink, release_host, on_closed, Goto, streamVars
<1> QED
  BY <1>3, <1>4, <1>6, <1>7, <1>8, <1>9, <1>10, <1>11 DEF WorkerStep, PairStep

\* A step of a worker keeps IInv.
LEMMA WorkerKeeps ==
  ASSUME IInv, NEW e \in Engines, WorkerStep(e) \/ PairStep(e),
         UNCHANGED mainVars, UNCHANGED pipeFull
  PROVE  IInv'
<1>1. TypeInv'
  BY WorkerType DEF IInv, TypeInv, TypeOK, MainTypeOK, MainShape, mainVars,
                    StreamInv
<1>2. Moves(e) /\ Speaks(e)
  BY WorkerMoves DEF IInv
<1>3. EngineInv(e)'
  BY <1>1, StreamStep, EndedStep DEF EngineInv
<1> QED
  BY <1>1, <1>2, <1>3, StreamStep, FlagStep, ToldStep, OthersKeep DEF IInv

-----------------------------------------------------------------------------
(* The C library's threads.                                                *)

\* A callback of the C library keeps IInv.
LEMMA LibraryKeeps ==
  ASSUME IInv, Callback \/ DecoderStep, UNCHANGED mainVars, UNCHANGED pipeFull
  PROVE  IInv'
<1>1. TypeInv'
  BY LibraryType DEF IInv, TypeInv, TypeOK, MainTypeOK, MainShape, mainVars,
                     StreamInv
<1>2. UNCHANGED <<VIDEO_SINK, pc, stop, reason, log>>
  BY DEF Callback, Terminated, DecoderStep, dr_setup, NextDecodeUnit,
         dr_submit, cl_connection_terminated, sessionVars
<1>3. /\ conn'.owner = conn.owner
      /\ conn'.st = conn.st \/ (conn.st # "stopping" /\ conn'.st \in {"streaming", "lost"})
      /\ conn.st \in {"streaming", "lost"} => conn'.st \in {"streaming", "lost"}
      /\ decoder' # None => decoder' = decoder \/ conn'.st = "streaming"
  BY DEF Callback, Terminated, DecoderStep, dr_setup, NextDecodeUnit,
         dr_submit, cl_connection_terminated, IInv, TypeInv, TypeOK,
         StreamTypeOK, Connection
<1>4. OneCurrent' /\ ToldIsDone' /\ InsertAlone'
  BY <1>2 DEF IInv, OneCurrent, Current, Held, Mapped, ToldIsDone, ToldClosed,
              InsertAlone, mainVars
<1>5. SomebodyStops' /\ DecoderBusy'
  BY <1>2, <1>3 DEF IInv, SomebodyStops, DecoderBusy, mainVars
<1>7. FlagFresh'
  <2>1. CASE Terminated
    <3>1. conn.st = "streaming" /\ conn' = [conn EXCEPT !.st = "lost"]
      BY <2>1 DEF Terminated, cl_connection_terminated
    <3>2. \A e \in Engines : pc[e] # "listart"
      BY <3>1, IInvGivesOneStream DEF OneStream, NoConn
    <3>3. conn'.st = "lost"
      BY <3>1 DEF IInv, TypeInv, TypeOK, StreamTypeOK, Connection
    <3> QED
      BY <1>2, <3>2, <3>3 DEF FlagFresh
  <2>2. CASE ~Terminated
    <3>1. UNCHANGED TERMINATED
      BY <2>2 DEF Callback, DecoderStep, dr_setup, NextDecodeUnit, dr_submit
    <3>2. conn'.st = conn.st \/ conn.st \in {"starting", "streaming"}
      BY <2>2 DEF Callback, DecoderStep, dr_setup, NextDecodeUnit, dr_submit
    <3> QED
      BY <1>2, <1>3, <3>1, <3>2 DEF IInv, FlagFresh
  <2> QED
    BY <2>1, <2>2
<1>6. ASSUME NEW e \in Engines PROVE EngineInv(e)'
  <2> USE DEF IInv, EngineInv
  <2>1. ConnOwned(e)'
    BY <1>2, <1>3 DEF ConnOwned, mainVars
  <2>2. SinkMine(e)' /\ EndedWasAsked(e)'
    BY <1>2 DEF SinkMine, EndedWasAsked, Untouched, MainCloses, mainVars
  <2>3. ConnMine(e)'
    BY <1>2, <1>3 DEF ConnMine, StillMine, Untouched, MainCloses, mainVars
  <2> QED
    BY <2>1, <2>2, <2>3
<1> QED
  BY <1>1, <1>4, <1>5, <1>6, <1>7 DEF IInv

-----------------------------------------------------------------------------
(* The main thread.                                                        *)

\* A step of the main thread that leaves the stream and the workers alone,
\* gives up no engine it is closing, and puts no new one in reach.
LEMMA QuietKeeps ==
  ASSUME IInv, TypeInv', UNCHANGED <<streamVars, sessionVars>>,
         mpc # "close_join",
         \A f \in Engines : Current(f)' => Current(f),
         \A f \in Engines : MainCloses(f) => MainCloses(f)',
         InsertAlone'
  PROVE  IInv'
<1> USE DEF streamVars, sessionVars
<1>1. OneCurrent' /\ ToldIsDone'
  BY DEF IInv, OneCurrent, ToldIsDone, ToldClosed
<1>2. SomebodyStops' /\ DecoderBusy' /\ FlagFresh'
  BY DEF IInv, SomebodyStops, DecoderBusy, FlagFresh
<1>3. ASSUME NEW e \in Engines PROVE EngineInv(e)'
  <2>1. Untouched(e)' => Untouched(e)
    BY DEF Untouched
  <2>2. ConnOwned(e)'
    BY DEF IInv, EngineInv, ConnOwned
  <2>3. SinkMine(e)' /\ ConnMine(e)' /\ EndedWasAsked(e)'
    BY <2>1 DEF IInv, EngineInv, SinkMine, ConnMine, StillMine, EndedWasAsked
  <2> QED
    BY <2>2, <2>3 DEF EngineInv
<1> QED
  BY <1>1, <1>2, <1>3 DEF IInv

\* The patient host: when it connects, nothing is left of earlier sessions.
LEMMA ConnectKeeps ==
  ASSUME Patient, IInv, TypeInv', NEW id \in Ids, NEW e \in Engines,
         NEW codec \in DocCodecs, Connect(id, e, codec)
  PROVE  IInv'
<1> USE DEF IInv, TypeInv, TypeOK, SessionTypeOK, MainTypeOK
<1>1. \A f \in Engines : ~Mapped(f) /\ (Born(f) => ToldClosed(f))
  BY DEF Connect, HostMayConnect, Patient
<1>2. mEng = None /\ mpc = "loop" /\ pc[e] = "unborn"
  BY DEF Connect, MainShape, Closing
<1>3. \A f \in Engines : ~Current(f)
  BY <1>1, <1>2, StreamAssumption
     DEF Current, Held, Born, ToldIsDone, Running, PreCheck, Streaming
<1>4. /\ mpc' = "insert" /\ mEng' = e
      /\ UNCHANGED <<streamVars, stop, reason, log, sessions>>
      /\ pc'[e] \in {"identity", "nothread"}
      /\ \A f \in Engines \ {e} : pc'[f] = pc[f]
  BY DEF Connect, Goto
<1>5. \A f \in Engines : Current(f)' => f = e
  BY <1>3, <1>4 DEF Current, Held, Mapped
<1>6. OneCurrent' /\ ToldIsDone'
  BY <1>2, <1>4, <1>5 DEF OneCurrent, ToldIsDone, ToldClosed
<1>7. InsertAlone'
  BY <1>1, <1>4 DEF InsertAlone, Mapped
<1>8. SomebodyStops' /\ DecoderBusy' /\ FlagFresh'
  BY <1>2, <1>4 DEF SomebodyStops, DecoderBusy, FlagFresh, streamVars
<1>9. ASSUME NEW f \in Engines PROVE EngineInv(f)'
  <2> USE DEF EngineInv
  <2>1. Untouched(f)' => Untouched(f)
    BY <1>2, <1>4 DEF Untouched, MainCloses, Closing
  <2>2. EndedWasAsked(f)'
    BY <1>4, <2>1 DEF EndedWasAsked
  <2>3. pc[f] \notin Running /\ (f # e => pc'[f] \notin Running)
    BY <1>3, <1>4 DEF Current
  <2>4. conn.owner # f
    BY <1>2, <2>3
       DEF ConnOwned, ConnLive, Pumping, Running, Streaming
  <2>5. ConnOwned(f)'
    BY <1>4, <2>4 DEF ConnOwned, streamVars
  <2>6. SinkMine(f)' /\ ConnMine(f)'
    BY <1>4, <2>3 DEF SinkMine, ConnMine, Pumping, Running, Streaming
  <2> QED
    BY <2>2, <2>5, <2>6
<1> QED
  BY <1>6, <1>7, <1>8, <1>9

\* A step inside close(): only the engine in hand is current, and it is not
\* untouched any more.
LEMMA CloseKeeps ==
  ASSUME IInv, TypeInv', CloseLi \/ CloseJoin \/ CloseClear \/ CloseFlag
  PROVE  IInv'
<1> USE DEF IInv, TypeInv, TypeOK, SessionTypeOK, MainTypeOK
<1>1. mEng \in Engines /\ mpc \in Closing
  BY DEF CloseLi, CloseJoin, CloseClear, CloseFlag, MainShape, Closing
<1>2. \A f \in Engines \ {mEng} : pc[f] \notin Running /\ mEng # f
  BY <1>1, Alone DEF Current, Held
<1>3. UNCHANGED <<pc, reason, log, sessions>> /\ mEng' \in {mEng, None}
  BY DEF CloseLi, CloseJoin, CloseClear, CloseFlag, sessionVars
<1>4. \A f \in Engines : Untouched(f)' => Untouched(f)
  BY <1>1 DEF CloseLi, CloseJoin, CloseClear, CloseFlag, sessionVars,
              Untouched, MainCloses, Closing
<1>5. OneCurrent' /\ ToldIsDone'
  <2>1. \A f \in Engines : Current(f)' => Current(f)
    BY <1>3, StreamAssumption DEF Current, Held, Mapped
  <2>2. \A f \in Engines : ToldClosed(f)' => ToldClosed(f)
    BY <1>3 DEF ToldClosed
  <2> QED
    BY <1>3, <2>1, <2>2 DEF OneCurrent, ToldIsDone
<1>6. InsertAlone'
  BY <1>3, <1>1 DEF CloseLi, CloseJoin, CloseClear, CloseFlag, InsertAlone
<1>7. ~Untouched(mEng)
  BY <1>1 DEF Untouched, MainCloses
<1>8. \A f \in Engines : conn.owner = f => f = mEng
  BY <1>2 DEF EngineInv, ConnOwned, ConnLive, Pumping, Running, Streaming
<1>9. ASSUME NEW f \in Engines PROVE (SinkMine(f) /\ ConnMine(f) /\ EndedWasAsked(f))'
  BY <1>2, <1>3, <1>4, <1>7
     DEF EngineInv, SinkMine, ConnMine, EndedWasAsked, Pumping, Running, Streaming
<1>10. SomebodyStops' /\ DecoderBusy' /\ \A f \in Engines : ConnOwned(f)'
  <2>1. CASE CloseLi
    BY <2>1, <1>3
       DEF CloseLi, LiStopBegin, StreamTypeOK, Connection, SomebodyStops,
           DecoderBusy, EngineInv, ConnOwned
  <2>2. CASE CloseJoin
    BY <2>2, StreamAssumption
       DEF CloseJoin, LiStopEnd, NoConn, SomebodyStops, DecoderBusy, ConnOwned
  <2>3. CASE CloseClear
    BY <2>3, <1>3
       DEF CloseClear, DropSink, SomebodyStops, DecoderBusy, EngineInv, ConnOwned
  <2>4. CASE CloseFlag
    BY <2>4, <1>3
       DEF CloseFlag, streamVars, SomebodyStops, DecoderBusy, EngineInv, ConnOwned
  <2> QED
    BY <2>1, <2>2, <2>3, <2>4
<1>11. FlagFresh'
  BY <1>3 DEF CloseLi, LiStopBegin, CloseJoin, LiStopEnd, NoConn, CloseClear,
              DropSink, CloseFlag, streamVars, FlagFresh, StreamTypeOK, Connection
<1> QED
  BY <1>5, <1>6, <1>9, <1>10, <1>11 DEF EngineInv

\* Taking an entry out of the map to close it moves the engine from the map
\* into the main thread's hands.
LEMMA TakeKeeps ==
  ASSUME IInv, TypeInv', UNCHANGED <<streamVars, sessionVars>>,
         mpc \in {"loop", "drain", "unwind"}, NEW id \in Ids,
         sessions[id] # None,
         sessions' = [sessions EXCEPT ![id] = None],
         mEng' = sessions[id], mpc' = "close_li"
  PROVE  IInv'
<1>1. mEng = None
  BY DEF IInv, TypeInv, MainShape, Closing
<1>2. \A f \in Engines : Current(f)' => Current(f)
  <2>1. ASSUME NEW f \in Engines, Held(f)'
        PROVE  Held(f)
    BY <2>1, StreamAssumption DEF Held, Mapped, IInv, TypeInv, TypeOK, MainTypeOK
  <2> QED
    BY <2>1 DEF Current, sessionVars
<1>3. \A f \in Engines : ~MainCloses(f)
  BY DEF MainCloses, Closing
<1>4. InsertAlone'
  BY DEF InsertAlone
<1> QED
  BY <1>2, <1>3, <1>4, QuietKeeps

\* A host message or a step of the main thread keeps IInv.
LEMMA MainKeeps ==
  ASSUME Patient, IInv, HostMessage \/ MainStep \/ Exited
  PROVE  IInv'
<1>T. TypeInv'
  BY MainType DEF IInv
<1> USE DEF IInv, TypeInv, TypeOK, MainTypeOK
<1>1. CASE HelloAccepted \/ HelloRefused \/ Shutdown \/ ProtocolError
           \/ Ignored \/ Exited
  <2>1. /\ UNCHANGED <<streamVars, sessionVars, sessions, mEng>>
        /\ mpc \in {"hello", "loop", "exited"} /\ mpc' # "insert"
    BY <1>1 DEF HelloAccepted, HelloRefused, Shutdown, ProtocolError, Ignored,
                Exited, vars, mainVars
  <2> QED
    BY <2>1, <1>T, QuietKeeps
       DEF Current, Held, Mapped, MainCloses, Closing, InsertAlone, sessionVars
<1>2. CASE \E id \in Ids, e \in Engines, codec \in DocCodecs : Connect(id, e, codec)
  BY <1>2, <1>T, ConnectKeeps
<1>3. CASE \E id \in Ids : CloseMsg(id)
  <2>1. PICK id \in Ids : CloseMsg(id)
    BY <1>3
  <2> QED
    BY <2>1, <1>T, TakeKeeps DEF CloseMsg, StartClosing
<1>4. CASE Insert
  <2>1. sessions[mId] = None
    BY <1>4 DEF Insert, InsertAlone
  <2>2. /\ sessions' = [sessions EXCEPT ![mId] = mEng]
        /\ mpc = "insert" /\ mpc' = "loop" /\ mEng' = None
        /\ UNCHANGED <<streamVars, sessionVars>>
    BY <1>4, <2>1 DEF Insert
  <2>3. \A f \in Engines : Current(f)' => Current(f)
    BY <2>2, StreamAssumption DEF Current, Held, Mapped, sessionVars
  <2> QED
    BY <2>2, <2>3, <1>T, QuietKeeps DEF MainCloses, Closing, InsertAlone
<1>5. CASE CloseLi \/ CloseJoin \/ CloseClear \/ CloseFlag
  BY <1>5, <1>T, CloseKeeps
<1>6. CASE Drain \/ Unwind
  <2>1. CASE TakeEntry(2) \/ TakeEntry(1)
    <3>1. PICK id \in Ids :
            /\ sessions[id] # None
            /\ sessions' = [sessions EXCEPT ![id] = None]
            /\ mEng' = sessions[id] /\ mpc' = "close_li"
      BY <2>1 DEF TakeEntry, StartClosing
    <3> QED
      BY <1>6, <3>1, <1>T, TakeKeeps DEF Drain, Unwind
  <2>2. CASE UNCHANGED <<sessions, mEng, mPasses, mBack>> /\ mpc' = "exited"
    <3>1. UNCHANGED <<streamVars, sessionVars>> /\ mpc \in {"drain", "unwind"}
      BY <1>6 DEF Drain, Unwind
    <3> QED
      BY <2>2, <3>1, <1>T, QuietKeeps
         DEF Current, Held, Mapped, MainCloses, Closing, InsertAlone, sessionVars
  <2> QED
    BY <1>6, <2>1, <2>2 DEF Drain, Unwind, Exit
<1> QED
  BY <1>1, <1>2, <1>3, <1>4, <1>5, <1>6 DEF HostMessage, MainStep

-----------------------------------------------------------------------------
\* IInv is inductive for a patient host.
LEMMA IInvStep ==
  ASSUME Patient
  PROVE  IInv /\ [Next]_vars => IInv'
<1> SUFFICES ASSUME IInv, [Next]_vars PROVE IInv'
  OBVIOUS
<1>1. CASE HostMessage \/ MainStep \/ Exited
  BY <1>1, MainKeeps
<1>2. ASSUME NEW e \in Engines, Worker(e) \/ Pairing(e)
      PROVE  IInv'
  BY <1>2, WorkerKeeps DEF Worker, Pairing, Beside
<1>3. CASE Library \/ Submit
  BY <1>3, LibraryKeeps DEF Library, Submit, Beside
<1>4. CASE Pipe \/ UNCHANGED vars
  <2>1. TypeInv' /\ UNCHANGED <<streamVars, sessionVars, mainVars>>
    BY <1>4, TypeInvStep DEF IInv, Pipe, vars
  <2>2. CASE mpc = "close_join"
    BY <2>1, <2>2
       DEF streamVars, sessionVars, mainVars, IInv, OneCurrent, Current,
           Held, Mapped, ToldIsDone, ToldClosed, InsertAlone, SomebodyStops,
           DecoderBusy, FlagFresh, EngineInv, ConnOwned, SinkMine, ConnMine, StillMine,
           EndedWasAsked, Untouched, MainCloses
  <2>3. CASE mpc # "close_join"
    BY <2>1, <2>3, QuietKeeps
       DEF sessionVars, mainVars, Current, Held, Mapped, MainCloses,
           IInv, InsertAlone
  <2> QED
    BY <2>2, <2>3
<1> QED
  BY <1>1, <1>2, <1>3, <1>4 DEF Next

-----------------------------------------------------------------------------
(* The video session on Sunshine.                                          *)

\* A worker's step takes nobody else's video session away, and its own only
\* with the end of its stream.
LEMMA WorkerBusy ==
  ASSUME IInv, NEW f \in Engines, WorkerStep(f) \/ PairStep(f), UNCHANGED mainVars,
         NEW e \in Engines, BusyMine(e), Untouched(e)', pc'[e] \in Serving
  PROVE  busy' = e \/ (busy' = None /\ conn'.owner = e /\ conn'.st = "lost")
<1> USE DEF IInv, TypeInv, TypeOK, StreamTypeOK, SessionTypeOK, Goto, Leave
<1>S. Serving = {"install", "reset", "listart", "handshake", "ready", "loop", "chkterm",
                 "recv"}
  BY DEF Serving, Pumping
<1>R. Serving \subseteq Running
  BY <1>S DEF Running, Streaming
<1>1. Moves(f)
  BY WorkerMoves
<1>2. f = e
  <2>1. pc[f] \in Running /\ (f # e => pc'[e] = pc[e])
    BY <1>1 DEF Moves
  <2> QED
    BY <2>1, <1>R DEF OneCurrent, Current
<1>3. Untouched(e)
  BY <1>1 DEF Moves, Untouched, MainCloses, mainVars
<1>4. CASE launch(e)
  BY <1>4, <1>S, StreamAssumption DEF launch, LaunchReply
<1>5. CASE StartConnection(e)
  <2>1. pc[e] = "listart" /\ UNCHANGED busy
    BY <1>5 DEF StartConnection
  <2>2. conn = NoConn
    BY <2>1, IInvGivesOneStream DEF OneStream
  <2> QED
    BY <1>3, <1>S, <2>1, <2>2 DEF BusyMine, NoConn
<1>6. CASE StartReturns(e)
  <2>1. pc[e] = "handshake" /\ UNCHANGED <<busy, conn>>
    BY <1>6, <1>S DEF StartReturns, LiStartSucceeds, LiStartFails, streamVars
  <2> QED
    BY <1>3, <1>S, <2>1 DEF BusyMine
<1>7. CASE pc[e] \in Serving /\ UNCHANGED <<busy, conn>>
  BY <1>3, <1>7 DEF BusyMine
<1>8. CASE restore_identity(e) \/ server_info(e) \/ on_pair_prompt(e)
           \/ pair(e) \/ PairPanics(e) \/ CheckStop(e) \/ app_list(e)
  BY <1>8, <1>S
     DEF restore_identity, server_info, on_pair_prompt, pair, PairPanics,
         CheckStop, app_list
<1>9. CASE StartInstall(e) \/ StartReset(e) \/ StartFailed(e) \/ on_ready(e)
  BY <1>9, <1>7, <1>S
     DEF StartInstall, InstallSink, StartReset, ResetTerminated, StartFailed, DropSink,
         on_ready, streamVars
<1>10. CASE PumpCheckStop(e) \/ PumpCheckTerminated(e) \/ PumpReceive(e)
  BY <1>10, <1>7, <1>S
     DEF PumpCheckStop, PumpCheckTerminated, PumpReceive, PumpEnds, streamVars
<1>11. CASE WorkerStopBegin(e) \/ WorkerStopEnd(e) \/ WorkerStopClear(e)
            \/ release_host(e) \/ on_closed(e)
  BY <1>11, <1>S
     DEF WorkerStopBegin, WorkerStopEnd, WorkerStopClear, release_host, on_closed
<1> QED
  BY <1>2, <1>4, <1>5, <1>6, <1>8, <1>9, <1>10, <1>11 DEF WorkerStep, PairStep

\* When a connection is lost it is the one of the engine that is served.
LEMMA LibraryBusy ==
  ASSUME IInv, Callback \/ DecoderStep, UNCHANGED mainVars,
         NEW e \in Engines, BusyMine(e), Untouched(e)', pc'[e] \in Serving
  PROVE  busy' = e \/ (busy' = None /\ conn'.owner = e /\ conn'.st = "lost")
<1> USE DEF IInv, TypeInv, TypeOK, StreamTypeOK
<1>1. UNCHANGED <<pc, stop>> /\ Untouched(e) /\ pc[e] \in Serving
  BY DEF Callback, Terminated, DecoderStep, sessionVars, Untouched, MainCloses, mainVars
<1>2. busy = e \/ (busy = None /\ conn.owner = e /\ conn.st = "lost")
  BY <1>1 DEF BusyMine
<1>3. CASE Terminated
  <2>1. /\ conn.st = "streaming" /\ conn' = [conn EXCEPT !.st = "lost"]
        /\ busy' \in {busy, None}
    BY <1>3 DEF Terminated, cl_connection_terminated
  <2>2. conn.owner \in Engines
    BY <2>1 DEF Connection, ConnShape, NoConn
  <2>3. Current(conn.owner)
    BY <2>2 DEF EngineInv, ConnOwned, ConnLive, Pumping, Current, Held, Running, Streaming
  <2>4. Current(e)
    BY <1>1 DEF Serving, Pumping, Current, Running, Streaming
  <2>5. conn.owner = e
    BY <2>2, <2>3, <2>4 DEF OneCurrent
  <2>6. conn'.owner = e /\ conn'.st = "lost"
    BY <2>1, <2>5 DEF Connection
  <2> QED
    BY <1>2, <2>1, <2>6
<1>4. CASE ~Terminated
  <2>1. UNCHANGED busy /\ (conn' = conn \/ conn.st \in {"starting", "streaming"})
    BY <1>4 DEF Callback, DecoderStep, dr_setup, NextDecodeUnit, dr_submit, sessionVars
  <2> QED
    BY <1>2, <2>1
<1> QED
  BY <1>3, <1>4

\* The main thread never touches the connection of an engine that it does not
\* close.
LEMMA MainBusy ==
  ASSUME IInv, HostMessage \/ MainStep \/ Exited \/ Pipe \/ UNCHANGED vars,
         NEW e \in Engines, BusyMine(e), Untouched(e)', pc'[e] \in Serving
  PROVE  busy' = e \/ (busy' = None /\ conn'.owner = e /\ conn'.st = "lost")
<1> USE DEF IInv, TypeInv, TypeOK, SessionTypeOK, MainTypeOK
<1>S. Serving \subseteq Running /\ "identity" \notin Serving /\ "nothread" \notin Serving
  BY DEF Serving, Pumping, Running, Streaming
<1>1. ASSUME pc[e] \in Serving, UNCHANGED <<busy, conn>>, Untouched(e)
      PROVE  busy' = e \/ (busy' = None /\ conn'.owner = e /\ conn'.st = "lost")
  BY <1>1 DEF BusyMine
<1>2. CASE CloseLi \/ CloseJoin \/ CloseClear \/ CloseFlag
  <2>1. mEng \in Engines /\ mpc \in Closing /\ UNCHANGED pc
    BY <1>2 DEF CloseLi, CloseJoin, CloseClear, CloseFlag, MainShape, Closing, sessionVars
  <2>2. mEng = e
    BY <2>1, <1>S DEF OneCurrent, Current, Held
  <2>3. ~Untouched(e)'
    BY <1>2, <2>1, <2>2
       DEF CloseLi, CloseJoin, CloseClear, CloseFlag, Untouched, MainCloses, Closing
  <2> QED
    BY <2>3
<1>3. CASE \E id \in Ids, f \in Engines, codec \in DocCodecs : Connect(id, f, codec)
  <2>1. PICK f \in Engines : /\ pc'[f] \notin Serving /\ mpc = "loop"
                             /\ \A g \in Engines \ {f} : pc'[g] = pc[g]
                             /\ UNCHANGED <<streamVars, stop, busy>>
    BY <1>3, <1>S DEF Connect, Goto
  <2>2. pc[e] \in Serving /\ Untouched(e)
    BY <2>1 DEF Untouched, MainCloses, Closing
  <2> QED
    BY <1>1, <2>1, <2>2 DEF streamVars
<1>4. CASE UNCHANGED <<streamVars, sessionVars>> /\ (MainCloses(e) => MainCloses(e)')
  BY <1>1, <1>4 DEF streamVars, sessionVars, Untouched
<1>5. CASE HelloAccepted \/ HelloRefused \/ Shutdown \/ ProtocolError \/ Insert
           \/ Drain \/ Unwind \/ \E id \in Ids : CloseMsg(id)
  <2>1. UNCHANGED <<streamVars, sessionVars>> /\ mpc \notin Closing
    BY <1>5 DEF HelloAccepted, HelloRefused, Shutdown, ProtocolError, Insert, Drain,
                Unwind, CloseMsg, Closing
  <2> QED
    BY <1>4, <2>1 DEF MainCloses
<1>6. CASE Ignored \/ Exited \/ Pipe \/ UNCHANGED vars
  BY <1>4, <1>6 DEF Ignored, Exited, Pipe, vars, mainVars, MainCloses
<1> QED
  BY <1>2, <1>3, <1>5, <1>6 DEF HostMessage, MainStep

\* So every step leaves the engine that is served its video session.
LEMMA BusyMineStep ==
  ASSUME IInv, [Next]_vars, NEW e \in Engines, BusyMine(e)
  PROVE  BusyMine(e)'
<1> SUFFICES ASSUME Untouched(e)', pc'[e] \in Serving
             PROVE  busy' = e \/ (busy' = None /\ conn'.owner = e /\ conn'.st = "lost")
  BY DEF BusyMine
<1>1. CASE \E f \in Engines : Worker(f) \/ Pairing(f)
  BY <1>1, WorkerBusy DEF Worker, Pairing, Beside
<1>2. CASE Library \/ Submit
  BY <1>2, LibraryBusy DEF Library, Submit, Beside
<1>3. CASE HostMessage \/ MainStep \/ Exited \/ Pipe \/ UNCHANGED vars
  BY <1>3, MainBusy
<1> QED
  BY <1>1, <1>2, <1>3 DEF Next

\* IInv, and whose video session it is.
ServedInv == IInv /\ \A e \in Engines : BusyMine(e)

LEMMA ServedAlways ==
  ASSUME Patient
  PROVE  Spec => []ServedInv
<1>1. Init => ServedInv
  BY IInvInit DEF ServedInv, Init, SessionInit, BusyMine, Serving, Pumping
<1>2. ServedInv /\ [Next]_vars => ServedInv'
  BY IInvStep, BusyMineStep DEF ServedInv
<1> QED
  BY <1>1, <1>2, PTL DEF Spec

-----------------------------------------------------------------------------
\* The invariant of the proof implies what the pump relies on.
LEMMA ServedGivesPump == ServedInv => PumpUntouched
<1> SUFFICES ASSUME ServedInv, NEW e \in Engines, pc[e] \in Pumping, Untouched(e)
             PROVE  /\ VIDEO_SINK = e
                    /\ conn.owner = e
                    /\ conn.st \in {"streaming", "lost"}
                    /\ busy \in {e, None}
                    /\ conn.st = "streaming" => busy = e
  BY DEF PumpUntouched, Untouched
<1>1. pc[e] \in Serving
  BY DEF Serving
<1> QED
  BY <1>1 DEF ServedInv, IInv, EngineInv, SinkMine, ConnMine, BusyMine

LEMMA IInvGivesTermination == IInv => TerminationIsOwn /\ CleanCloseWasAsked
<1> SUFFICES ASSUME IInv PROVE TerminationIsOwn /\ CleanCloseWasAsked
  OBVIOUS
<1>1. CleanCloseWasAsked
  BY DEF IInv, EngineInv, EndedWasAsked, Untouched, CleanCloseWasAsked
<1>2. TerminationIsOwn
  BY StreamAssumption
     DEF IInv, EngineInv, ConnMine, Untouched, Pumping, FlagFresh, TerminationIsOwn
<1> QED
  BY <1>1, <1>2

\* An engine in the map is the current one, so the connection is its own.
LEMMA IInvGivesInput == IInv => InputReachesOwn
<1> SUFFICES ASSUME IInv, NEW e \in Engines, mpc = "loop", Mapped(e)
             PROVE  conn.owner \in {e, None}
  BY DEF InputReachesOwn
<1>1. ASSUME NEW f \in Engines, conn.owner = f
      PROVE  pc[f] \in Running
  BY <1>1 DEF IInv, EngineInv, ConnOwned, ConnLive, Pumping, Running, Streaming
<1>2. ASSUME NEW f \in Engines, conn.owner = f
      PROVE  f = e
  BY <1>1, <1>2 DEF IInv, OneCurrent, Current, Held
<1> QED
  BY <1>2 DEF IInv, TypeInv, TypeOK, StreamTypeOK, Connection

\* A host that closes every session and waits for its sessionClosed before it
\* connects again never has two sessions on the one stream of the process
\* (stream.rs, "Only one moonlight session may be active at a time").
THEOREM OneStreamHolds ==
  ASSUME Patient
  PROVE  Spec => []OneStream
<1>1. IInv /\ [Next]_vars => IInv'
  BY IInvStep
<1> QED
  BY IInvInit, <1>1, IInvGivesOneStream, PTL DEF Spec

\* ... and while its session pumps frames and has not been closed, nobody has
\* taken the sink, the connection or the video session on Sunshine from it.
THEOREM PumpIsUntouched ==
  ASSUME Patient
  PROVE  Spec => []PumpUntouched
BY ServedAlways, ServedGivesPump, PTL

\* ... and if its pump sees TERMINATED, its own connection was lost: the flag
\* start_stream clears is never a leftover of an earlier session.
THEOREM TerminationHolds ==
  ASSUME Patient
  PROVE  Spec => []TerminationIsOwn
<1>1. IInv /\ [Next]_vars => IInv'
  BY IInvStep
<1> QED
  BY IInvInit, <1>1, IInvGivesTermination, PTL DEF Spec

\* ... and an input message never reaches the connection of another session.
THEOREM InputHolds ==
  ASSUME Patient
  PROVE  Spec => []InputReachesOwn
<1>1. IInv /\ [Next]_vars => IInv'
  BY IInvStep
<1> QED
  BY IInvInit, <1>1, IInvGivesInput, PTL DEF Spec

\* ... so that a sessionClosed without an error always answers a close
\* (PROTOCOL.md, "`error` absent => clean close").
THEOREM CleanCloseIsAnswer ==
  ASSUME Patient
  PROVE  Spec => []CleanCloseWasAsked
<1>1. IInv /\ [Next]_vars => IInv'
  BY IInvStep
<1> QED
  BY IInvInit, <1>1, IInvGivesTermination, PTL DEF Spec
-----------------------------------------------------------------------------
(* Frames.                                                                 *)

\* Labels before LiStartConnection is entered.
BeforeStart == {"unborn", "nothread", "install", "reset", "listart", "applist", "launch"}
                 \cup PreCheck

\* The k-th unit of engine e, as the host should get it.
OwnUnit(e, k) == [from |-> e, n |-> k, codec |-> wanted[e]]

\* What the host has been shown and what is queued behind it are the first
\* units of the engine's own connection.
InOrder(e) ==
    /\ \A k \in 1..Len(shown[e]) : shown[e][k] = OwnUnit(e, k)
    /\ \A k \in 1..Len(rx[e]) : rx[e][k] = OwnUnit(e, Len(shown[e]) + k)

\* The sink belongs to the connection that runs or is about to start, and as
\* long as it is there every unit the library has completed, but for the one in
\* the decoder's hands, has gone into it.
SinkIsFed ==
    /\ \A e \in Engines : pc[e] \in {"reset", "listart"} => VIDEO_SINK \in {None, e}
    /\ conn.owner # None =>
         /\ VIDEO_SINK \in {None, conn.owner}
         /\ conn.fmt = wanted[conn.owner]
    /\ VIDEO_SINK # None /\ conn.owner = VIDEO_SINK =>
         Len(shown[conn.owner]) + Len(rx[conn.owner])
           = IF decoder = None THEN conn.n ELSE conn.n - 1

\* The unit in the decoder's hands is the connection's last, and the format
\* stored last is the connection's.
DecoderIsOwn ==
    /\ decoder # None => decoder.from = conn.owner /\ decoder.n = conn.n
    /\ decoder # None \/ conn.st = "streaming" => NEGOTIATED_FORMAT = conn.fmt

FramesInv ==
    /\ \A e \in Engines :
         InOrder(e) /\ (pc[e] \in BeforeStart => shown[e] = <<>> /\ rx[e] = <<>>)
    /\ SinkIsFed /\ DecoderIsOwn

LEMMA FramesInit == Init => FramesInv
<1> SUFFICES ASSUME Init PROVE FramesInv
  OBVIOUS
<1> QED
  BY DEF Init, StreamInit, SessionInit, FramesInv, InOrder, SinkIsFed, DecoderIsOwn, NoConn

\* An engine whose units and codec are left alone.
LEMMA SameOrder ==
  ASSUME NEW f \in Engines, InOrder(f),
         rx'[f] = rx[f], shown'[f] = shown[f], wanted'[f] = wanted[f]
  PROVE  InOrder(f)'
  BY DEF InOrder, OwnUnit

\* Steps that take something away: the sink is dropped, the connection ends.
LEMMA CalmFrames ==
  ASSUME TypeInv, FramesInv,
         UNCHANGED <<shown, rx, wanted, decoder, NEGOTIATED_FORMAT>>,
         \/ UNCHANGED conn
         \/ conn' = NoConn /\ decoder = None
         \/ \E st \in {"stopping", "lost"} : conn' = [conn EXCEPT !.st = st],
         VIDEO_SINK' \in {VIDEO_SINK, None},
         \A f \in Engines :
           /\ pc'[f] \in BeforeStart => pc[f] \in BeforeStart
           /\ pc'[f] \in {"reset", "listart"} => pc[f] \in {"reset", "listart"}
  PROVE  FramesInv'
<1>1. \/ conn'.owner = None /\ conn'.st # "streaming" /\ decoder = None
      \/ /\ conn'.owner = conn.owner /\ conn'.fmt = conn.fmt /\ conn'.n = conn.n
         /\ conn'.st = "streaming" => conn.st = "streaming"
  BY DEF NoConn, TypeInv, TypeOK, StreamTypeOK, Connection
<1>2. SinkIsFed'
  BY <1>1 DEF FramesInv, SinkIsFed
<1>3. DecoderIsOwn'
  BY <1>1 DEF FramesInv, DecoderIsOwn
<1>4. \A f \in Engines :
        InOrder(f)' /\ (pc'[f] \in BeforeStart => shown'[f] = <<>> /\ rx'[f] = <<>>)
  BY SameOrder DEF FramesInv
<1> QED
  BY <1>2, <1>3, <1>4 DEF FramesInv

\* Only the engine whose connection it is may be between the start and the end
\* of it.
LEMMA OwnerIsPast ==
  ASSUME IInv, NEW e \in Engines, pc[e] \in {"install", "reset", "listart"}
  PROVE  conn.owner = None /\ decoder = None
         /\ \A f \in Engines \ {e} : pc[f] \notin {"install", "reset", "listart"}
<1> USE DEF IInv, TypeInv, TypeOK, StreamTypeOK
<1>1. Current(e) /\ \A f \in Engines \ {e} : ~Current(f)
  BY DEF Current, Running, Streaming, OneCurrent
<1>2. \A f \in Engines : conn.owner = f => f = e
  BY <1>1 DEF EngineInv, ConnOwned, ConnLive, Pumping, Current, Held, Running, Streaming
<1>3. conn.owner # e
  BY DEF EngineInv, ConnOwned, ConnLive, AfterConn, Pumping
<1>4. conn = NoConn
  BY <1>2, <1>3 DEF Connection, ConnShape
<1> QED
  BY <1>1, <1>4 DEF DecoderBusy, NoConn, Current, Running, Streaming

\* With a unit in the decoder's hands the sink has been fed all others.
LEMMA FedCount ==
  ASSUME SinkIsFed, VIDEO_SINK # None, conn.owner = VIDEO_SINK, decoder # None,
         shown[VIDEO_SINK] \in Seq(VideoUnit), rx[VIDEO_SINK] \in Seq(VideoUnit), conn.n \in Nat
  PROVE  Len(shown[VIDEO_SINK]) + Len(rx[VIDEO_SINK]) + 1 = conn.n
<1> DEFINE a == Len(shown[conn.owner])
           b == Len(rx[conn.owner])
<1>1. a + b = IF decoder = None THEN conn.n ELSE conn.n - 1
  BY DEF SinkIsFed
<1>2. a \in Nat /\ b \in Nat
  OBVIOUS
<1>3. a + b + 1 = conn.n
  <2> HIDE DEF a, b
  <2> QED
    BY <1>1, <1>2
<1> QED
  BY <1>3

\* The decoder thread hands the next unit of its connection to the sink.
LEMMA SubmitFrames ==
  ASSUME IInv, FramesInv, dr_submit, UNCHANGED sessionVars
  PROVE  FramesInv'
<1> USE DEF IInv, TypeInv, TypeOK, StreamTypeOK, SessionTypeOK, FramesInv, sessionVars
<1>1. /\ decoder # None /\ decoder' = None
      /\ UNCHANGED <<VIDEO_SINK, NEGOTIATED_FORMAT, TERMINATED, conn>>
  BY DEF dr_submit
<1>2. conn.owner \in Engines /\ conn.n \in Nat
  BY <1>1, StreamAssumption DEF DecoderBusy, ConnShape, NoConn, Connection
<1>3. CASE VIDEO_SINK = None
  BY <1>1, <1>3 DEF dr_submit, InOrder, OwnUnit, SinkIsFed, DecoderIsOwn
<1>4. CASE VIDEO_SINK # None
  <2>0. PICK v \in Engines : v = VIDEO_SINK /\ v = conn.owner
    BY <1>2, <1>4, StreamAssumption DEF SinkIsFed
  <2> DEFINE unit == [from |-> decoder.from, n |-> decoder.n, codec |-> NEGOTIATED_FORMAT]
             k == Len(shown[v]) + Len(rx[v])
  <2>1. v = conn.owner /\ k + 1 = conn.n
    <3>1. /\ SinkIsFed /\ VIDEO_SINK # None /\ conn.owner = VIDEO_SINK /\ decoder # None
          /\ shown[VIDEO_SINK] \in Seq(VideoUnit) /\ rx[VIDEO_SINK] \in Seq(VideoUnit)
      BY <1>1, <1>4, <2>0
    <3>2. Len(shown[VIDEO_SINK]) + Len(rx[VIDEO_SINK]) + 1 = conn.n
      BY <1>2, <3>1, FedCount, Zenon
    <3> QED
      BY <2>0, <3>2, Zenon
  <2>2. unit = OwnUnit(v, k + 1)
    BY <1>1, <1>2, <2>1, StreamAssumption DEF SinkIsFed, DecoderIsOwn, OwnUnit
  <2>3. rx' = [rx EXCEPT ![v] = Append(@, unit)]
    BY <1>4, <2>0 DEF dr_submit, Enqueued
  <2>4. unit \in VideoUnit
    BY <1>1 DEF VideoUnit, DecodeUnit
  <2> HIDE DEF unit
  <2>5. /\ rx'[v] \in Seq(VideoUnit) /\ Len(rx'[v]) = Len(rx[v]) + 1
        /\ \A i \in 1..Len(rx[v]) : rx'[v][i] = rx[v][i]
        /\ rx'[v][Len(rx[v]) + 1] = unit
        /\ \A f \in Engines \ {v} : rx'[f] = rx[f]
    BY <2>1, <2>3, <2>4
  <2>6. Len(shown[v]) \in Nat /\ Len(rx[v]) \in Nat
    BY <2>1
  <2>7. \A i \in 1..Len(rx'[v]) : rx'[v][i] = OwnUnit(v, Len(shown[v]) + i)
    <3> SUFFICES ASSUME NEW i \in 1..Len(rx'[v])
                 PROVE  rx'[v][i] = OwnUnit(v, Len(shown[v]) + i)
      OBVIOUS
    <3>1. CASE i \in 1..Len(rx[v])
      BY <2>1, <2>5, <3>1 DEF InOrder
    <3>2. CASE i = Len(rx[v]) + 1
      BY <2>2, <2>5, <2>6, <3>2
    <3> QED
      BY <2>5, <2>6, <3>1, <3>2
  <2>8. \A f \in Engines : InOrder(f)'
    <3>1. InOrder(v)'
      BY <2>1, <2>7 DEF InOrder, OwnUnit
    <3>2. \A f \in Engines \ {v} : InOrder(f)'
      BY <2>5, SameOrder
    <3> QED
      BY <3>1, <3>2
  <2>9. pc[v] \notin BeforeStart
    BY <2>1 DEF EngineInv, ConnOwned, ConnLive, AfterConn, Pumping, BeforeStart, PreCheck
  <2> QED
    BY <1>1, <2>0, <2>1, <2>5, <2>6, <2>8, <2>9 DEF SinkIsFed, DecoderIsOwn
<1> QED
  BY <1>3, <1>4

\* A unit goes from the queue to the host; the pump ends, or goes on.
LEMMA ReceiveFrames ==
  ASSUME IInv, FramesInv, NEW e \in Engines, PumpReceive(e)
  PROVE  FramesInv'
<1> USE DEF IInv, TypeInv, TypeOK, StreamTypeOK, SessionTypeOK, FramesInv
<1>1. /\ UNCHANGED <<wanted, decoder, NEGOTIATED_FORMAT, conn, VIDEO_SINK>>
      /\ pc[e] = "recv" /\ pc'[e] \in {"loop", "stop_li"}
      /\ \A f \in Engines \ {e} : pc'[f] = pc[f]
  BY DEF PumpReceive, Goto, PumpEnds, Leave
<1>2. CASE UNCHANGED <<shown, rx>>
  <2>1. \A f \in Engines :
          /\ pc'[f] \in BeforeStart => pc[f] \in BeforeStart
          /\ pc'[f] \in {"reset", "listart"} => pc[f] \in {"reset", "listart"}
    BY <1>1 DEF BeforeStart, PreCheck
  <2> QED
    BY <1>1, <1>2, <2>1, CalmFrames
<1>3. CASE /\ rx[e] # <<>>
           /\ shown' = [shown EXCEPT ![e] = Append(@, Head(rx[e]))]
           /\ rx' = [rx EXCEPT ![e] = Tail(@)]
  <2> DEFINE n == Len(shown[e])
             m == Len(rx[e])
  <2>1. n \in Nat /\ m \in Nat \ {0} /\ Len(shown'[e]) = n + 1 /\ Len(rx'[e]) = m - 1
    BY <1>3
  <2>2. /\ \A k \in 1..n : shown'[e][k] = shown[e][k]
        /\ shown'[e][n + 1] = rx[e][1]
        /\ \A k \in 1..(m - 1) : rx'[e][k] = rx[e][k + 1]
    BY <1>3
  <2>3. InOrder(e) /\ \A f \in Engines \ {e} : InOrder(f)'
    BY <1>1, <1>3, SameOrder
  <2>4. \A k \in 1..n : shown[e][k] = OwnUnit(e, k)
    BY <2>3 DEF InOrder
  <2>5. \A k \in 1..m : rx[e][k] = OwnUnit(e, n + k)
    BY <2>3 DEF InOrder
  <2>6. \A k : OwnUnit(e, k)' = OwnUnit(e, k)
    BY <1>1 DEF OwnUnit
  <2> HIDE DEF n, m
  <2>7. \A k \in 1..(n + 1) : shown'[e][k] = OwnUnit(e, k)
    <3>0. 1 \in 1..m
      BY <2>1
    <3>1. shown'[e][n + 1] = OwnUnit(e, n + 1)
      BY <2>2, <2>5, <3>0, Zenon
    <3>2. \A k \in 1..(n + 1) : k \in 1..n \/ k = n + 1
      BY <2>1
    <3> QED
      BY <2>2, <2>4, <3>1, <3>2, Zenon
  <2>8. \A k \in 1..(m - 1) : rx'[e][k] = OwnUnit(e, (n + 1) + k)
    <3> SUFFICES ASSUME NEW k \in 1..(m - 1)
                 PROVE  rx'[e][k] = OwnUnit(e, (n + 1) + k)
      OBVIOUS
    <3>1. k + 1 \in 1..m /\ n + (k + 1) = (n + 1) + k
      BY <2>1
    <3> QED
      BY <2>2, <2>5, <3>1
  <2>9. InOrder(e)'
    BY <2>1, <2>6, <2>7, <2>8 DEF InOrder
  <2>10. Len(shown'[e]) + Len(rx'[e]) = Len(shown[e]) + Len(rx[e])
    BY <2>1 DEF n, m
  <2>11. \A f \in Engines \ {e} : rx'[f] = rx[f] /\ shown'[f] = shown[f]
    BY <1>3
  <2>12. SinkIsFed'
    BY <1>1, <2>10, <2>11, StreamAssumption DEF SinkIsFed
  <2>13. DecoderIsOwn'
    BY <1>1 DEF DecoderIsOwn
  <2>14. \A f \in Engines : pc'[f] \in BeforeStart => shown'[f] = <<>> /\ rx'[f] = <<>>
    BY <1>1, <2>11 DEF BeforeStart, PreCheck
  <2> QED
    BY <2>3, <2>9, <2>12, <2>13, <2>14
<1> QED
  BY <1>2, <1>3 DEF PumpReceive

\* A worker's step keeps the frames in order.
LEMMA WorkerFrames ==
  ASSUME IInv, FramesInv, NEW e \in Engines, WorkerStep(e) \/ PairStep(e)
  PROVE  FramesInv'
<1>C. ASSUME UNCHANGED <<shown, rx, wanted, decoder, NEGOTIATED_FORMAT>>,
             \/ UNCHANGED conn
             \/ conn' = NoConn /\ decoder = None
             \/ conn' = [conn EXCEPT !.st = "stopping"],
             VIDEO_SINK' \in {VIDEO_SINK, None},
             NEW label, Goto(e, label),
             label \in BeforeStart => pc[e] \in BeforeStart,
             label \in {"reset", "listart"} => pc[e] \in {"reset", "listart"}
      PROVE  FramesInv'
  BY <1>C, CalmFrames DEF Goto, IInv, TypeInv, TypeOK, SessionTypeOK
<1> USE DEF BeforeStart, PreCheck, Leave
<1>1. CASE restore_identity(e)
  BY <1>1, <1>C DEF restore_identity, streamVars
<1>2. CASE server_info(e)
  BY <1>2, <1>C DEF server_info, streamVars
<1>3. CASE on_pair_prompt(e)
  BY <1>3, <1>C DEF on_pair_prompt, streamVars
<1>4. CASE pair(e)
  BY <1>4, <1>C DEF pair, streamVars
<1>5. CASE PairPanics(e)
  BY <1>5, <1>C DEF PairPanics, streamVars
<1>6. CASE CheckStop(e)
  BY <1>6, <1>C DEF CheckStop, streamVars
<1>7. CASE app_list(e)
  BY <1>7, <1>C DEF app_list, streamVars
<1>8. CASE launch(e)
  BY <1>8, <1>C DEF launch, streamVars
<1>9. CASE StartReset(e)
  BY <1>9, <1>C DEF StartReset, ResetTerminated
<1>10. CASE StartReturns(e)
  BY <1>10, <1>C DEF StartReturns, LiStartSucceeds, LiStartFails, streamVars
<1>11. CASE StartFailed(e)
  BY <1>11, <1>C DEF StartFailed, DropSink
<1>12. CASE on_ready(e)
  BY <1>12, <1>C DEF on_ready, streamVars
<1>13. CASE PumpCheckStop(e)
  BY <1>13, <1>C DEF PumpCheckStop, PumpEnds, streamVars
<1>14. CASE PumpCheckTerminated(e)
  BY <1>14, <1>C DEF PumpCheckTerminated, PumpEnds, streamVars
<1>15. CASE WorkerStopBegin(e)
  BY <1>15, <1>C DEF WorkerStopBegin, LiStopBegin
<1>16. CASE WorkerStopEnd(e)
  BY <1>16, <1>C DEF WorkerStopEnd, LiStopEnd
<1>17. CASE WorkerStopClear(e)
  BY <1>17, <1>C DEF WorkerStopClear, DropSink, MustRelease
<1>18. CASE release_host(e)
  BY <1>18, <1>C DEF release_host, streamVars
<1>19. CASE on_closed(e)
  BY <1>19, <1>C DEF on_closed, streamVars
<1>20. CASE StartInstall(e)
  <2>1. pc[e] = "install" /\ VIDEO_SINK' = e /\ UNCHANGED <<shown, rx, wanted, decoder, conn>>
        /\ UNCHANGED NEGOTIATED_FORMAT /\ Goto(e, "reset")
    BY <1>20 DEF StartInstall, InstallSink
  <2>2. conn.owner = None /\ decoder = None
        /\ \A f \in Engines \ {e} : pc[f] \notin {"install", "reset", "listart"}
    BY <2>1, OwnerIsPast
  <2>3. pc'[e] = "reset" /\ \A f \in Engines \ {e} : pc'[f] = pc[f]
    BY <2>1 DEF Goto, IInv, TypeInv, TypeOK, SessionTypeOK
  <2>4. SinkIsFed'
    <3>1. \A f \in Engines : pc'[f] \in {"reset", "listart"} => f = e
      BY <2>2, <2>3
    <3>2. conn'.owner = None /\ VIDEO_SINK' = e /\ e # None
      BY <2>1, <2>2, StreamAssumption
    <3> QED
      BY <3>1, <3>2 DEF SinkIsFed
  <2>5. DecoderIsOwn'
    BY <2>1, <2>2 DEF FramesInv, DecoderIsOwn
  <2>6. \A f \in Engines : InOrder(f)'
    BY <2>1, SameOrder DEF FramesInv
  <2> QED
    BY <2>1, <2>3, <2>4, <2>5, <2>6 DEF FramesInv
<1>21. CASE StartConnection(e)
  <2>1. /\ pc[e] = "listart" /\ Goto(e, "handshake")
        /\ conn' = [st |-> "starting", owner |-> e, fmt |-> wanted[e], n |-> 0]
        /\ UNCHANGED <<shown, rx, wanted, decoder, VIDEO_SINK, NEGOTIATED_FORMAT>>
    BY <1>21 DEF StartConnection, LiStartConnection
  <2>2. decoder = None /\ \A f \in Engines \ {e} : pc[f] \notin {"reset", "listart"}
    BY <2>1, OwnerIsPast
  <2>3. pc'[e] = "handshake" /\ \A f \in Engines \ {e} : pc'[f] = pc[f]
    BY <2>1 DEF Goto, IInv, TypeInv, TypeOK, SessionTypeOK
  <2>4. VIDEO_SINK \in {None, e} /\ shown[e] = <<>> /\ rx[e] = <<>>
    BY <2>1 DEF FramesInv, SinkIsFed
  <2>5. SinkIsFed'
    <3>1. /\ conn'.owner = e /\ conn'.fmt = wanted'[e] /\ conn'.n = 0
          /\ decoder' = None /\ VIDEO_SINK' \in {None, e}
      BY <2>1, <2>2, <2>4
    <3>2. shown'[e] = <<>> /\ rx'[e] = <<>>
      BY <2>1, <2>4
    <3>3. Len(shown'[e]) + Len(rx'[e]) = 0
      BY <3>2
    <3>4. \A f \in Engines : pc'[f] \in {"reset", "listart"} => VIDEO_SINK' \in {None, f}
      BY <2>2, <2>3
    <3> QED
      BY <3>1, <3>3, <3>4, Zenon DEF SinkIsFed
  <2>d. DecoderIsOwn'
    BY <2>1, <2>2 DEF DecoderIsOwn
  <2>6. \A f \in Engines : InOrder(f)'
    BY <2>1, SameOrder DEF FramesInv
  <2> QED
    BY <2>1, <2>3, <2>5, <2>d, <2>6 DEF FramesInv
<1>22. CASE PumpReceive(e)
  BY <1>22, ReceiveFrames
<1> QED
  BY <1>1, <1>2, <1>3, <1>4, <1>5, <1>6, <1>7, <1>8, <1>9, <1>10, <1>11, <1>12, <1>13, <1>14, <1>15, <1>16, <1>17, <1>18, <1>19, <1>20, <1>21, <1>22
     DEF WorkerStep, PairStep

\* The library completes a unit, or its connection comes up or is lost.
LEMMA CallbackFrames ==
  ASSUME IInv, FramesInv, Callback
  PROVE  FramesInv'
<1> USE DEF IInv, TypeInv, TypeOK, StreamTypeOK, FramesInv
<1>1. UNCHANGED <<shown, rx, wanted, pc, VIDEO_SINK>>
  BY DEF Callback, dr_setup, NextDecodeUnit, Terminated, cl_connection_terminated, sessionVars
<1>2. \A f \in Engines :
        InOrder(f)' /\ (pc'[f] \in BeforeStart => shown'[f] = <<>> /\ rx'[f] = <<>>)
  BY <1>1, SameOrder
<1>3. CASE dr_setup
  <2>1. /\ conn.st = "starting" /\ conn'.fmt = conn.fmt /\ conn'.owner = conn.owner
        /\ conn'.n = conn.n /\ NEGOTIATED_FORMAT' = conn'.fmt /\ UNCHANGED decoder
    BY <1>3 DEF dr_setup, Negotiated, Connection
  <2> QED
    BY <1>1, <1>2, <2>1 DEF SinkIsFed, DecoderIsOwn
<1>4. CASE NextDecodeUnit
  <2>1. /\ conn.st = "streaming" /\ decoder = None /\ UNCHANGED NEGOTIATED_FORMAT
        /\ conn'.fmt = conn.fmt /\ conn'.owner = conn.owner /\ conn'.n = conn.n + 1
        /\ decoder' = [from |-> conn.owner, n |-> conn.n + 1]
    BY <1>4 DEF NextDecodeUnit, Connection
  <2>2. decoder' # None /\ decoder'.from = conn.owner /\ decoder'.n = conn'.n
    <3>1. conn.owner \in Engines /\ conn.n + 1 \in 1..MaxFrames
      BY <1>4, <2>1, StreamAssumption DEF NextDecodeUnit, ConnShape, NoConn, Connection
    <3> QED
      BY <2>1, <3>1, UnitAssumption DEF DecodeUnit
  <2>3. DecoderIsOwn'
    BY <2>1, <2>2 DEF DecoderIsOwn
  <2>4. SinkIsFed'
    <3>1. conn'.owner = conn.owner /\ conn'.n - 1 = conn.n
      BY <2>1 DEF Connection
    <3>2. VIDEO_SINK # None /\ conn.owner = VIDEO_SINK =>
            Len(shown[conn.owner]) + Len(rx[conn.owner]) = conn.n
      BY <2>1 DEF SinkIsFed
    <3>3. VIDEO_SINK' # None /\ conn'.owner = VIDEO_SINK' =>
            Len(shown'[conn'.owner]) + Len(rx'[conn'.owner]) = conn'.n - 1
      BY <1>1, <3>1, <3>2
    <3>4. \A e \in Engines : pc'[e] \in {"reset", "listart"} => VIDEO_SINK' \in {None, e}
      BY <1>1 DEF SinkIsFed
    <3>5. conn'.owner # None =>
            /\ VIDEO_SINK' \in {None, conn'.owner}
            /\ conn'.fmt = wanted'[conn'.owner]
      BY <1>1, <2>1 DEF SinkIsFed
    <3> QED
      BY <2>2, <3>3, <3>4, <3>5, Zenon DEF SinkIsFed
  <2> QED
    BY <1>2, <2>3, <2>4
<1>5. CASE cl_connection_terminated
  BY <1>1, <1>5, CalmFrames DEF cl_connection_terminated
<1> QED
  BY <1>3, <1>4, <1>5 DEF Callback, Terminated

\* The main thread creates engines, and takes sinks and connections away.
LEMMA MainFrames ==
  ASSUME IInv, FramesInv, HostMessage \/ MainStep \/ Exited
  PROVE  FramesInv'
<1>C. ASSUME UNCHANGED <<pc, shown, rx, wanted, decoder, NEGOTIATED_FORMAT>>,
             \/ UNCHANGED conn
             \/ conn' = NoConn /\ decoder = None
             \/ conn' = [conn EXCEPT !.st = "stopping"],
             VIDEO_SINK' \in {VIDEO_SINK, None}
      PROVE  FramesInv'
  BY <1>C, CalmFrames DEF IInv
<1>1. CASE HelloAccepted \/ HelloRefused \/ Ignored \/ Shutdown \/ ProtocolError \/ Exited
  BY <1>1, <1>C DEF HelloAccepted, HelloRefused, Ignored, Shutdown, ProtocolError, Exited,
                    vars, streamVars, sessionVars
<1>2. CASE \E id \in Ids : CloseMsg(id)
  BY <1>2, <1>C DEF CloseMsg, streamVars, sessionVars
<1>3. CASE Insert \/ Drain \/ Unwind
  BY <1>3, <1>C DEF Insert, Drain, Unwind, streamVars, sessionVars
<1>4. CASE CloseLi \/ CloseJoin \/ CloseClear \/ CloseFlag
  BY <1>4, <1>C DEF CloseLi, LiStopBegin, CloseJoin, LiStopEnd, CloseClear, DropSink,
                    CloseFlag, streamVars, sessionVars
<1>5. ASSUME NEW id \in Ids, NEW e \in Engines, NEW codec \in DocCodecs, Connect(id, e, codec)
      PROVE  FramesInv'
  <2> USE DEF IInv, TypeInv, TypeOK, SessionTypeOK, FramesInv
  <2>1. /\ pc[e] = "unborn" /\ UNCHANGED <<streamVars, shown>>
        /\ pc'[e] \in {"identity", "nothread"}
        /\ \A f \in Engines \ {e} : pc'[f] = pc[f] /\ wanted'[f] = wanted[f]
    BY <1>5 DEF Connect, Goto
  <2>2. conn.owner # e
    BY <2>1 DEF EngineInv, ConnOwned, ConnLive, AfterConn, Pumping
  <2>3. shown[e] = <<>> /\ rx[e] = <<>>
    BY <2>1 DEF BeforeStart
  <2>4. InOrder(e)'
    BY <2>1, <2>3 DEF InOrder, streamVars
  <2>5. \A f \in Engines \ {e} : InOrder(f)'
    BY <2>1, SameOrder DEF streamVars
  <2>6. SinkIsFed' /\ DecoderIsOwn'
    BY <2>1, <2>2 DEF SinkIsFed, DecoderIsOwn, streamVars, StreamTypeOK, Connection
  <2> QED
    BY <2>1, <2>3, <2>4, <2>5, <2>6 DEF streamVars
<1> QED
  BY <1>1, <1>2, <1>3, <1>4, <1>5 DEF HostMessage, MainStep

\* Beside IInv, FramesInv is inductive.
LEMMA FramesStep == IInv /\ FramesInv /\ [Next]_vars => FramesInv'
<1> SUFFICES ASSUME IInv, FramesInv, [Next]_vars PROVE FramesInv'
  OBVIOUS
<1>1. CASE HostMessage \/ MainStep \/ Exited
  BY <1>1, MainFrames
<1>2. ASSUME NEW e \in Engines, Worker(e) \/ Pairing(e)
      PROVE  FramesInv'
  BY <1>2, WorkerFrames DEF Worker, Pairing
<1>3. CASE Library
  BY <1>3, CallbackFrames DEF Library
<1>4. CASE Submit
  BY <1>4, SubmitFrames DEF Submit, DecoderStep
<1>5. CASE Pipe \/ UNCHANGED vars
  BY <1>5, CalmFrames DEF IInv, Pipe, vars, streamVars, sessionVars
<1> QED
  BY <1>1, <1>2, <1>3, <1>4, <1>5 DEF Next

\* ... and the frames the host gets for a session are the first access units of
\* that session's own connection, in order, without a gap, tagged with its own
\* codec (stream.rs: VIDEO_SINK and NEGOTIATED_FORMAT are shared by all).
THEOREM FramesHold ==
  ASSUME Patient
  PROVE  Spec => []FramesInOrder
<1>1. IInv /\ [Next]_vars => IInv'
  BY IInvStep
<1>2. FramesInv => FramesInOrder
  BY DEF FramesInv, InOrder, OwnUnit, FramesInOrder
<1> QED
  BY IInvInit, FramesInit, <1>1, <1>2, FramesStep, PTL DEF Spec
=============================================================================
