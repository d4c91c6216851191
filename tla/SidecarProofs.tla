--------------------------- MODULE SidecarProofs ---------------------------
(***************************************************************************)
(* Type correctness of module Sidecar, for any number of engines, session  *)
(* numbers and frames and for every host; HostProofs and IsolationProofs   *)
(* build on it.                                                            *)
(***************************************************************************)
EXTENDS SidecarInv, TLAPS

StreamInv == StreamTypeOK /\ ConnShape

-----------------------------------------------------------------------------
(* The operations of module Stream preserve StreamInv.                     *)

\* The idle library is a connection state.
LEMMA NoConnType == NoConn \in Connection
  BY StreamAssumption DEF NoConn, Connection, ConnStates, Codecs

\* Operations on the sink, the flag and the end of the handshake.
LEMMA SinkOpType ==
  ASSUME StreamInv, NEW e \in Engines,
         \/ UNCHANGED streamVars \/ InstallSink(e) \/ ResetTerminated
         \/ LiStartSucceeds(e) \/ DropSink
  PROVE  StreamInv'
  BY DEF StreamInv, StreamTypeOK, ConnShape, streamVars, InstallSink,
         ResetTerminated, LiStartSucceeds, DropSink

\* LiStartConnection.
LEMMA StartType ==
  ASSUME StreamInv, NEW e \in Engines, NEW fmt \in Codecs,
         LiStartConnection(e, fmt)
  PROVE  StreamInv'
<1>1. conn' = [st |-> "starting", owner |-> e, fmt |-> fmt, n |-> 0]
  BY DEF LiStartConnection
<1>2. conn' \in Connection
  BY <1>1, StreamAssumption DEF Connection, ConnStates
<1>3. ConnShape'
  BY <1>1, StreamAssumption DEF ConnShape
<1> QED
  BY <1>2, <1>3 DEF StreamInv, StreamTypeOK, LiStartConnection

\* A failed start or a finished stop leaves the library idle.
LEMMA DownType ==
  ASSUME StreamInv, NEW e \in Engines, LiStartFails(e) \/ LiStopEnd
  PROVE  StreamInv'
<1>1. conn' \in {conn, NoConn}
  BY DEF LiStartFails, LiStopEnd
<1>2. ConnShape'
  <2>1. CASE conn' = conn
    BY <2>1 DEF StreamInv, ConnShape, NoConn
  <2>2. CASE conn' = NoConn
    BY <2>2 DEF ConnShape, NoConn
  <2> QED BY <1>1, <2>1, <2>2
<1> QED
  BY <1>1, <1>2, NoConnType
     DEF StreamInv, StreamTypeOK, LiStartFails, LiStopEnd

\* LiStopConnection is entered.
LEMMA StopBeginType ==
  ASSUME StreamInv, LiStopBegin
  PROVE  StreamInv'
  BY DEF StreamInv, StreamTypeOK, LiStopBegin, Connection, ConnStates,
         ConnShape, NoConn

\* dr_setup.
LEMMA SetupType ==
  ASSUME StreamInv, dr_setup
  PROVE  StreamInv'
<1>1. conn' \in Connection
  BY DEF StreamInv, StreamTypeOK, dr_setup, Connection, ConnStates
<1>2. NEGOTIATED_FORMAT' \in Codecs
  BY DEF StreamInv, StreamTypeOK, dr_setup, Negotiated, Connection
<1>3. ConnShape'
  BY DEF StreamInv, StreamTypeOK, dr_setup, Connection, ConnShape, NoConn
<1> QED
  BY <1>1, <1>2, <1>3 DEF StreamInv, StreamTypeOK, dr_setup

\* cl_connection_terminated.
LEMMA LostType ==
  ASSUME StreamInv, cl_connection_terminated
  PROVE  StreamInv'
  BY DEF StreamInv, StreamTypeOK, cl_connection_terminated, Connection,
         ConnStates, ConnShape, NoConn

\* The decoder thread picks the next unit up.
LEMMA UnitType ==
  ASSUME StreamInv, NextDecodeUnit
  PROVE  StreamInv'
<1>1. conn.owner \in Engines /\ conn.n + 1 \in 1..MaxFrames
  BY StreamAssumption
     DEF NextDecodeUnit, StreamInv, StreamTypeOK, Connection, ConnShape, NoConn
<1>2. decoder' \in DecodeUnit
  BY <1>1 DEF NextDecodeUnit, DecodeUnit
<1>3. conn' = [conn EXCEPT !.n = conn.n + 1] /\ conn.n + 1 \in 0..MaxFrames
  BY <1>1, StreamAssumption DEF NextDecodeUnit
<1>4. ConnShape' /\ conn' \in Connection
  BY <1>1, <1>3, StreamAssumption
     DEF StreamInv, StreamTypeOK, ConnShape, NextDecodeUnit, Connection, ConnStates
<1> QED
  BY <1>2, <1>4 DEF StreamInv, StreamTypeOK, NextDecodeUnit

\* dr_submit.
LEMMA SubmitType ==
  ASSUME StreamInv, dr_submit
  PROVE  StreamInv'
<1> DEFINE unit == [from |-> decoder.from, n |-> decoder.n,
                    codec |-> NEGOTIATED_FORMAT]
<1>1. unit \in VideoUnit
  BY DEF StreamInv, StreamTypeOK, dr_submit, VideoUnit, DecodeUnit
<1>2. rx' = IF VIDEO_SINK = None THEN rx
            ELSE [rx EXCEPT ![VIDEO_SINK] = Append(@, unit)]
  BY DEF dr_submit, Enqueued
<1>3. rx' \in [Engines -> Seq(VideoUnit)]
  <2> HIDE DEF unit
  <2> QED BY <1>1, <1>2 DEF StreamInv, StreamTypeOK
<1> QED
  BY <1>3 DEF StreamInv, StreamTypeOK, ConnShape, dr_submit

-----------------------------------------------------------------------------
(* How a step of the worker ends.                                          *)

\* A worker goes on to a label.
LEMMA GotoType ==
  ASSUME pc \in [Engines -> Labels], NEW e \in Engines, NEW label \in Labels,
         Goto(e, label)
  PROVE  pc' \in [Engines -> Labels]
  BY DEF Goto

\* A worker leaves run_moonlight for a reason.
LEMMA LeaveType ==
  ASSUME pc \in [Engines -> Labels], reason \in [Engines -> Reasons],
         NEW e \in Engines, NEW why \in Reasons, NEW label \in Labels,
         Leave(e, why, label)
  PROVE  pc' \in [Engines -> Labels] /\ reason' \in [Engines -> Reasons]
  BY DEF Leave, Goto

\* A callback appends its message to the log.
LEMMA SendType ==
  ASSUME log \in [Engines -> Seq(Messages)], NEW e \in Engines,
         NEW msg \in Messages, Send(e, msg)
  PROVE  log' \in [Engines -> Seq(Messages)]
  BY DEF Send

\* Every step of a worker keeps the types of Session and Stream.
LEMMA WorkerType ==
  ASSUME TypeInv, NEW e \in Engines, WorkerStep(e) \/ PairStep(e)
  PROVE  SessionTypeOK' /\ StreamInv'
<1> USE DEF TypeInv, TypeOK, Stopped, is_terminated, PumpEnds, MustRelease,
        on_pair_finished
<1> StreamInv
  BY DEF StreamInv
<1>L. Labels = {"unborn", "nothread", "done", "identity", "serverinfo",
        "prompt", "pair", "checkstop", "applist", "launch", "install",
        "reset", "listart", "handshake", "startfail", "ready", "loop",
        "chkterm", "recv", "stop_li", "stop_join", "stop_clear", "release",
        "on_closed"}
  BY DEF Labels, Running, PreCheck, Streaming
<1>1. CASE restore_identity(e)
  BY <1>1, <1>L, GotoType, LeaveType, SendType, SinkOpType
     DEF restore_identity, SessionTypeOK, Reasons, Messages
<1>2. CASE server_info(e)
  BY <1>2, <1>L, GotoType, LeaveType, SendType, SinkOpType
     DEF server_info, SessionTypeOK, Reasons, Messages
<1>3. CASE on_pair_prompt(e)
  BY <1>3, <1>L, GotoType, LeaveType, SendType, SinkOpType
     DEF on_pair_prompt, SessionTypeOK, Reasons, Messages
<1>4. CASE CheckStop(e)
  BY <1>4, <1>L, GotoType, LeaveType, SendType, SinkOpType
     DEF CheckStop, SessionTypeOK, Reasons, Messages
<1>5. CASE app_list(e)
  BY <1>5, <1>L, GotoType, LeaveType, SendType, SinkOpType
     DEF app_list, SessionTypeOK, Reasons, Messages
<1>6. CASE launch(e)
  BY <1>6, <1>L, GotoType, LeaveType, SendType, SinkOpType
     DEF launch, SessionTypeOK, Reasons, Messages
<1>7. CASE StartInstall(e)
  BY <1>7, <1>L, GotoType, LeaveType, SendType, SinkOpType
     DEF StartInstall, SessionTypeOK, Reasons, Messages
<1>8. CASE StartReset(e)
  BY <1>8, <1>L, GotoType, LeaveType, SendType, SinkOpType
     DEF StartReset, SessionTypeOK, Reasons, Messages
<1>9. CASE StartConnection(e)
  BY <1>9, <1>L, GotoType, LeaveType, SendType, StartType
     DEF StartConnection, SessionTypeOK, Reasons, Messages
<1>10. CASE StartReturns(e)
  BY <1>10, <1>L, GotoType, LeaveType, SendType, SinkOpType, DownType
     DEF StartReturns, SessionTypeOK, Reasons, Messages
<1>11. CASE StartFailed(e)
  BY <1>11, <1>L, GotoType, LeaveType, SendType, SinkOpType
     DEF StartFailed, SessionTypeOK, Reasons, Messages
<1>12. CASE on_ready(e)
  BY <1>12, <1>L, GotoType, LeaveType, SendType, SinkOpType
     DEF on_ready, SessionTypeOK, Reasons, Messages
<1>13. CASE PumpCheckStop(e)
  BY <1>13, <1>L, GotoType, LeaveType, SendType, SinkOpType
     DEF PumpCheckStop, SessionTypeOK, Reasons, Messages
<1>14. CASE PumpCheckTerminated(e)
  BY <1>14, <1>L, GotoType, LeaveType, SendType, SinkOpType
     DEF PumpCheckTerminated, SessionTypeOK, Reasons, Messages
<1>15. CASE PumpReceive(e)
  <2>1. shown' \in [Engines -> Seq(VideoUnit)] /\ rx' \in [Engines -> Seq(VideoUnit)]
    <3>1. CASE rx[e] # <<>> /\ shown' = [shown EXCEPT ![e] = Append(@, Head(rx[e]))]
                            /\ rx' = [rx EXCEPT ![e] = Tail(@)]
      <4>1. Head(rx[e]) \in VideoUnit /\ Tail(rx[e]) \in Seq(VideoUnit)
        BY <3>1 DEF StreamTypeOK
      <4> QED
        BY <3>1, <4>1 DEF StreamTypeOK, SessionTypeOK
    <3>2. CASE UNCHANGED <<shown, rx>>
      BY <3>2 DEF StreamTypeOK, SessionTypeOK
    <3> QED
      BY <1>15, <3>1, <3>2 DEF PumpReceive
  <2>2. StreamInv'
    BY <1>15, <2>1 DEF PumpReceive, StreamInv, StreamTypeOK, ConnShape
  <2>3. pc' \in [Engines -> Labels] /\ reason' \in [Engines -> Reasons]
    BY <1>15, <1>L, GotoType, LeaveType DEF PumpReceive, SessionTypeOK, Reasons
  <2> QED
    BY <1>15, <2>1, <2>2, <2>3 DEF PumpReceive, SessionTypeOK
<1>16. CASE WorkerStopBegin(e)
  BY <1>16, <1>L, GotoType, LeaveType, SendType, StopBeginType
     DEF WorkerStopBegin, SessionTypeOK, Reasons, Messages
<1>17. CASE WorkerStopEnd(e)
  BY <1>17, <1>L, GotoType, LeaveType, SendType, DownType
     DEF WorkerStopEnd, SessionTypeOK, Reasons, Messages
<1>18. CASE WorkerStopClear(e)
  BY <1>18, <1>L, GotoType, LeaveType, SendType, SinkOpType
     DEF WorkerStopClear, SessionTypeOK, Reasons, Messages
<1>19. CASE release_host(e)
  BY <1>19, <1>L, GotoType, LeaveType, SendType, SinkOpType
     DEF release_host, SessionTypeOK, Reasons, Messages
<1>20. CASE on_closed(e)
  BY <1>20, <1>L, GotoType, LeaveType, SendType, SinkOpType
     DEF on_closed, SessionTypeOK, Reasons, Messages
<1>21. CASE pair(e)
  BY <1>21, <1>L, GotoType, LeaveType, SendType, SinkOpType
     DEF pair, SessionTypeOK, Reasons, Messages
<1>22. CASE PairPanics(e)
  BY <1>22, <1>L, GotoType, LeaveType, SendType, SinkOpType
     DEF PairPanics, SessionTypeOK, Reasons, Messages
<1> QED
  BY <1>1, <1>2, <1>3, <1>4, <1>5, <1>6, <1>7, <1>8, <1>9, <1>10, <1>11, <1>12, <1>13, <1>14, <1>15, <1>16, <1>17, <1>18, <1>19, <1>20, <1>21, <1>22 DEF WorkerStep, PairStep

\* Every callback of the C library keeps the types of Session and Stream.
LEMMA LibraryType ==
  ASSUME TypeInv, Callback \/ DecoderStep
  PROVE  SessionTypeOK' /\ StreamInv'
<1> StreamInv
  BY DEF StreamInv, TypeInv, TypeOK
<1>1. CASE Callback
  <2>1. StreamInv'
    BY <1>1, SetupType, UnitType, LostType DEF Callback, Terminated
  <2> QED
    BY <1>1, <2>1
       DEF Callback, Terminated, sessionVars, TypeInv, TypeOK, SessionTypeOK
<1>2. CASE DecoderStep
  BY <1>2, SubmitType
     DEF DecoderStep, sessionVars, TypeInv, TypeOK, SessionTypeOK
<1> QED
  BY <1>1, <1>2

-----------------------------------------------------------------------------
(* The main thread.                                                        *)

MainInv == MainTypeOK /\ MainShape

\* The main thread takes an engine in hand and enters close().
LEMMA ClosingType ==
  ASSUME MainInv, NEW e \in Engines, NEW n \in 1..2,
         NEW label \in {"loop", "drain", "unwind"}, StartClosing(e, n, label),
         sessions' \in [Ids -> Engines \cup {None}],
         UNCHANGED <<mId, exitCode>>
  PROVE  MainInv'
  BY StreamAssumption
     DEF MainInv, MainTypeOK, MainShape, StartClosing, MainLabels, Closing

\* An entry of the map is taken out, to be closed.
LEMMA EntryType ==
  ASSUME MainInv, NEW n \in 1..2, mpc \in {"drain", "unwind"}, TakeEntry(n),
         UNCHANGED <<mId, exitCode>>
  PROVE  MainInv'
<1>1. PICK id \in Ids :
        /\ sessions[id] # None
        /\ sessions' = [sessions EXCEPT ![id] = None]
        /\ StartClosing(sessions[id], n, mpc)
  BY DEF TakeEntry
<1>2. sessions[id] \in Engines /\ sessions' \in [Ids -> Engines \cup {None}]
  BY <1>1 DEF MainInv, MainTypeOK
<1> QED
  BY <1>1, <1>2, ClosingType DEF MainInv, MainTypeOK

\* A host message or a step of the main thread keeps TypeInv.
LEMMA MainType ==
  ASSUME TypeInv, HostMessage \/ MainStep \/ Exited
  PROVE  TypeInv'
<1> StreamInv /\ MainInv /\ SessionTypeOK
  BY DEF StreamInv, MainInv, TypeInv, TypeOK
<1>P. pipeFull' \in BOOLEAN
  BY DEF HostMessage, MainStep, Exited, vars, TypeInv, TypeOK
<1> SUFFICES StreamInv' /\ MainInv' /\ SessionTypeOK'
  BY <1>P DEF StreamInv, MainInv, TypeInv, TypeOK
<1>F. ASSUME UNCHANGED <<streamVars, sessionVars>>
      PROVE  StreamInv' /\ SessionTypeOK'
  BY <1>F DEF StreamInv, StreamTypeOK, ConnShape, streamVars, SessionTypeOK,
              sessionVars
<1>S. ASSUME UNCHANGED sessionVars
      PROVE  SessionTypeOK'
  BY <1>S DEF SessionTypeOK, sessionVars
<1> USE DEF MainLabels, Closing
<1>1. CASE HelloAccepted
  BY <1>1, <1>F DEF HelloAccepted, MainInv, MainTypeOK, MainShape
<1>2. CASE HelloRefused
  BY <1>2, <1>F DEF HelloRefused, ErrorCode, MainInv, MainTypeOK, MainShape
<1>3. ASSUME NEW id \in Ids, NEW e \in Engines, NEW codec \in DocCodecs,
             Connect(id, e, codec)
      PROVE  StreamInv' /\ MainInv' /\ SessionTypeOK'
  <2>1. StreamInv'
    BY <1>3 DEF Connect, StreamInv, StreamTypeOK, ConnShape, streamVars
  <2>2. MainInv'
    BY <1>3, StreamAssumption DEF Connect, MainInv, MainTypeOK, MainShape
  <2>3. pc' \in [Engines -> Labels]
    BY <1>3, GotoType DEF Connect, SessionTypeOK, Labels, Running, PreCheck
  <2>4. wanted' \in [Engines -> Codecs]
    BY <1>3, SidecarAssumption DEF Connect, SessionTypeOK
  <2> QED
    BY <1>3, <2>1, <2>2, <2>3, <2>4 DEF Connect, SessionTypeOK
<1>4. CASE Insert
  <2>1. mEng \in Engines /\ sessions' \in [Ids -> Engines \cup {None}]
    BY <1>4 DEF Insert, MainInv, MainTypeOK, MainShape
  <2>2. CASE sessions[mId] = None
    BY <1>4, <2>1, <2>2, <1>F DEF Insert, MainInv, MainTypeOK, MainShape
  <2>3. CASE sessions[mId] # None
    <3>1. sessions[mId] \in Engines
      BY <2>3 DEF MainInv, MainTypeOK
    <3>2. StartClosing(sessions[mId], 1, "loop") /\ UNCHANGED <<mId, exitCode>>
      BY <1>4, <2>3 DEF Insert
    <3> QED
      BY <1>4, <2>1, <3>1, <3>2, ClosingType, <1>F DEF Insert
  <2> QED
    BY <2>2, <2>3
<1>5. ASSUME NEW id \in Ids, CloseMsg(id)
      PROVE  StreamInv' /\ MainInv' /\ SessionTypeOK'
  <2>1. sessions[id] \in Engines /\ sessions' \in [Ids -> Engines \cup {None}]
    BY <1>5 DEF CloseMsg, MainInv, MainTypeOK
  <2> QED
    BY <1>5, <2>1, ClosingType, <1>F DEF CloseMsg
<1>6. CASE Ignored \/ Exited
  BY <1>6, <1>F
     DEF Ignored, Exited, vars, mainVars, MainInv, MainTypeOK, MainShape
<1>7. CASE Shutdown
  BY <1>7, <1>F DEF Shutdown, MainInv, MainTypeOK, MainShape
<1>8. CASE ProtocolError
  BY <1>8, <1>F DEF ProtocolError, MainInv, MainTypeOK, MainShape
<1>9. CASE CloseLi
  <2>1. StreamInv'
    BY <1>9, StopBeginType DEF CloseLi
  <2> QED
    BY <1>9, <2>1, <1>S DEF CloseLi, MainInv, MainTypeOK, MainShape
<1>10. CASE CloseJoin
  <2>1. mEng \in Engines
    BY <1>10 DEF CloseJoin, MainInv, MainTypeOK, MainShape
  <2>2. StreamInv'
    BY <1>10, <2>1, DownType DEF CloseJoin
  <2> QED
    BY <1>10, <2>2, <1>S DEF CloseJoin, MainInv, MainTypeOK, MainShape
<1>11. CASE CloseClear
  <2>1. mEng \in Engines
    BY <1>11 DEF CloseClear, MainInv, MainTypeOK, MainShape
  <2>2. StreamInv'
    BY <1>11, <2>1, SinkOpType DEF CloseClear
  <2> QED
    BY <1>11, <2>2, <1>S DEF CloseClear, MainInv, MainTypeOK, MainShape
<1>12. CASE CloseFlag
  <2>1. mEng \in Engines /\ mPasses \in 1..2
    BY <1>12 DEF CloseFlag, MainInv, MainTypeOK, MainShape
  <2>2. MainInv'
    BY <1>12, <2>1, StreamAssumption
       DEF CloseFlag, MainInv, MainTypeOK, MainShape
  <2>3. SessionTypeOK'
    BY <1>12, <2>1 DEF CloseFlag, SessionTypeOK
  <2> QED
    BY <1>12, <2>2, <2>3
       DEF CloseFlag, StreamInv, StreamTypeOK, ConnShape, streamVars
<1>13. CASE Drain
  <2>1. CASE TakeEntry(2) /\ UNCHANGED exitCode
    BY <1>13, <2>1, EntryType, <1>F DEF Drain
  <2>2. CASE Exit(0) /\ UNCHANGED <<sessions, mEng, mPasses, mBack>>
    BY <1>13, <2>2, <1>F DEF Drain, Exit, MainInv, MainTypeOK, MainShape
  <2> QED
    BY <1>13, <2>1, <2>2 DEF Drain
<1>14. CASE Unwind
  <2>1. CASE TakeEntry(1) /\ UNCHANGED exitCode
    BY <1>14, <2>1, EntryType, <1>F DEF Unwind
  <2>2. CASE Exit(ErrorCode) /\ UNCHANGED <<sessions, mEng, mPasses, mBack>>
    BY <1>14, <2>2, <1>F
       DEF Unwind, Exit, ErrorCode, MainInv, MainTypeOK, MainShape
  <2> QED
    BY <1>14, <2>1, <2>2 DEF Unwind
<1> QED
  BY <1>1, <1>2, <1>3, <1>4, <1>5, <1>6, <1>7, <1>8, <1>9, <1>10, <1>11,
     <1>12, <1>13, <1>14 DEF HostMessage, MainStep

-----------------------------------------------------------------------------
\* TypeInv holds initially.
LEMMA TypeInvInit == Init => TypeInv
<1> SUFFICES ASSUME Init PROVE TypeInv
  OBVIOUS
<1> USE DEF Init
<1>1. StreamTypeOK
  <2>1. rx \in [Engines -> Seq(VideoUnit)] /\ conn \in Connection
    BY NoConnType DEF StreamInit
  <2> QED
    BY <2>1 DEF StreamInit, StreamTypeOK, Codecs
<1>2. SessionTypeOK
  BY DEF SessionInit, SessionTypeOK, Labels, Reasons, Codecs
<1>3. MainTypeOK /\ MainShape
  BY DEF MainTypeOK, MainLabels, MainShape, Closing
<1>4. ConnShape
  BY DEF StreamInit, ConnShape, NoConn
<1> QED
  BY <1>1, <1>2, <1>3, <1>4 DEF TypeInv, TypeOK

\* TypeInv is inductive, for every host.
LEMMA TypeInvStep == TypeInv /\ [Next]_vars => TypeInv'
<1> SUFFICES ASSUME TypeInv, [Next]_vars PROVE TypeInv'
  OBVIOUS
<1>1. CASE HostMessage \/ MainStep \/ Exited
  BY <1>1, MainType
<1>2. ASSUME SessionTypeOK', StreamInv', UNCHANGED mainVars, pipeFull' \in BOOLEAN
      PROVE  TypeInv'
  BY <1>2 DEF TypeInv, TypeOK, MainTypeOK, MainShape, mainVars, StreamInv
<1>3. ASSUME NEW e \in Engines, Worker(e) \/ Pairing(e)
      PROVE  TypeInv'
  BY <1>2, <1>3, WorkerType DEF Worker, Pairing, Beside, TypeInv, TypeOK
<1>4. CASE Library \/ Submit
  BY <1>2, <1>4, LibraryType DEF Library, Submit, Beside, TypeInv, TypeOK
<1>5. CASE Pipe \/ UNCHANGED vars
  <2>1. UNCHANGED <<streamVars, sessionVars, mainVars>> /\ pipeFull' \in BOOLEAN
    BY <1>5 DEF Pipe, PipeFills, PipeDrains, vars, TypeInv, TypeOK
  <2> QED
    BY <2>1 DEF streamVars, sessionVars, mainVars, TypeInv, TypeOK,
                StreamTypeOK, SessionTypeOK, MainTypeOK, MainShape, ConnShape
<1> QED
  BY <1>1, <1>3, <1>4, <1>5 DEF Next

\* Whatever its host does, the sidecar's variables only ever hold values of
\* their types: the worker's labels and messages, the C library's connection,
\* the map, the exit code.
THEOREM TypeCorrect == Spec => []TypeOK
<1>1. TypeInv => TypeOK
  BY DEF TypeInv
<1> QED
  BY TypeInvInit, TypeInvStep, <1>1, PTL DEF Spec

-----------------------------------------------------------------------------
(* What one worker's step leaves alone.                                    *)

\* Engine e's worker moved, and nobody else.
Moves(e) ==
    /\ pc[e] \in Running
    /\ \E label \in Running \cup {"done"} : Goto(e, label)
    /\ UNCHANGED stop
    /\ \A f \in Engines \ {e} : log'[f] = log[f] /\ reason'[f] = reason[f]
    /\ conn'.owner \in {conn.owner, e, None}

\* The worker's messages: the closing one is its last step.
Speaks(e) ==
    \/ UNCHANGED log
    \/ \E msg \in Messages :
         Send(e, msg) /\ (msg \in ClosedMessages => pc'[e] = "done")

\* A step of a worker moves that worker only.
LEMMA WorkerMoves ==
  ASSUME TypeInv, NEW e \in Engines, WorkerStep(e) \/ PairStep(e)
  PROVE  Moves(e) /\ Speaks(e)
<1> USE DEF TypeInv, TypeOK, StreamTypeOK, SessionTypeOK
<1>R. Running = {"identity", "serverinfo",
        "prompt", "pair", "checkstop", "applist", "launch", "install",
        "reset", "listart", "handshake", "startfail", "ready", "loop",
        "chkterm", "recv", "stop_li", "stop_join", "stop_clear", "release",
        "on_closed"}
  BY DEF Running, PreCheck, Streaming
<1> USE DEF Moves, Speaks, Goto, Leave, Send, Messages, ClosedMessages,
        Stopped, is_terminated, PumpEnds, MustRelease, on_pair_finished
<1>1. CASE restore_identity(e)
  BY <1>1, <1>R DEF restore_identity, streamVars
<1>2. CASE server_info(e)
  BY <1>2, <1>R DEF server_info, streamVars
<1>3. CASE on_pair_prompt(e)
  BY <1>3, <1>R DEF on_pair_prompt, streamVars
<1>4. CASE pair(e)
  BY <1>4, <1>R DEF pair, streamVars
<1>5. CASE PairPanics(e)
  BY <1>5, <1>R DEF PairPanics, streamVars
<1>6. CASE CheckStop(e)
  BY <1>6, <1>R DEF CheckStop, streamVars
<1>7. CASE app_list(e)
  BY <1>7, <1>R DEF app_list, streamVars
<1>8. CASE launch(e)
  BY <1>8, <1>R DEF launch, streamVars
<1>9. CASE StartInstall(e)
  BY <1>9, <1>R DEF StartInstall, InstallSink
<1>10. CASE StartReset(e)
  BY <1>10, <1>R DEF StartReset, ResetTerminated
<1>11. CASE StartConnection(e)
  BY <1>11, <1>R DEF StartConnection, LiStartConnection
<1>12. CASE StartReturns(e)
  BY <1>12, <1>R DEF StartReturns, LiStartSucceeds, LiStartFails, streamVars, NoConn, StillMine
<1>13. CASE StartFailed(e)
  BY <1>13, <1>R DEF StartFailed, DropSink
<1>14. CASE on_ready(e)
  BY <1>14, <1>R DEF on_ready, streamVars
<1>15. CASE PumpCheckStop(e)
  BY <1>15, <1>R DEF PumpCheckStop, streamVars
<1>16. CASE PumpCheckTerminated(e)
  BY <1>16, <1>R DEF PumpCheckTerminated, streamVars
<1>17. CASE PumpReceive(e)
  BY <1>17, <1>R DEF PumpReceive
<1>18. CASE WorkerStopBegin(e)
  BY <1>18, <1>R DEF WorkerStopBegin, LiStopBegin, Connection
<1>19. CASE WorkerStopEnd(e)
  BY <1>19, <1>R DEF WorkerStopEnd, LiStopEnd, NoConn
<1>20. CASE WorkerStopClear(e)
  BY <1>20, <1>R DEF WorkerStopClear, DropSink
<1>21. CASE release_host(e)
  BY <1>21, <1>R DEF release_host, streamVars
<1>22. CASE on_closed(e)
  BY <1>22, <1>R DEF on_closed, streamVars
<1> QED
  BY <1>1, <1>2, <1>3, <1>4, <1>5, <1>6, <1>7, <1>8, <1>9, <1>10, <1>11, <1>12, <1>13, <1>14, <1>15, <1>16, <1>17, <1>18, <1>19, <1>20, <1>21, <1>22 DEF WorkerStep, PairStep
=============================================================================
