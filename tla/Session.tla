------------------------------ MODULE Session ------------------------------
(***************************************************************************)
(* One engine: the worker thread of a MoonlightSession, that is            *)
(* connect_with_doc's closure and run_moonlight (session.rs), the stop     *)
(* flag of WorkerHandle (host.rs), the calls it makes to the Sunshine host *)
(* (nvhttp.rs) and to the streaming layer (module Stream).                 *)
(*                                                                         *)
(* pc[e] names the call the worker is about to make.  Every shared access  *)
(* (stop, TERMINATED, VIDEO_SINK, the channel, the C library) and every    *)
(* blocking call is a step of its own, so that the main thread and the C   *)
(* library's callbacks interleave with it as they can in the process.      *)
(***************************************************************************)
EXTENDS Stream

CONSTANT PairStates    \* the answers `paired` /serverinfo may give

ASSUME SessionAssumption == PairStates \subseteq BOOLEAN

VARIABLES
    pc,        \* pc[e]: where the worker of engine e is
    stop,      \* WorkerHandle.stop
    reason,    \* what run_moonlight returned (see on_closed)
    log,       \* log[e]: the control messages the callbacks sent, in order
    shown,     \* shown[e]: the units handed to frame_sink, in order
    wanted,    \* doc.use_hevc, as the codec it asks for
    busy,      \* the engine Sunshine holds a video session for, or None
    netfail    \* history: the reply to /launch, or /cancel itself, was lost

sessionVars == <<pc, stop, reason, log, shown, wanted, busy, netfail>>

\* Labels before the only look at the stop flag ahead of /launch ...
PreCheck == {"identity", "serverinfo", "prompt", "pair", "checkstop"}
\* ... from the first effect of start_stream to the last of stop_stream ...
Streaming == {"reset", "listart", "handshake", "startfail", "ready", "loop",
              "chkterm", "recv", "stop_li", "stop_join", "stop_clear"}
\* ... and the frame pump's own.
Pumping == {"loop", "chkterm", "recv"}
\* The thread exists.
Running == PreCheck \cup {"applist", "launch", "install"} \cup Streaming
             \cup {"release", "on_closed"}
Labels == Running \cup {"unborn", "nothread", "done"}

Reasons == {"none", "ended", "error", "terminated", "panic"}
Messages == {"identity", "pairPrompt", "pairFinished", "sessionReady",
             "sessionClosed", "sessionClosedError"}
ClosedMessages == {"sessionClosed", "sessionClosedError"}

SessionTypeOK ==
    /\ pc \in [Engines -> Labels]
    /\ stop \in [Engines -> BOOLEAN]
    /\ reason \in [Engines -> Reasons]
    /\ log \in [Engines -> Seq(Messages)]
    /\ shown \in [Engines -> Seq(VideoUnit)]
    /\ wanted \in [Engines -> Codecs]
    /\ busy \in Engines \cup {None}
    /\ netfail \in [Engines -> BOOLEAN]

SessionInit ==
    /\ pc = [e \in Engines |-> "unborn"]
    /\ stop = [e \in Engines |-> FALSE]
    /\ reason = [e \in Engines |-> "none"]
    /\ log = [e \in Engines |-> <<>>]
    /\ shown = [e \in Engines |-> <<>>]
    /\ wanted = [e \in Engines |-> "h264"]
    /\ busy = None
    /\ netfail = [e \in Engines |-> FALSE]

\* The host has been told that the session is over.
ToldClosed(e) == \E i \in 1..Len(log[e]) : log[e][i] \in ClosedMessages

-----------------------------------------------------------------------------
(* How a step of the worker ends.                                          *)

Goto(e, label) == pc' = [pc EXCEPT ![e] = label]
Send(e, msg) == log' = [log EXCEPT ![e] = Append(@, msg)]

\* run_moonlight is going to return; label is what is left to do first.
Leave(e, why, label) ==
    /\ reason' = [reason EXCEPT ![e] = why]
    /\ Goto(e, label)

\* Mutant: the flag is not looked at.
BugStopped(e) == FALSE

Stopped(e) == stop[e]

-----------------------------------------------------------------------------
(* Before the stream.                                                      *)

\* restore_identity, else MoonlightIdentity::generate and the identity event;
\* then the tokio runtime.  Generating and building the runtime may fail.
restore_identity(e) ==
    /\ pc[e] = "identity"
    /\ \E learned, ok \in BOOLEAN :
         /\ IF learned THEN Send(e, "identity") ELSE UNCHANGED log
         /\ IF ok THEN Goto(e, "serverinfo") /\ UNCHANGED reason
                  ELSE Leave(e, "error", "on_closed")
    /\ UNCHANGED <<stop, shown, wanted, busy, netfail, streamVars>>

\* server_info_https, or server_info over plain HTTP (always "unpaired").
\* Both may fail; building the plain client may panic.
server_info(e) ==
    /\ pc[e] = "serverinfo"
    /\ \/ \E paired \in PairStates :
            /\ Goto(e, IF paired THEN "checkstop" ELSE "prompt")
            /\ UNCHANGED reason
       \/ \E why \in {"error", "panic"} : Leave(e, why, "on_closed")
    /\ UNCHANGED <<stop, log, shown, wanted, busy, netfail, streamVars>>

on_pair_prompt(e) ==
    /\ pc[e] = "prompt"
    /\ Send(e, "pairPrompt")
    /\ Goto(e, "pair")
    /\ UNCHANGED <<stop, reason, shown, wanted, busy, netfail, streamVars>>

\* Mutant: the end of the pairing is not reported.
BugOn_pair_finished(e) == UNCHANGED log

on_pair_finished(e) == Send(e, "pairFinished")

\* The four phases of PairingClient::pair; phase 1 is answered when the user
\* has typed the PIN.
pair(e) ==
    /\ pc[e] = "pair"
    /\ on_pair_finished(e)
    /\ \/ Goto(e, "checkstop") /\ UNCHANGED reason
       \/ Leave(e, "error", "on_closed")
    /\ UNCHANGED <<stop, shown, wanted, busy, netfail, streamVars>>

\* PairingClient::new cannot build its client and panics: no pairFinished.
PairPanics(e) ==
    /\ pc[e] = "pair"
    /\ Leave(e, "panic", "on_closed")
    /\ UNCHANGED <<stop, log, shown, wanted, busy, netfail, streamVars>>

CheckStop(e) ==
    /\ pc[e] = "checkstop"
    /\ IF Stopped(e) THEN Leave(e, "ended", "on_closed")
                     ELSE Goto(e, "applist") /\ UNCHANGED reason
    /\ UNCHANGED <<stop, log, shown, wanted, busy, netfail, streamVars>>

\* What app_list makes of the reply to /applist: the apps with a title and a
\* number, if there are any, or an error (no reply, or not a 200).
AppListReplies == {"apps", "none", "error"}

\* "Desktop", or the first app; a host without one is an error too.
app_list(e) ==
    /\ pc[e] = "applist"
    /\ \E reply \in AppListReplies :
         IF reply = "apps" THEN Goto(e, "launch") /\ UNCHANGED reason
                           ELSE Leave(e, "error", "on_closed")
    /\ UNCHANGED <<stop, log, shown, wanted, busy, netfail, streamVars>>

\* /launch.  Sunshine allocates (or resumes) a video session or refuses; a
\* 200 with gamesession or resume says that it did, and may be lost.
LaunchReply(allocated, ok) == ok => allocated

launch(e) ==
    /\ pc[e] = "launch"
    /\ \E allocated, ok \in BOOLEAN :
         /\ LaunchReply(allocated, ok)
         /\ busy' = IF allocated THEN e ELSE busy
         /\ netfail' = [netfail EXCEPT ![e] = allocated /\ ~ok]
         /\ IF ok THEN Goto(e, "install") /\ UNCHANGED reason
                  ELSE Leave(e, "error", "on_closed")
    /\ UNCHANGED <<stop, log, shown, wanted, streamVars>>

-----------------------------------------------------------------------------
(* start_stream                                                            *)

StartInstall(e) ==
    /\ pc[e] = "install"
    /\ InstallSink(e)
    /\ Goto(e, "reset")
    /\ UNCHANGED <<stop, reason, log, shown, wanted, busy, netfail>>

\* TERMINATED is cleared; a NUL in one of the strings ends start_stream here,
\* with the sink still installed.
StartReset(e) ==
    /\ pc[e] = "reset"
    /\ ResetTerminated
    /\ \/ Goto(e, "listart") /\ UNCHANGED reason
       \/ Leave(e, "error", "release")
    /\ UNCHANGED <<stop, log, shown, wanted, busy, netfail>>

StartConnection(e) ==
    /\ pc[e] = "listart"
    /\ LiStartConnection(e, wanted[e])
    /\ Goto(e, "handshake")
    /\ UNCHANGED <<stop, reason, log, shown, wanted, busy, netfail>>

StartReturns(e) ==
    /\ pc[e] = "handshake"
    /\ \/ LiStartSucceeds(e) /\ Goto(e, "ready")
       \/ LiStartFails(e) /\ Goto(e, "startfail")
    /\ UNCHANGED <<stop, reason, log, shown, wanted, busy, netfail>>

StartFailed(e) ==
    /\ pc[e] = "startfail"
    /\ DropSink
    /\ Leave(e, "error", "release")
    /\ UNCHANGED <<stop, log, shown, wanted, busy, netfail>>

-----------------------------------------------------------------------------
(* The frame pump                                                          *)

on_ready(e) ==
    /\ pc[e] = "ready"
    /\ Send(e, "sessionReady")
    /\ Goto(e, "loop")
    /\ UNCHANGED <<stop, reason, shown, wanted, busy, netfail, streamVars>>

\* Mutant: a terminated stream is reported like a stopped one.
BugPumpEnds(e, why) == Leave(e, "ended", "stop_li")

\* Mutant: a stream that ended at the other end is not torn down on this side.
BugNoStop(e, why) == Leave(e, why, IF why = "ended" THEN "stop_li" ELSE "on_closed")

\* Mutant: a stopped pump leaves the stream to the close() that stopped it.
BugStopLeavesStream(e, why) == Leave(e, why, IF why = "ended" THEN "release" ELSE "stop_li")

\* The pump's `break`s: stop_stream comes next, whatever ended the loop.
PumpEnds(e, why) == Leave(e, why, "stop_li")

PumpCheckStop(e) ==
    /\ pc[e] = "loop"
    /\ IF Stopped(e) THEN PumpEnds(e, "ended")
                     ELSE Goto(e, "chkterm") /\ UNCHANGED reason
    /\ UNCHANGED <<stop, log, shown, wanted, busy, netfail, streamVars>>

PumpCheckTerminated(e) ==
    /\ pc[e] = "chkterm"
    /\ IF is_terminated THEN PumpEnds(e, "terminated")
                        ELSE Goto(e, "recv") /\ UNCHANGED reason
    /\ UNCHANGED <<stop, log, shown, wanted, busy, netfail, streamVars>>

\* recv_timeout: a unit, or 100 ms without one, or every Sender is gone.
\* The one Sender of the channel lives in VIDEO_SINK.
PumpReceive(e) ==
    /\ pc[e] = "recv"
    /\ \/ /\ rx[e] # <<>>
          /\ shown' = [shown EXCEPT ![e] = Append(@, Head(rx[e]))]
          /\ rx' = [rx EXCEPT ![e] = Tail(@)]
          /\ Goto(e, "loop")
          /\ UNCHANGED reason
       \/ /\ rx[e] = <<>> /\ VIDEO_SINK = e
          /\ Goto(e, "loop")
          /\ UNCHANGED <<reason, shown, rx>>
       \/ /\ rx[e] = <<>> /\ VIDEO_SINK # e
          /\ PumpEnds(e, "ended")
          /\ UNCHANGED <<shown, rx>>
    /\ UNCHANGED <<VIDEO_SINK, NEGOTIATED_FORMAT, TERMINATED, conn, decoder,
                   stop, log, wanted, busy, netfail>>

-----------------------------------------------------------------------------
(* The worker's own stop_stream, release_host and on_closed                *)

WorkerStopBegin(e) ==
    /\ pc[e] = "stop_li"
    /\ LiStopBegin
    /\ Goto(e, "stop_join")
    /\ UNCHANGED <<stop, reason, log, shown, wanted, busy, netfail>>

WorkerStopEnd(e) ==
    /\ pc[e] = "stop_join"
    /\ LiStopEnd
    /\ Goto(e, "stop_clear")
    /\ UNCHANGED <<stop, reason, log, shown, wanted, busy, netfail>>

\* Mutant: only a session that failed is released.
BugMustRelease(e) == reason[e] = "error"

\* A session the host ended itself is not cancelled.
MustRelease(e) == reason[e] # "terminated"

\* Mutant: the end is reported before release_host.
BugWorkerStopClear(e) ==
    /\ pc[e] = "stop_clear"
    /\ DropSink
    /\ Send(e, IF reason[e] = "ended" THEN "sessionClosed" ELSE "sessionClosedError")
    /\ Goto(e, IF MustRelease(e) THEN "release" ELSE "done")
    /\ UNCHANGED <<stop, reason, shown, wanted, busy, netfail>>

WorkerStopClear(e) ==
    /\ pc[e] = "stop_clear"
    /\ DropSink
    /\ Goto(e, IF MustRelease(e) THEN "release" ELSE "on_closed")
    /\ UNCHANGED <<stop, reason, log, shown, wanted, busy, netfail>>

\* /cancel ends whatever session Sunshine holds; a failure is only logged.
release_host(e) ==
    /\ pc[e] = "release"
    /\ \E reached \in BOOLEAN :
         /\ busy' = IF reached THEN None ELSE busy
         /\ netfail' = [netfail EXCEPT ![e] = @ \/ ~reached]
    /\ Goto(e, "on_closed")
    /\ UNCHANGED <<stop, reason, log, shown, wanted, streamVars>>

\* "session ended" becomes a sessionClosed without an error.
on_closed(e) ==
    /\ pc[e] = "on_closed"
    /\ Send(e, IF reason[e] = "ended" THEN "sessionClosed"
                                      ELSE "sessionClosedError")
    /\ Goto(e, "done")
    /\ UNCHANGED <<stop, reason, shown, wanted, busy, netfail, streamVars>>

-----------------------------------------------------------------------------
\* Every step but the answer of /pair, which waits for a person.
WorkerStep(e) ==
    \/ restore_identity(e) \/ server_info(e) \/ on_pair_prompt(e)
    \/ CheckStop(e) \/ app_list(e) \/ launch(e)
    \/ StartInstall(e) \/ StartReset(e) \/ StartConnection(e)
    \/ StartReturns(e) \/ StartFailed(e)
    \/ on_ready(e) \/ PumpCheckStop(e) \/ PumpCheckTerminated(e)
    \/ PumpReceive(e)
    \/ WorkerStopBegin(e) \/ WorkerStopEnd(e) \/ WorkerStopClear(e)
    \/ release_host(e) \/ on_closed(e)

PairStep(e) == pair(e) \/ PairPanics(e)

\* The callbacks of the C library; a connection the Sunshine host ended has
\* no video session left there, one that broke down still has.
Terminated ==
    /\ cl_connection_terminated
    /\ \E gone \in BOOLEAN : busy' = IF gone THEN None ELSE busy
    /\ UNCHANGED <<pc, stop, reason, log, shown, wanted, netfail>>

Callback ==
    \/ (dr_setup \/ NextDecodeUnit) /\ UNCHANGED sessionVars
    \/ Terminated

DecoderStep == dr_submit /\ UNCHANGED sessionVars
=============================================================================
