------------------------------- MODULE Stream -------------------------------
(***************************************************************************)
(* The process-global streaming layer (crates/moonlight-core/src/stream.rs)*)
(* and, as far as stream.rs uses it, the C library moonlight-common-c.     *)
(*                                                                         *)
(* The three Rust statics keep their names.  The C library keeps ONE       *)
(* connection in file-scope globals (PROTOCOL.md, "Lifecycle"): conn.      *)
(* Its decoder thread calls dr_submit; decoder is the access unit that     *)
(* thread is carrying, from the moment the unit is complete until          *)
(* dr_submit has looked at VIDEO_SINK.                                     *)
(*                                                                         *)
(* An "engine" is one MoonlightSession object with its worker thread.      *)
(***************************************************************************)
EXTENDS Naturals, Sequences

CONSTANTS Engines,     \* the MoonlightSession objects a process may create
          None,        \* Option::None
          MaxFrames    \* bound: access units one connection delivers

ASSUME StreamAssumption ==
    /\ None \notin Engines
    /\ MaxFrames \in Nat

Codecs == {"h264", "hevc"}                                \* VideoCodec

VARIABLES
    VIDEO_SINK,          \* the engine whose Sender is installed, or None
    NEGOTIATED_FORMAT,   \* what dr_setup stored last
    TERMINATED,          \* set by cl_connection_terminated
    rx,                  \* rx[e]: the units queued in engine e's channel
    conn,                \* the C library's single connection
    decoder              \* the unit inside the decoder callback, or None

streamVars == <<VIDEO_SINK, NEGOTIATED_FORMAT, TERMINATED, rx, conn, decoder>>

\* One access unit: the engine whose connection produced it, its number on
\* that connection (number 1 is the IDR a decoder starts from), its codec tag.
VideoUnit == [from : Engines, n : 1..MaxFrames, codec : Codecs]
DecodeUnit == [from : Engines, n : 1..MaxFrames]
ASSUME UnitAssumption == None \notin DecodeUnit


ConnStates == {"down", "starting", "streaming", "lost", "stopping"}
Connection == [st : ConnStates, owner : Engines \cup {None}, fmt : Codecs,
               n : 0..MaxFrames]
NoConn == [st |-> "down", owner |-> None, fmt |-> "h264", n |-> 0]

StreamTypeOK ==
    /\ VIDEO_SINK \in Engines \cup {None}
    /\ NEGOTIATED_FORMAT \in Codecs
    /\ TERMINATED \in BOOLEAN
    /\ rx \in [Engines -> Seq(VideoUnit)]
    /\ conn \in Connection
    /\ decoder \in DecodeUnit \cup {None}

StreamInit ==
    /\ VIDEO_SINK = None
    /\ NEGOTIATED_FORMAT = "h264"
    /\ TERMINATED = FALSE
    /\ rx = [e \in Engines |-> <<>>]
    /\ conn = NoConn
    /\ decoder = None

-----------------------------------------------------------------------------
(* start_stream, in the order of its effects.  The worker thread of engine *)
(* e runs them one after the other; anything may interleave.               *)

\* *VIDEO_SINK = Some(sink): dropping the Sender that was there before
\* disconnects the engine it belonged to.
InstallSink(e) ==
    /\ VIDEO_SINK' = e
    /\ UNCHANGED <<NEGOTIATED_FORMAT, TERMINATED, rx, conn, decoder>>

\* Mutant: the flag an earlier connection left behind is not cleared.
BugResetTerminated == UNCHANGED streamVars

ResetTerminated ==
    /\ TERMINATED' = FALSE
    /\ UNCHANGED <<VIDEO_SINK, NEGOTIATED_FORMAT, rx, conn, decoder>>

\* Mutant: the pump's view of the flag is stuck.
BugIs_terminated == FALSE

is_terminated == TERMINATED

\* LiStartConnection is entered: it overwrites the C globals with this
\* engine's addresses, formats and callbacks, whatever was there.
LiStartConnection(e, fmt) ==
    /\ conn' = [st |-> "starting", owner |-> e, fmt |-> fmt, n |-> 0]
    /\ UNCHANGED <<VIDEO_SINK, NEGOTIATED_FORMAT, TERMINATED, rx, decoder>>

\* The connection LiStartConnection is bringing up is still engine e's.
StillMine(e) == conn.owner = e /\ conn.st \in {"starting", "streaming", "lost"}

\* LiStartConnection returns 0.  When somebody else stopped or overwrote the
\* connection meanwhile the return code is whatever the race leaves.
LiStartSucceeds(e) ==
    /\ StillMine(e) => conn.st \in {"streaming", "lost"}
    /\ UNCHANGED streamVars

\* LiStartConnection fails: it has torn its own stages down.
LiStartFails(e) ==
    /\ IF StillMine(e) THEN decoder = None /\ conn' = NoConn
                       ELSE UNCHANGED conn
    /\ UNCHANGED <<VIDEO_SINK, NEGOTIATED_FORMAT, TERMINATED, rx, decoder>>

\* *VIDEO_SINK = None: the error path of start_stream, and the second half
\* of stop_stream.
DropSink ==
    /\ VIDEO_SINK' = None
    /\ UNCHANGED <<NEGOTIATED_FORMAT, TERMINATED, rx, conn, decoder>>

-----------------------------------------------------------------------------
(* stop_stream = LiStopConnection; DropSink.  LiStopConnection first makes *)
(* the library stop producing, then joins the decoder thread.              *)

LiStopBegin ==
    /\ conn' = IF conn.st = "down" THEN conn
                                   ELSE [conn EXCEPT !.st = "stopping"]
    /\ UNCHANGED <<VIDEO_SINK, NEGOTIATED_FORMAT, TERMINATED, rx, decoder>>

LiStopEnd ==
    /\ decoder = None
    /\ conn' = NoConn
    /\ UNCHANGED <<VIDEO_SINK, NEGOTIATED_FORMAT, TERMINATED, rx, decoder>>

-----------------------------------------------------------------------------
(* Callbacks, on the C library's threads.                                  *)

\* Mutant: the format the library chose is taken for the default one.
BugNegotiated == "h264"

\* The codec of the format the library reports: everything that is not an
\* HEVC format is H.264.
Negotiated == conn.fmt

dr_setup ==
    /\ conn.st = "starting"
    /\ NEGOTIATED_FORMAT' = Negotiated
    /\ conn' = [conn EXCEPT !.st = "streaming"]
    /\ UNCHANGED <<VIDEO_SINK, TERMINATED, rx, decoder>>

\* The library completes an access unit and its decoder thread picks it up.
\* Video may flow before LiStartConnection has returned.
NextDecodeUnit ==
    /\ conn.st = "streaming"
    /\ decoder = None
    /\ conn.n < MaxFrames
    /\ conn' = [conn EXCEPT !.n = @ + 1]
    /\ decoder' = [from |-> conn.owner, n |-> conn.n + 1]
    /\ UNCHANGED <<VIDEO_SINK, NEGOTIATED_FORMAT, TERMINATED, rx>>

\* Mutant: a place for the latest unit instead of a queue.
BugEnqueued(queue, unit) == <<unit>>

Enqueued(queue, unit) == Append(queue, unit)

\* Mutant: a sync_channel of one place, whose send waits for room.
BugSends == VIDEO_SINK # None => rx[VIDEO_SINK] = <<>>

\* The channel has no bound: send never waits for the worker.
Sends == TRUE

\* Tag the unit with the negotiated codec and send it to the installed sink,
\* if there is one.
dr_submit ==
    /\ decoder # None
    /\ Sends
    /\ rx' = IF VIDEO_SINK = None THEN rx
             ELSE [rx EXCEPT ![VIDEO_SINK] =
                     Enqueued(@, [from |-> decoder.from, n |-> decoder.n,
                                  codec |-> NEGOTIATED_FORMAT])]
    /\ decoder' = None
    /\ UNCHANGED <<VIDEO_SINK, NEGOTIATED_FORMAT, TERMINATED, conn>>

\* The connection is gone; error_code is logged and otherwise ignored.
cl_connection_terminated ==
    /\ conn.st = "streaming"
    /\ conn' = [conn EXCEPT !.st = "lost"]
    /\ TERMINATED' = TRUE
    /\ UNCHANGED <<VIDEO_SINK, NEGOTIATED_FORMAT, rx, decoder>>
=============================================================================
