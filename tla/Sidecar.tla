------------------------------ MODULE Sidecar ------------------------------
(***************************************************************************)
(* The sidecar process: the control loop of moonlight-addon (main.rs) over *)
(* the engines (module Session) and the streaming layer (module Stream),   *)
(* driven by a Tempest host that may send any control message at any time. *)
(*                                                                         *)
(* The main thread calls MoonlightSession::close, and Drop calls it again, *)
(* inside the handlers of connect, close and shutdown; those calls are     *)
(* unrolled into their shared accesses, because the worker threads and the *)
(* C library run meanwhile.  The next control message is only read when    *)
(* the handler is finished.                                                *)
(***************************************************************************)
EXTENDS Session, FiniteSets

CONSTANTS
    Ids,             \* session numbers the host uses
    DocCodecs,       \* codecs its connect documents ask for (useHevc)
    MaxSessions,     \* how many sessions the host keeps open in one process
    WaitForClosed,   \* TRUE: the host connects again only after sessionClosed
    CloseFirst,      \* TRUE: ... and only after it has sent `close`
    HostStalls       \* TRUE: the host may stop reading stdout for a while

ASSUME SidecarAssumption ==
    /\ DocCodecs \subseteq Codecs
    /\ MaxSessions \in Nat \ {0}
    /\ WaitForClosed \in BOOLEAN
    /\ CloseFirst \in BOOLEAN
    /\ HostStalls \in BOOLEAN

VARIABLES
    mpc,        \* where the main thread is
    sessions,   \* the HashMap: session number -> engine, or None
    mEng,       \* the engine the main thread is inserting or closing
    mId,        \* the session number of the connect being handled
    mPasses,    \* calls of close() still to be made on mEng
    mBack,      \* where to continue after them
    exitCode,   \* of the process
    pipeFull    \* stdout takes nothing: the host does not read

mainVars == <<mpc, sessions, mEng, mId, mPasses, mBack, exitCode>>
vars == <<streamVars, sessionVars, mainVars, pipeFull>>

Closing == {"close_li", "close_join", "close_clear", "close_flag"}
MainLabels == {"hello", "loop", "insert", "drain", "unwind", "exited"}
                \cup Closing

MainTypeOK ==
    /\ mpc \in MainLabels
    /\ sessions \in [Ids -> Engines \cup {None}]
    /\ mEng \in Engines \cup {None}
    /\ mId \in Ids
    /\ mPasses \in 0..2
    /\ mBack \in {"loop", "drain", "unwind"}
    /\ exitCode \in {0, 1}

\* Every variable holds a value the code can store in it; the process exits
\* with 0 or 1 (main.rs).
TypeOK == StreamTypeOK /\ SessionTypeOK /\ MainTypeOK /\ pipeFull \in BOOLEAN

Init ==
    /\ StreamInit
    /\ SessionInit
    /\ mpc = "hello"
    /\ sessions = [i \in Ids |-> None]
    /\ mEng = None
    /\ mId \in Ids
    /\ mPasses = 0
    /\ mBack = "loop"
    /\ exitCode = 0
    /\ pipeFull = FALSE

Born(e) == pc[e] # "unborn"
Mapped(e) == \E i \in Ids : sessions[i] = e

-----------------------------------------------------------------------------
(* Control messages                                                        *)

\* Mutant: the process exits with a code of the error's own.
BugErrorCode == 2

\* "0 clean, 1 anything else"
ErrorCode == 1

\* hello with our ABI, and the ready reply.
HelloAccepted ==
    /\ mpc = "hello"
    /\ mpc' = "loop"
    /\ UNCHANGED <<streamVars, sessionVars, sessions, mEng, mId, mPasses,
                   mBack, exitCode>>

\* Anything else first, or another ABI: Err, and so exit code 1.  EOF before
\* hello: exit code 0.
HelloRefused ==
    /\ mpc = "hello"
    /\ mpc' = "exited"
    /\ exitCode' \in {0, ErrorCode}
    /\ UNCHANGED <<streamVars, sessionVars, sessions, mEng, mId, mPasses, mBack>>

\* What the host does before it sends `connect`: it keeps at most MaxSessions
\* open and follows the policy of the two flags.
HostMayConnect ==
    /\ Cardinality({e \in Engines : Born(e) /\ Mapped(e) /\ ~ToldClosed(e)})
         < MaxSessions
    /\ WaitForClosed => \A e \in Engines : Born(e) => ToldClosed(e)
    /\ CloseFirst => \A e \in Engines : ~Mapped(e)

\* connect_with_doc: the worker is spawned before the engine is in the map.
\* A failure to spawn is dropped by .ok().
Connect(id, e, codec) ==
    /\ mpc = "loop"
    /\ HostMayConnect
    /\ pc[e] = "unborn"
    /\ \E label \in {"identity", "nothread"} : Goto(e, label)
    /\ wanted' = [wanted EXCEPT ![e] = codec]
    /\ mpc' = "insert"
    /\ mEng' = e
    /\ mId' = id
    /\ UNCHANGED <<streamVars, stop, reason, log, shown, busy, netfail,
                   sessions, mPasses, mBack, exitCode>>

\* The main thread starts n calls of close() on e and goes on at label.
StartClosing(e, n, label) ==
    /\ mEng' = e
    /\ mPasses' = n
    /\ mBack' = label
    /\ mpc' = "close_li"

\* HashMap::insert; an engine that had the number is dropped, and so closed.
Insert ==
    /\ mpc = "insert"
    /\ sessions' = [sessions EXCEPT ![mId] = mEng]
    /\ IF sessions[mId] = None
       THEN /\ mpc' = "loop"
            /\ mEng' = None
            /\ UNCHANGED <<mPasses, mBack>>
       ELSE StartClosing(sessions[mId], 1, "loop")
    /\ UNCHANGED <<streamVars, sessionVars, mId, exitCode>>

\* `close`: removed from the map, closed, and closed again when dropped.
CloseMsg(id) ==
    /\ mpc = "loop"
    /\ sessions[id] # None
    /\ sessions' = [sessions EXCEPT ![id] = None]
    /\ StartClosing(sessions[id], 2, "loop")
    /\ UNCHANGED <<streamVars, sessionVars, mId, exitCode>>

\* A second hello, resize, frameAck, a close or input for no session, and a
\* message of another kind change nothing.
Ignored ==
    /\ mpc = "loop"
    /\ UNCHANGED vars

\* shutdown or a clean EOF.
Shutdown ==
    /\ mpc = "loop"
    /\ mpc' = "drain"
    /\ UNCHANGED <<streamVars, sessionVars, sessions, mEng, mId, mPasses,
                   mBack, exitCode>>

\* read_control fails: `?` leaves run, which drops the map.
ProtocolError ==
    /\ mpc = "loop"
    /\ mpc' = "unwind"
    /\ UNCHANGED <<streamVars, sessionVars, sessions, mEng, mId, mPasses,
                   mBack, exitCode>>

-----------------------------------------------------------------------------
(* close() = stop_stream(); worker.stop(), on the main thread              *)

CloseLi ==
    /\ mpc = "close_li"
    /\ LiStopBegin
    /\ mpc' = "close_join"
    /\ UNCHANGED <<sessionVars, sessions, mEng, mId, mPasses, mBack, exitCode>>

CloseJoin ==
    /\ mpc = "close_join"
    /\ LiStopEnd
    /\ mpc' = "close_clear"
    /\ UNCHANGED <<sessionVars, sessions, mEng, mId, mPasses, mBack, exitCode>>

CloseClear ==
    /\ mpc = "close_clear"
    /\ DropSink
    /\ mpc' = "close_flag"
    /\ UNCHANGED <<sessionVars, sessions, mEng, mId, mPasses, mBack, exitCode>>

CloseFlag ==
    /\ mpc = "close_flag"
    /\ stop' = [stop EXCEPT ![mEng] = TRUE]
    /\ mPasses' = mPasses - 1
    /\ IF mPasses > 1 THEN mpc' = "close_li" /\ UNCHANGED mEng
                      ELSE mpc' = mBack /\ mEng' = None
    /\ UNCHANGED <<streamVars, pc, reason, log, shown, wanted, busy, netfail,
                   sessions, mId, mBack, exitCode>>

-----------------------------------------------------------------------------
(* The end of run and of main.  No worker is joined: the process exits     *)
(* with whatever they were doing.                                          *)

TakeEntry(n) ==
    \E id \in Ids :
        /\ sessions[id] # None
        /\ sessions' = [sessions EXCEPT ![id] = None]
        /\ StartClosing(sessions[id], n, mpc)

\* Mutant: the process leaves without draining the map.
BugExit(code) == mpc' = "exited" /\ exitCode' = code

Exit(code) ==
    /\ \A id \in Ids : sessions[id] = None
    /\ mpc' = "exited"
    /\ exitCode' = code

\* drain(): each engine is closed and then dropped.
Drain ==
    /\ mpc = "drain"
    /\ \/ TakeEntry(2) /\ UNCHANGED exitCode
       \/ Exit(0) /\ UNCHANGED <<sessions, mEng, mPasses, mBack>>
    /\ UNCHANGED <<streamVars, sessionVars, mId>>

\* The map goes out of scope: each engine is dropped.
Unwind ==
    /\ mpc = "unwind"
    /\ \/ TakeEntry(1) /\ UNCHANGED exitCode
       \/ Exit(ErrorCode) /\ UNCHANGED <<sessions, mEng, mPasses, mBack>>
    /\ UNCHANGED <<streamVars, sessionVars, mId>>

\* The process is gone.
Exited ==
    /\ mpc = "exited"
    /\ UNCHANGED vars

-----------------------------------------------------------------------------
\* A pipe that is full blocks write_all, and a writer that waits keeps the
\* Writer's mutex, so every thread with something to say waits: in a callback
\* or in frame_sink.  The main thread only ever writes `ready`, into an empty
\* pipe, and reads on.
PipeTakes == pipeFull => log' = log /\ shown' = shown

PipeFills == HostStalls /\ ~pipeFull /\ pipeFull' = TRUE
PipeDrains == pipeFull /\ pipeFull' = FALSE
Pipe ==
    /\ mpc \notin {"hello", "exited"}
    /\ PipeFills \/ PipeDrains
    /\ UNCHANGED <<streamVars, sessionVars, mainVars>>

HostMessage ==
    /\ \/ HelloAccepted \/ HelloRefused
       \/ \E id \in Ids, e \in Engines, codec \in DocCodecs : Connect(id, e, codec)
       \/ \E id \in Ids : CloseMsg(id)
       \/ Ignored \/ Shutdown \/ ProtocolError
    /\ UNCHANGED pipeFull

\* What the main thread does on its own, inside a handler.
MainStep ==
    /\ \/ Insert \/ CloseLi \/ CloseJoin \/ CloseClear \/ CloseFlag
       \/ Drain \/ Unwind
    /\ UNCHANGED pipeFull

\* Worker threads and C callbacks run while the process does.
Beside == mpc # "exited" /\ UNCHANGED <<mainVars, pipeFull>>
Worker(e) == WorkerStep(e) /\ PipeTakes /\ Beside
Pairing(e) == PairStep(e) /\ PipeTakes /\ Beside
Library == Callback /\ Beside
Submit == DecoderStep /\ Beside

Next ==
    \/ HostMessage \/ MainStep
    \/ \E e \in Engines : Worker(e) \/ Pairing(e)
    \/ Library \/ Submit
    \/ Pipe
    \/ Exited

Spec == Init /\ [][Next]_vars

\* Where a worker waits for an HTTP reply.  No request has a time-out, and the
\* first one of the pairing waits for the user.
Requests == {"serverinfo", "pair", "applist", "launch", "release"}

\* The scheduler runs every thread, dr_submit returns, and the library ends
\* its handshake one way or the other.  Nothing makes the host send a message,
\* Sunshine reply, the user type the PIN, or the connection deliver or break.
FairSpec ==
    /\ Spec
    /\ WF_vars(MainStep)
    /\ WF_vars(Submit)
    /\ \A e \in Engines : WF_vars(pc[e] \notin Requests /\ Worker(e))

-----------------------------------------------------------------------------
(* Safety                                                                  *)

\* The main thread is inside close() for engine e.
MainCloses(e) == mpc \in Closing /\ mEng = e

\* "Only one moonlight session may be active at a time" (stream.rs): never two
\* engines between the first effect of start_stream and the last of their
\* stop_stream, the library's connection belongs to that engine or is being
\* stopped by a close of it, and LiStartConnection is entered on an idle
\* library.
OneStream ==
    /\ \A e, f \in Engines :
         pc[e] \in Streaming /\ pc[f] \in Streaming => e = f
    /\ \A e \in Engines :
         /\ conn.owner = e => pc[e] \in Streaming \/ MainCloses(e)
         /\ pc[e] = "listart" => conn = NoConn /\ decoder = None

\* While an engine pumps frames and nobody has closed it, the global sink and
\* the library's connection are its own: no other session's start_stream,
\* stop_stream or dropped map entry has touched them.  The video session that
\* Sunshine holds is its own too, or is gone with the connection: no other
\* session's /launch has replaced it and no late /cancel has ended it.
PumpUntouched ==
    \A e \in Engines :
        pc[e] \in Pumping /\ ~stop[e] /\ ~MainCloses(e)
          => /\ VIDEO_SINK = e
             /\ conn.owner = e
             /\ conn.st \in {"streaming", "lost"}
             /\ busy \in {e, None}
             /\ conn.st = "streaming" => busy = e

\* When the pump of such an engine sees TERMINATED, it was its own connection
\* that was lost: the flag is never a leftover of an earlier session.
TerminationIsOwn ==
    \A e \in Engines :
        pc[e] \in Pumping /\ ~stop[e] /\ ~MainCloses(e) /\ TERMINATED
          => conn.owner = e /\ conn.st = "lost"

\* send_input looks the engine up by its session number but talks to the one
\* connection of the process: an `input` message for a session that is still
\* in the map finds that session's own connection there, or none.
InputReachesOwn ==
    \A e \in Engines :
        mpc = "loop" /\ Mapped(e) => conn.owner \in {e, None}

\* sessionClosed without an error is only sent for a session the host itself
\* closed ("`error` absent => clean close", PROTOCOL.md): a stream that broke
\* or was taken away is never reported as a clean end.
CleanCloseWasAsked ==
    \A e \in Engines :
        (\E i \in 1..Len(log[e]) : log[e][i] = "sessionClosed")
          => stop[e] \/ MainCloses(e)

\* The k-th frame the host gets is the k-th access unit of this session's own
\* connection, in the codec it asked for: no frame of an earlier session, no
\* gap, no stale codec tag; so the first is the IDR the decoder needs.
FramesInOrder ==
    \A e \in Engines : \A k \in 1..Len(shown[e]) :
        shown[e][k] = [from |-> e, n |-> k, codec |-> wanted[e]]

\* A worker that has finished leaves no video session of its own behind on
\* Sunshine, unless the network ate the reply to /launch or the /cancel, or
\* the connection was reported terminated.
ReleasedOrExcused ==
    \A e \in Engines :
        pc[e] = "done" /\ busy = e => netfail[e] \/ reason[e] = "terminated"

\* Whatever the host does, and whichever way the process ends, every engine
\* it ever started has been told to stop ("Either way the engine threads must
\* be told", main.rs).
ExitStopsEveryEngine ==
    mpc = "exited" => \A e \in Engines : Born(e) => stop[e]

-----------------------------------------------------------------------------
(* Temporal properties                                                     *)

\* A session closed before run_moonlight's only look at the flag never
\* allocates anything on Sunshine.
NoLaunchAfterEarlyClose ==
    \A e \in Engines :
        [](stop[e] /\ pc[e] \in PreCheck => [](busy # e))

\* Every HTTP request of the worker ends, well or not; from some time on the
\* host reads what it is sent.
RequestsEnd(e) == []<>(pc[e] \notin Requests)
HostReads == <>[](~pipeFull)

\* A closed session ends and says so, if its requests end and the host reads,
\* unless the process exits first: nothing else can keep a worker from seeing
\* the flag.  Only a session whose thread could not be spawned stays silent.
ClosedSessionUnwinds ==
    \A e \in Engines :
        RequestsEnd(e) /\ HostReads =>
          (stop[e] /\ Born(e)
             ~> ToldClosed(e) \/ pc[e] = "nothread" \/ mpc = "exited")

\* The main thread comes back to read the next message, or to exit, whatever
\* the engines and the decoder thread are doing and whether or not the host
\* reads: close() waits for no worker and for no pipe, so a host that is busy
\* writing never finds the sidecar waiting for it, and shutdown ends.
MainReturns == []<>(mpc \in {"hello", "loop", "exited"})

\* A lost connection ends its session even if the host never says a word, if
\* only it reads; only a `close` that came first makes it wait for the reply
\* to /cancel.
LostStreamEnds ==
    \A e \in Engines :
        HostReads =>
          (conn.st = "lost" /\ conn.owner = e /\ pc[e] \in Pumping
             ~> ToldClosed(e) \/ mpc = "exited" \/ (stop[e] /\ pc[e] = "release"))

-----------------------------------------------------------------------------
(* What comments and PROTOCOL.md say, and the code does not do             *)

\* "any exit *we* initiate ... must release it with `/cancel`, or the host
\* stays busy" (session.rs): also the exit that `shutdown` asks for.
CleanExitReleasesHost ==
    mpc = "exited" /\ exitCode = 0
      => \A e \in Engines :
           busy = e => netfail[e] \/ reason[e] = "terminated"

\* "Not called when the host itself ended the session (is_terminated) - it's
\* already gone there" (session.rs): TERMINATED means that Sunshine has let go.
TerminatedIsGone ==
    \A e \in Engines :
        pc[e] = "done" /\ reason[e] = "terminated" => busy # e

-----------------------------------------------------------------------------
(* Refinement                                                              *)

\* The messages of every session follow the protocol (PROTOCOL.md, host.rs).
Protocol == INSTANCE SessionProtocol
              WITH Units <- VideoUnit, events <- log, frames <- shown
FollowsProtocol == Protocol!Spec
=============================================================================
