------------------------------ MODULE Framing ------------------------------
(***************************************************************************)
(* The framing of proto.rs: Writer, shared by the main thread and every    *)
(* worker of the sidecar, and read_message at the other end of a pipe.     *)
(* The two halves are put together as the file's own test does             *)
(* (framing_round_trips); the Tempest host's half is the same grammar.     *)
(*                                                                         *)
(* Bytes are numbers below Base, the length field has four of them.  The   *)
(* LineWriter inside std's Stdout may hold bytes back until flush; stdout  *)
(* is everything written, of which the first `flushed` bytes have reached  *)
(* the pipe.                                                               *)
(***************************************************************************)
EXTENDS Naturals, Sequences

CONSTANTS
    Threads,           \* the threads that share the Writer
    None,
    Base,              \* 256 in the program
    MAX_FRAME_BYTES,   \* 32 MiB in the program
    PayloadLens,       \* lengths of the payloads the threads write
    Fills,             \* bytes the payloads are made of
    MaxCalls           \* bound: calls of control() and frame()

LenMod == Base ^ 4     \* 2^32

\* A payload is shorter than 4 GiB: it is one JSON text, or one access unit,
\* whose length is a C int.
ASSUME FramingAssumption ==
    /\ None \notin Threads
    /\ Base \in Nat /\ Base > 2
    /\ MAX_FRAME_BYTES \in Nat \ {0}
    /\ MAX_FRAME_BYTES < LenMod
    /\ PayloadLens \subseteq 0..(LenMod - 1)
    /\ Fills \subseteq 0..(Base - 1)
    /\ MaxCalls \in Nat

\* What ^ means here.
ASSUME PowerAssumption ==
    Base ^ 0 = 1 /\ \A i \in 0..3 : Base ^ (i + 1) = Base * Base ^ i

Bytes == 0..(Base - 1)
KIND_CONTROL == 1
KIND_FRAME == 2
Payloads == {[i \in 1..n |-> b] : n \in PayloadLens, b \in Fills}
Messages == [kind : {KIND_CONTROL, KIND_FRAME}, payload : Payloads]
NoMsg == [kind |-> KIND_CONTROL, payload |-> <<>>]

\* Mutant: the digits are not reduced to bytes.
BugBytes(n) == [i \in 1..4 |-> n \div Base ^ (i - 1)]

\* u32::to_le_bytes and u32::from_le_bytes.
to_le_bytes(n) == [i \in 1..4 |-> (n \div Base ^ (i - 1)) % Base]
from_le_bytes(b) == b[1] + Base * (b[2] + Base * (b[3] + Base * b[4]))

VARIABLES
    wpc,        \* wpc[t]: where thread t is inside Writer::raw
    msg,        \* msg[t]: the message it writes
    mutex,      \* the holder of Writer.inner, or None
    stdout,     \* the bytes written so far
    flushed,    \* how many of them have reached the pipe
    calls,      \* calls made so far
    exited,     \* the writing process is gone
    sent,       \* history: the messages in the order of the mutex
    rpc,        \* where read_message is
    rpos,       \* bytes it has consumed
    rlen,       \* len
    rkind,      \* kind[0]
    got,        \* the messages it returned
    outcome     \* "reading"; "eof": Ok(None); "error": Err; "gone": no reader

writerVars == <<wpc, msg, mutex, stdout, calls, exited, sent>>
readerVars == <<rpc, rpos, rlen, rkind, got, outcome>>
vars == <<writerVars, flushed, readerVars>>

\* What is on the wire is bytes, and the reader never allocates more than
\* MAX_FRAME_BYTES.
TypeOK ==
    /\ wpc \in [Threads -> {"idle", "lock", "len", "kind", "payload", "flush"}]
    /\ msg \in [Threads -> Messages \cup {NoMsg}]
    /\ mutex \in Threads \cup {None}
    /\ stdout \in Seq(Bytes)
    /\ flushed \in 0..Len(stdout)
    /\ calls \in 0..MaxCalls
    /\ exited \in BOOLEAN
    /\ sent \in Seq(Messages)
    /\ rpc \in {"len", "kind", "payload"}
    /\ rpos \in 0..flushed
    /\ rlen \in 0..MAX_FRAME_BYTES
    /\ rkind \in Bytes
    /\ got \in Seq([kind : Bytes, payload : Seq(Bytes)])
    /\ outcome \in {"reading", "eof", "error", "gone"}

Init ==
    /\ wpc = [t \in Threads |-> "idle"]
    /\ msg = [t \in Threads |-> NoMsg]
    /\ mutex = None
    /\ stdout = <<>> /\ flushed = 0
    /\ calls = 0
    /\ exited = FALSE
    /\ sent = <<>>
    /\ rpc = "len" /\ rpos = 0 /\ rlen = 0 /\ rkind = 0
    /\ got = <<>>
    /\ outcome = "reading"

-----------------------------------------------------------------------------
(* Writer                                                                  *)

\* The length raw computes, in u32 arithmetic; LenMod is its overflow.
LengthOf(payload) == (Len(payload) % LenMod) + 1

\* Mutant: the limit is held against the payload, not against what the
\* length field counts.
BugFits(payload) == LengthOf(payload) < LenMod /\ Len(payload) <= MAX_FRAME_BYTES

\* checked_add and filter.
Fits(payload) == LengthOf(payload) < LenMod /\ LengthOf(payload) <= MAX_FRAME_BYTES

\* control(), frame() and the head of raw(): a message that does not fit is
\* an error for the caller, who logs it and goes on.
Call(t, m) ==
    /\ wpc[t] = "idle"
    /\ calls < MaxCalls
    /\ calls' = calls + 1
    /\ IF Fits(m.payload)
       THEN /\ wpc' = [wpc EXCEPT ![t] = "lock"]
            /\ msg' = [msg EXCEPT ![t] = m]
       ELSE UNCHANGED <<wpc, msg>>
    /\ UNCHANGED <<mutex, stdout, flushed, exited, sent, readerVars>>

\* Mutant: the writer is not serialised.
BugFree == TRUE

Free == mutex = None

\* inner.lock()
Lock(t) ==
    /\ wpc[t] = "lock"
    /\ Free
    /\ mutex' = t
    /\ sent' = Append(sent, msg[t])
    /\ wpc' = [wpc EXCEPT ![t] = "len"]
    /\ UNCHANGED <<msg, stdout, flushed, calls, exited, readerVars>>

\* One write_all.
WriteAll(t, here, bytes, next) ==
    /\ wpc[t] = here
    /\ stdout' = stdout \o bytes
    /\ wpc' = [wpc EXCEPT ![t] = next]
    /\ UNCHANGED <<msg, mutex, flushed, calls, exited, sent, readerVars>>

WriteLen(t) == WriteAll(t, "len", to_le_bytes(LengthOf(msg[t].payload)), "kind")
WriteKind(t) == WriteAll(t, "kind", <<msg[t].kind>>, "payload")
WritePayload(t) == WriteAll(t, "payload", msg[t].payload, "flush")

\* Mutant: raw ends with the last write_all.
BugFlushed == flushed

\* flush() leaves nothing in the LineWriter.
Flushed == Len(stdout)

\* Mutant: the guard is leaked.
BugReleased == mutex

\* The guard is dropped.
Released == None

Flush(t) ==
    /\ wpc[t] = "flush"
    /\ flushed' = Flushed
    /\ mutex' = Released
    /\ wpc' = [wpc EXCEPT ![t] = "idle"]
    /\ UNCHANGED <<msg, stdout, calls, exited, sent, readerVars>>

\* A write fails, because nobody reads any more; `?` drops the guard.
WriteFails(t) ==
    /\ wpc[t] \in {"len", "kind", "payload", "flush"}
    /\ outcome = "gone"
    /\ mutex' = Released
    /\ wpc' = [wpc EXCEPT ![t] = "idle"]
    /\ UNCHANGED <<msg, stdout, flushed, calls, exited, sent, readerVars>>

\* The LineWriter passes bytes on when it meets a newline or is full.
Spill ==
    /\ \E k \in (flushed + 1)..Len(stdout) : flushed' = k
    /\ UNCHANGED <<writerVars, readerVars>>

\* The process exits with its threads anywhere; what Stdout held back may
\* or may not come out.
ProcessExit ==
    /\ exited' = TRUE
    /\ \E k \in flushed..Len(stdout) :
         flushed' = k /\ stdout' = SubSeq(stdout, 1, k)
    /\ UNCHANGED <<wpc, msg, mutex, calls, sent, readerVars>>

-----------------------------------------------------------------------------
(* read_message                                                            *)

Avail == flushed - rpos
Taken(n) == SubSeq(stdout, rpos + 1, rpos + n)

\* read_exact(n) at label here: n bytes, or the end of the stream.
ReadExact(here, n) ==
    /\ outcome = "reading"
    /\ rpc = here
    /\ Avail >= n
    /\ rpos' = rpos + n

ReadEof(here, n, result) ==
    /\ outcome = "reading"
    /\ rpc = here
    /\ exited /\ Avail < n
    /\ outcome' = result
    /\ UNCHANGED <<writerVars, flushed, rpc, rpos, rlen, rkind, got>>

ReadLen ==
    /\ ReadExact("len", 4)
    /\ LET len == from_le_bytes(Taken(4)) IN
       IF len < 1 \/ len > MAX_FRAME_BYTES
       THEN outcome' = "error" /\ UNCHANGED <<rlen, rpc>>
       ELSE rlen' = len /\ rpc' = "kind" /\ UNCHANGED outcome
    /\ UNCHANGED <<writerVars, flushed, rkind, got>>

ReadKind ==
    /\ ReadExact("kind", 1)
    /\ rkind' = Taken(1)[1]
    /\ rpc' = "payload"
    /\ UNCHANGED <<writerVars, flushed, rlen, got, outcome>>

ReadPayload ==
    /\ ReadExact("payload", rlen - 1)
    /\ got' = Append(got, [kind |-> rkind, payload |-> Taken(rlen - 1)])
    /\ rpc' = "len"
    /\ UNCHANGED <<writerVars, flushed, rlen, rkind, outcome>>

\* UnexpectedEof is Ok(None) in the length field, an error after it.
ReadEnds ==
    \/ ReadEof("len", 4, "eof")
    \/ ReadEof("kind", 1, "error")
    \/ ReadEof("payload", rlen - 1, "error")

\* The reading process dies.
ReaderGone ==
    /\ outcome = "reading"
    /\ outcome' = "gone"
    /\ UNCHANGED <<writerVars, flushed, rpc, rpos, rlen, rkind, got>>

-----------------------------------------------------------------------------
Thread(t) ==
    /\ ~exited
    /\ Lock(t) \/ WriteLen(t) \/ WriteKind(t) \/ WritePayload(t) \/ Flush(t)
         \/ WriteFails(t)

Reader == ReadLen \/ ReadKind \/ ReadPayload \/ ReadEnds

\* Nothing is left to happen.
Over == exited /\ outcome # "reading" /\ UNCHANGED vars

Next ==
    \/ \E t \in Threads, m \in Messages : ~exited /\ Call(t, m)
    \/ \E t \in Threads : Thread(t)
    \/ ~exited /\ (Spill \/ ProcessExit)
    \/ Reader \/ ReaderGone \/ Over

Spec == Init /\ [][Next]_vars

\* The scheduler runs a thread that can go on (with finitely many calls, one
\* that waits for the mutex gets it in the end), and the reader reads.
FairSpec ==
    /\ Spec
    /\ WF_vars(Reader)
    /\ \A t \in Threads : WF_vars(Thread(t))

-----------------------------------------------------------------------------
(* Properties                                                              *)

\* "A message interleaved with a frame's bytes would desynchronise the host
\* permanently" (proto.rs): the reader only ever fails on a message that the
\* exit of the process has cut short, never on one that was written.
NeverDesynchronised == outcome = "error" => exited /\ Len(got) < Len(sent)

\* Every call returns while the process runs, also when the reader is gone.
CallsReturn == \A t \in Threads : wpc[t] # "idle" ~> wpc[t] = "idle" \/ exited

\* A message that got the pipe arrives without waiting for the next one.
MessagesArrive ==
    \A k \in 1..MaxCalls :
        Len(sent) >= k ~> Len(got) >= k \/ exited \/ outcome = "gone"

\* The reader gets the messages whole, in the order the writers had the pipe,
\* and an exit costs at most the one being written.
Channel == INSTANCE MessageChannel
             WITH outcome <- IF outcome = "gone" THEN "reading" ELSE outcome
FollowsChannel == Channel!Spec
=============================================================================
