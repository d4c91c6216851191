# A verification project for the Tempest Moonlight addon

The Moonlight addon is a *sidecar*: a process that a Tempest host spawns and
talks to over stdin and stdout, and that streams a desktop from a Sunshine (or
GameStream) machine.  Two machines are called "host" in the sources; here the
*Tempest host* is the program at the other end of the pipe and *Sunshine* is
the machine that is streamed.

This directory models the program in TLA+, checks the models with TLC and
proves theorems about them with TLAPS.  `PROJECT.json` lists the components,
the runs, the theorems, the hazards the properties are for, and, for every
definition, the lines of the source it stands for.

## 1. Inventory

| Component | State it keeps | Operations | Talks to |
| --- | --- | --- | --- |
| Main loop, `moonlight-addon/src/main.rs` | the map session number → `Arc<MoonlightSession>` | `hello`, `connect`, `input`, `close`, `shutdown`/EOF, protocol error, drain | engine (calls), stdin |
| Wire framing, `proto.rs` | the mutex around stdout | `read_message`, `Writer::control`, `Writer::frame` | stdin, stdout |
| Session engine, `session.rs` | a thread per session, the pointer button mask | `connect_with_doc`, `run_moonlight`, `send_input`, `close`, `Drop` | NVHTTP client, stream bridge, callbacks |
| Worker handle, `host.rs` | the stop flag, the join handle | `stop_flag`, `set`, `stop` | engine |
| Stream bridge, `stream.rs` | three process-wide statics: `VIDEO_SINK`, `NEGOTIATED_FORMAT`, `TERMINATED` | `start_stream`, `stop_stream`, `is_terminated`, the C callbacks | moonlight-common-c |
| moonlight-common-c (external) | one connection, in file-scope globals; its own threads | `LiStartConnection`, `LiStopConnection`, `LiSend*` | Sunshine |
| NVHTTP client, `nvhttp.rs` | none | `serverinfo` (HTTP, HTTPS), `applist`, `launch`, `cancel` | Sunshine |
| Pairing, `nvhttp.rs` | the key, the two challenges and secrets of one attempt | the four phases of `PairingClient::pair` | Sunshine, the user |
| Identity, `identity.rs` | certificate and key | `generate`, `from_pem` | the connect document |
| Input translation, `session.rs` (`send_input`) | `last_buttons`, a mask per session | pointer (position and buttons), wheel, key | the C library |
| Frame and input vocabulary, `transport.rs` | none | – | – |
| Packaging, `xtask` | the file system; the block buffer of its SHA-256 | build, find, zip, replace, digest | cargo, the file system |
| Logging `lib.rs`, FFI `sys.rs`, `build.rs`, CI | none at run time | – | – |

How they interact.  The main thread reads one control message at a time.
`connect` spawns a worker thread (`run_moonlight`) that makes the HTTP
requests, starts the stream and pumps frames to stdout until it is told to stop
or loses the connection; `close` calls `stop_stream` *on the main thread* and
sets the worker's stop flag, which the worker polls; nobody ever joins a
worker.  The C library calls back on threads of its own: the decoder thread
sends access units through the one `Sender` in `VIDEO_SINK`, and the
termination callback sets `TERMINATED`.

What is hard, and therefore what the properties are about:

* three kinds of threads (main, worker, C library) share three statics and one
  C connection, and the main thread tears them down under a running worker;
* the stop flag is polled at two places only, and every other step of a worker
  may be overtaken by a close;
* Sunshine holds a resource (the video session of `/launch`) that must be given
  back over a network that can lose the request or its reply;
* a finished or dropped session must not disturb the next one: the sink, the
  format, the flag and the connection are process-wide;
* a worker may wait for a person (the PIN), or for a host that does not read
  stdout, for as long as it takes;
* the process may exit, or be killed, while its workers are anywhere;
* one input message is several calls of the library, and the stream may come up
  or break between any two of them;
* the packaging tool finds in the file system what other, and killed, runs left.

What makes each part correct:

* **main loop, engine, stream bridge** – the one stream of the process never
  serves two sessions; nobody but its own `close` takes a running session's
  sink or connection away; every ending is reported, once, and truthfully;
  Sunshine is released; frames are complete, in order and correctly tagged;
  `close` and `shutdown` always come to an end, whether or not the host reads.
* **wire framing** – messages of several threads reach the reader whole, in one
  order, without waiting for the next, and an exit costs one message at most.
* **pairing and identity** – success on one side is success on the other; only
  the PIN of this very prompt confirms; one identity, one pairing.
* **NVHTTP client** – what is launched is an app that Sunshine offers; a stream
  is started on the session's own video session; what stays behind on Sunshine
  is due to a loss, a broken stream or a kill.
* **input** – nothing stays pressed on Sunshine that the user let go of, what
  the user holds is pressed, a click lands where its message had the pointer,
  and the wheel ends where the user turned it to; the last three as far as the
  stream was live for the calls they need.
* **packaging** – the package holds what was built for it, its digest is that
  of the file however it was read, and a package that was delivered stays as it
  was until a later run for the same machine has a complete payload to replace
  it with (from there on a kill can leave none).

## 2. Modules

| Module | What it is |
| --- | --- |
| `Stream` | `stream.rs` and the part of moonlight-common-c it uses: the three statics, each engine's channel, the connection, the decoder thread. Every operation is an action on these variables alone. |
| `Session` | one worker thread: `connect_with_doc`'s closure and `run_moonlight`, one action per shared access or blocking call, with the Sunshine video session (`busy`). |
| `Sidecar` | the process: the main loop of `main.rs` over the engines, `close()` unrolled into its shared accesses, exit, and a stdout that the host may stop reading. Composes the three (`EXTENDS`) and states the properties. |
| `SessionProtocol` | abstract specification: in which order the messages of one session may arrive at the Tempest host. |
| `Framing` | `proto.rs`: `Writer` and its mutex, the three writes, std's line buffer, `flush`, errors; the pipe; `read_message`. |
| `MessageChannel` | abstract specification of `Framing`: a FIFO of whole messages that ends. |
| `Pairing` | `nvhttp.rs` (`server_info`, `PairingClient::pair`) and the identity, over several sessions, against Sunshine's half of the handshake. |
| `Nvhttp` | the rest of `nvhttp.rs` and of the HTTP half of `run_moonlight`, on top of `Pairing` (`EXTENDS`): `/applist`, `/launch`, `/cancel`, and the one video session of Sunshine. |
| `Input` | `send_input`: pointer, buttons, wheel and keys from the user's hands to what Sunshine holds pressed and where its pointer is. |
| `Sha256Buffer` | `xtask`'s SHA-256: buffering, counters and padding. |
| `Package` | `cargo xtask package` on the file system, one run after the other, with `Sha256Buffer` as its last step (`EXTENDS`). |
| `MCSidecar`, `MCNvhttp`, `MCInput`, `MCPackage` | instances for TLC: symmetry, and the constants that a `.cfg` cannot write. The runs of `Framing` use that module directly. |
| `SidecarInv` | the inductive invariants of the proofs about `Sidecar`. |
| `SidecarProofs`, `HostProofs`, `IsolationProofs`, `FramingProofs`, `PairingProofs`, `NvhttpProofs`, `InputProofs`, `PackageProofs` | the theorems. |

### Sidecar, Session, Stream

`pc[e]` names the call worker `e` is about to make; `log[e]` is the sequence of
control messages its callbacks have written; `shown[e]` the frames it handed to
`frame_sink`; `busy` the engine Sunshine holds a video session for.  `mpc` is
the position of the main thread: `loop` is `read_control`, and the four
`close_*` labels are the effects of `close()` (`LiStopConnection` is entered; it
has joined the decoder thread; the sink is dropped; the flag is set).  `mPasses`
counts the calls of `close()` still to be made: an explicit `close` is followed
by a second one in `Drop`.  Names of actions are those of the Rust functions
where there is one.

`pipeFull` says that stdout takes nothing because the host does not read.  A
writer that waits keeps the `Writer`'s mutex, so then every worker blocks in the
callback or the `frame_sink` it has reached (`PipeTakes`).  The main thread
only ever writes `ready`, before any worker exists, and goes on.

What is abstracted: texts, addresses, sizes and key material; a frame is its
origin, its number and its codec tag; an HTTP request is one step with the
outcomes the code tells apart (`Nvhttp` takes them apart).  Service messages and
log lines are left out.  Polling with a 100 ms time-out is a step that may
happen when the channel is empty.  `netfail` is a history variable for stating
`ReleasedOrExcused`.

What is assumed of code that is not in the repository.  moonlight-common-c: its
connection is one set of globals that the last `LiStartConnection` overwrites;
`LiStopConnection` stops delivery, then joins the decoder thread, and is
harmless when nothing is connected; the decoder callback runs on one thread, one
unit at a time, numbered without gaps; the termination callback comes at most
once per connection, while it streams.  Sunshine: at most one video session,
`/cancel` ends whichever it is.  The Tempest host may send any message at any
time; the two constants `WaitForClosed` and `CloseFirst` say whether it waits
for `sessionClosed`, and sends `close`, before it connects again.  The host that
does both is called *patient* below.  `HostStalls` says whether it may stop
reading.

### Framing

Bytes are numbers below `Base`, so that the length field, its arithmetic modulo
`Base^4` and its bounds check are the real ones with a smaller base.  `stdout`
is every byte written and `flushed` how many of them have left std's
`LineWriter`; `Spill` moves that mark at any time, `Flush` to the end.  The
reader takes a part of a message once enough bytes are there (`ReadExact`).  The
pipe is unbounded here – the one that is full is in `Sidecar` – and a reader
that goes away is an error of the next write.

### Pairing and Nvhttp

`at[s]` is the request session `s` is about to make.  Cryptography is symbolic:
a text decrypted with another key is noise, a digest is the record of what was
hashed, and the salt, challenge and secret of a session are named after it.
Sunshine's half is external: it keeps one pairing per `uniqueid`, which a new
`getservercert` replaces; it answers only when the user has typed a PIN into its
web page; after the last phase it forgets the pairing.  Every request may fail
before or after Sunshine has handled it (`Fails`), and the process may be killed
(`Killed`); what it has written by then, the identity event too, still reaches
the host.  `orderly` records whether the host has always waited for the end of a
session and persisted its identity before it sent the next `connect`.

`Nvhttp` continues where a session is paired: `stage[s]` is the next call.  A
body is the sequence of its tags and words, and `xml_tag`, `app_list` and the
choice of the app take it apart as the code does, with chunks that end at the
next `<App>`, trimmed ids and apps that lack a field.  The list that `app_list`
returns is a function from the places of the `<App>`s it was made from, which
keeps the order of the `Vec`.  What Sunshine may offer is a constant (`Offers`,
any lists of apps whose titles and ids are words: `OffersAssumption`), and so
are the texts that parse as a number (`Numerals`).  `holder` is the session
whose stream Sunshine holds; a second `/launch` is refused or takes it over.
`left` records that the holder will not release it, because of a loss, a broken
stream or a kill; `alone` that no two sessions overlapped.

### Input

`inbox` holds the `input` messages in flight, `calls` the `LiSend*` calls that
the running `send_input` still makes, `live` whether they do anything.
`remoteButtons`, `remoteKeys`, `remoteX` and `remoteScroll` are Sunshine's.  A
word has `Word` values, so `as c_short` wraps and the clamp of the wheel bites;
the wheel is counted in halves, and `slack` is what cutting the fraction off may
have cost so far.

### Package and Sha256Buffer

A run has an environment (`env`: profile, `TPX_TARGET`, `CARGO_TARGET`,
`CARGO_TARGET_DIR`, where it was started), and `step` is its place in
`package()`.  `bins` are the binaries on disk with the revision of the sources
each was built from, `dist` the containers: absent, cut, or whole with their
payload.  `told` is a history variable: for each machine, what the runs so far
let its user expect, which is the container of the last run that succeeded, and
nothing ("in doubt") from the moment a later run for that machine has its
payload until one succeeds.  A run may fail or be killed at any step; sources
are edited and other cargo builds run beside it.  A byte of the container is its offset, and `state` is the sequence
of bytes compressed so far, so that the digest is a function of it; the
arithmetic of `compress` is left out.

## 3. Runs

| Run | States | Shows |
| --- | --- | --- |
| `patient` | 2,562,044 | Two engines one after the other, one access unit each, both codecs, a patient host: `TypeOK`, `OneStream`, `PumpUntouched`, `TerminationIsOwn`, `InputReachesOwn`, `CleanCloseWasAsked`, `FramesInOrder`, `ReleasedOrExcused`.  `PumpUntouched` speaks of the sink, the connection and the video session on Sunshine. |
| `solo` | 251,291 | One session with pairing and three access units, a host that stops reading now and then or for ever, under fairness: it implements `SessionProtocol`; `FramesInOrder` with a worker that stdout keeps waiting; `ClosedSessionUnwinds`, `MainReturns`, `LostStreamEnds`, `NoLaunchAfterEarlyClose`. |
| `any_host` | 5,187,906 | A host that keeps up to two sessions open under two numbers, reuses the numbers and waits for nothing: `ExitStopsEveryEngine`. |
| `shutdown` | violation | `shutdown` exits 0 before the worker has sent `/cancel`: `CleanExitReleasesHost`. |
| `eager` | violation | A host that sends `close` and connects again at once puts two engines into the single-connection library: `OneStream`. |
| `lazy` | violation | A host that does not close a session that ended by itself: the new `connect` drops the old engine, which stops the new stream: `CleanCloseWasAsked`. |
| `broken` | violation | A connection that broke is taken for one the Sunshine host ended, and never cancelled: `TerminatedIsGone`. |
| `framing` | 147,802 | Two threads, two messages, every cut: the pipe implements `MessageChannel` (`FollowsChannel`); `TypeOK`, `NeverDesynchronised`, `CallsReturn`, `MessagesArrive`. |
| `pairing` | 325,713 | `Nvhttp`: two sessions at once or in a row, from the identity to `/cancel`, with losses and kills: `TypeOK`, `HttpTypeOK`, `PairedIsTrusted`, `ConfirmsOnlyWithPin`, `OneIdentity`, `NeverAskedAgain`, `LaunchesDesktop`, `StreamsItsOwn`, `HeldIsExplained`. |
| `input` | 835,586 | Four input messages, two in flight, while the stream comes and goes: `TypeOK`, `NothingStuck`, `ButtonsFollow`, `ClicksLand`, `PointerCatchesUp`, `ScrollFollows`. |
| `input_drag` | violation | A button pressed before the stream is live is never pressed on Sunshine: `PointerIsSafe`. |
| `package` | 431,388 | Packaging runs one after the other, beside edits and builds, each of which may fail or be killed anywhere: `TypeOK`, `PackagesWhatItBuilt`, `DeliveredStays`, and the digest of every file of up to 9 bytes, cut into reads of up to 6: `DigestsTheFile`, `PaddingIsShort`. |

Every property of a passing run has a mutant: a definition of the same module,
named `Bug...`, that changes one mapped definition in the way a slip of the pen
would, and under which the run fails.

### Bounds, and why they are enough

* *Two engines.*  What one session can do to another it does to the next one
  (the statics carry one owner), and a third would only repeat the second.
  `solo` and `broken` ask about one session.  The theorems of section 4 remove
  the bound for all safety properties of `patient`.
* *Frames.*  One unit suffices for a stale unit or tag to reach the wrong
  session; gaps and reordering need more than one: `solo` has three, and
  `FramesHold` is for any number.
* *Session numbers* (`Ids`).  One is the interesting case for most runs: the
  number is reused.  `any_host` has two, so that the map holds both engines when
  the process ends.  `MaxSessions` bounds the sessions that are open at a time.
* *Framing.*  Base 3 with four length digits and `MAX_FRAME_BYTES = 3` puts
  payloads below, at and above the limit, and the empty one; fills 0 and 2 make
  a payload that could be read as a length.  Two calls are the least that can
  interleave; section 4 removes the bound.
* *Nvhttp.*  Two PINs tell the right one from a wrong one.  Sunshine offers
  nothing, no Desktop, a Desktop behind another app, one behind an app without
  an id, or an app without a title and a Desktop whose id is no number: every
  way in which a chunk of the list can be cut wrongly.
* *Input.*  Two keys of one pair, a plain key and one without a virtual key;
  masks with none, one and two of the three buttons and one with an unknown bit;
  a word of 8 with a position on either side of the largest `c_short`; wheel
  movements of half a unit up, one and a half down, and beyond the clamp.
* *Package.*  Two machines and a name without a dash; two revisions and two
  builds, the least for a stale binary to lie about.  Block 4 with a length
  field of 2 has the same cases as 64 and 8: the padding fits or does not, and
  a read ends before, at or after a block.

### Fairness

`Sidecar!FairSpec` is weak fairness of the main thread's own steps, of
`dr_submit`, and of every worker except where it waits for an HTTP reply: the
operating system runs every thread, and `LiStartConnection` has time-outs of its
own.  There is none for host messages, for what the library delivers or loses,
for a host that reads, and for HTTP requests: `nvhttp.rs` gives none of them a
time-out, and the first one of the pairing waits for a person.  So
`ClosedSessionUnwinds` is stated of workers whose requests end (`RequestsEnd`)
and of a host that from some time on reads (`HostReads`), and `LostStreamEnds`
of such a host, with an exception for a worker that a `close` has sent to
`/cancel`.  `MainReturns` needs none of these: the main thread makes no
requests and waits for no worker and no pipe, so it always comes back to its
loop, or exits, even while the host does not read.

`Framing!FairSpec` is weak fairness of the reader and of every thread inside a
call.  The mutex of std is not fair, but the calls are finitely many and each
one that holds it gives it back, so one that waits is alone in the end.
There is none for the process exit, for `Spill` and for new calls.

### What the violation runs found

`PROJECT.json` quotes the lines.  In short: (1) `shutdown` and EOF exit with 0
while workers have yet to send `/cancel`, and Sunshine stays busy; (2) nothing
but the host's patience keeps two sessions out of the single-connection library;
(3) `connect` on a number that is still in the map closes the *new* stream, and
reports that as a clean close; (4) every error code of the termination callback
is taken to mean that Sunshine has let go of the session; (5) `last_buttons`
advances while `LiSendMouseButtonEvent` still does nothing.

Smaller observations, which no run is spent on:

* The stream may come up behind the position call of a pointer message and
  before its button call: the position is dropped, the press is not, and the
  click lands wherever Sunshine's pointer is.  session.rs:131-132 says that it is
  safe to call `LiSend*` unconditionally.  `ClicksLand` has the condition
  `takenLive \/ ~missed` for it; without that conjunct TLC finds this trace in six
  states.
* A thread inside an HTTP request does not look at the stop flag, and no request
  has a time-out; the first one of the pairing ends when the user answers.
  `host.rs:43-45` says that the thread observes the flag and unwinds on its own.
  `ClosedSessionUnwinds` and `LostStreamEnds` name what they assume instead.
* `PairingClient::new` can panic between `pairPrompt` and `pairFinished`
  (`reqwest::Client::new`); the session then ends with an error and the dialog
  is only taken down by that.  `host.rs:36-37` says that `pairFinished` always
  follows the prompt.  `SessionProtocol` allows a
  `sessionClosed` with an error in its place.
* A failed HTTPS `serverinfo` falls back to plain HTTP, which always says
  unpaired, and so a paired user is prompted again (session.rs:222-225).
  `NeverAskedAgain` excepts it (`https_failed`).
* `read_message` takes an end of stream after one to three bytes of the length
  for a clean end (`proto.rs:197`).  `MessageChannel!End` allows it, as the
  message that the exit cut short.
* The two keys of a modifier pair share one virtual key, so letting go of one
  releases both on Sunshine.  `NothingStuck` is therefore stated one way only.
* Fractions of the wheel are cut off message by message and not carried over: a
  trackpad that sends many small movements scrolls Sunshine not at all.
  `ScrollFollows` grants half a unit for each message.
* A position from 32768 on wraps to a negative `c_short`; `ClicksLand` and
  `PointerCatchesUp` are stated below that.
* `PairStatus` is compared untrimmed, while `paired` and the apps' ids are
  trimmed.
* `restore_identity` generates a new identity when *any* of the three fields is
  empty, and so replaces what is left of the old one; `PROTOCOL.md:69` and
  `proto.rs:97` say so only of *all three*.
* A relative `CARGO_TARGET_DIR` is resolved by cargo in the workspace root and
  by xtask where it was started; `LikeCI` excepts it.  `--debug` and release
  packages share a name under `dist/`.  An empty `ADDON_ABI` gives a descriptor
  that does not parse, and the run succeeds.  A run that is killed or fails
  behind `remove_file` leaves no `.tpx`, or one that is cut off, under the final
  name (main.rs:150-158); a file that is renamed into place would not.
* Comments that the code has left behind: session.rs:13 says that input is not
  wired and `send_input` is a no-op; nvhttp.rs:14-15 names a fifth pairing phase
  over HTTPS, and identity.rs:7 its name, `pairchallenge`, which no request has.
* `proto.rs` says that the lock is held for a single `write_all`; it is held for
  three and a flush.

## 4. Proofs

All proofs are checked by TLAPS to the last leaf, for every number of engines,
session numbers, frames, threads, pairing sessions, identities, PINs, keys,
positions, wheel movements, lists of apps, targets and builds.  They assume what the modules' `ASSUME`s say:
`None` and the like are not members of the sets they are told apart from, bytes
and words have their ranges, and powers are what they are
(`PowerAssumption`: the prover knows `^` only as a name).

| Theorem | Property | Host | By |
| --- | --- | --- | --- |
| `SidecarProofs!TypeCorrect` | `TypeOK` | any | `TypeInv` |
| `HostProofs!ReleaseHolds` | `ReleasedOrExcused` | any | `BusyInv` |
| `HostProofs!ExitStopsHolds` | `ExitStopsEveryEngine` | any | `ReachInv` |
| `HostProofs!EarlyCloseHolds` | `NoLaunchAfterEarlyClose` | any | `Shut` |
| `HostProofs!SidecarImplementsProtocol` | `FollowsProtocol` (refinement) | any | `LastInv` |
| `IsolationProofs!OneStreamHolds` | `OneStream` | patient | `IInv` |
| `IsolationProofs!PumpIsUntouched` | `PumpUntouched` | patient | `ServedInv` |
| `IsolationProofs!TerminationHolds` | `TerminationIsOwn` | patient | `IInv` |
| `IsolationProofs!InputHolds` | `InputReachesOwn` | patient | `IInv` |
| `IsolationProofs!CleanCloseIsAnswer` | `CleanCloseWasAsked` | patient | `IInv` |
| `IsolationProofs!FramesHold` | `FramesInOrder` | patient | `IInv`, `FramesInv` |
| `FramingProofs!FramingTypeCorrect` | `TypeOK` | any | `FrameInv` |
| `FramingProofs!NeverDesynchronisedHolds` | `NeverDesynchronised` | any | `FrameInv` |
| `FramingProofs!FramingImplementsChannel` | `FollowsChannel` (refinement) | any | `FrameInv` |
| `PairingProofs!PairingTypeCorrect` | `TypeOK` | any | `PairingInv` |
| `PairingProofs!ConfirmationHolds` | `ConfirmsOnlyWithPin` | any | `PairingInv` |
| `PairingProofs!PairedHolds` | `PairedIsTrusted` | any | `PairingInv` |
| `PairingProofs!OneIdentityHolds` | `OneIdentity` | orderly | `OrderInv` |
| `PairingProofs!NeverAskedAgainHolds` | `NeverAskedAgain` | orderly | `OrderInv`, `TrustedInv` |
| `NvhttpProofs!HttpImplementsPairing` | `HttpSpec => Spec` of `Pairing` | any | – |
| `NvhttpProofs!PairingHoldsBesides` | `ConfirmsOnlyWithPin`, `PairedIsTrusted`, of `HttpSpec` | any | the refinement |
| `NvhttpProofs!OwnHolds` | `StreamsItsOwn` | any | `HttpInv` |
| `NvhttpProofs!HeldHolds` | `HeldIsExplained` | any | `HttpInv` |
| `NvhttpProofs!AppListIsOffer` | what `app_list` computes | – | `FlattenPlaces`, `TagBetween` |
| `NvhttpProofs!LaunchesDesktopHolds` | `LaunchesDesktop` | any | `OfferInv`, `AppListIsOffer` |
| `NvhttpProofs!HttpTypeHolds` | `HttpTypeOK` | any | `HttpInv`, `OfferInv` |
| `InputProofs!TypeCorrect` | `TypeOK` | – | `Inv` |
| `InputProofs!NothingIsStuck` | `NothingStuck` | – | `Inv` |
| `InputProofs!ButtonsDoFollow` | `ButtonsFollow` | – | `Inv` |
| `InputProofs!PointerDoesCatchUp` | `PointerCatchesUp` | – | `Inv` |
| `InputProofs!ClicksDoLand` | `ClicksLand` | – | `Inv` |
| `InputProofs!ScrollDoesFollow` | `ScrollFollows` | – | `Inv` (`ScrollInv`) |
| `PackageProofs!PackageIsBuilt` | `PackagesWhatItBuilt` | – | `PackageInv` |
| `PackageProofs!DeliveredIsKept` | `DeliveredStays` | – | `PackageInv` (`ContainerOK`) |
| `PackageProofs!DigestTypeCorrect` | `TypeOK` | – | `ShaInv` |
| `PackageProofs!DigestIsOfTheFile` | `DigestsTheFile` | – | `ShaInv` |
| `PackageProofs!ZerosEnd` | `PaddingIsShort` | – | `ShaInv` |

**The process, any host.**  `TypeInv` adds to `TypeOK` that the main thread
holds an engine exactly inside the handlers that need one, and that an owned
connection is not "down"; without these the next close would leave its type.
`BusyInv`: Sunshine holds a session for an engine only while that engine's
worker is between a successful `/launch` and the end of `release_host`, or has
an excuse.  `ReachInv`: an engine that nobody has told to stop is still in the
map or in the main thread's hands, so the drain finds it.  `LastInv` says for
each position of a worker what the last message in its log is, so that the next
one is one the protocol allows there.  `Shut` is stable: a worker that has been stopped before its only
look at the flag, and for which Sunshine holds nothing, only goes on to that
look, and from there to its end, without `/launch`; that it cannot hold anything
at the start is `BusyInv`.  These hold for every host, also one that never waits:
what the host can spoil is the *stream*, not the release.

**Isolation.**  `IInv`: at most one engine is *current* – its worker runs, or it
is in the map, or in the main thread's hands (`OneCurrent`) – because a patient
host connects only when everything it opened is closed and has said so
(`InsertAlone`, `ToldIsDone`).  From that, whatever touches the process-wide
stream touches the current engine's: its connection (`ConnOwned`, `ConnMine`)
and sink (`SinkMine`) are its own while nobody has begun to close it, and it
ends without an error only when somebody has (`EndedWasAsked`).  `FlagFresh`,
`SomebodyStops` and `DecoderBusy` carry the library through the window in which
a connection is being stopped.  `ServedInv` adds whose video session Sunshine
holds (`BusyMine`): from a successful `/launch` on it is that engine's own, until
its connection is lost, because an earlier worker has been through its `/cancel`
before it says `sessionClosed`.  The properties are not inductive without it:
`OneStream` says nothing of an engine that is in the map and finished, whose
`Drop` is what would stop the stream of the next one.  The assumption `Patient`
is needed: `eager` and `lazy` are the counterexamples without either half.
`FramesInv` adds that what an engine was shown, its channel and the unit in the
decoder callback are together the units 1, 2, … of its own connection, as long
as its sink has been fed by nobody else.

**Framing.**  `FrameInv` names the offsets at which the messages end, in the
order of the mutex (`Wire`).  What has been written are their bytes, but for the
end of the last one, of which the holder of the mutex has written exactly
`Written(t)`; all earlier messages have left the `LineWriter`; the reader is
inside the message after the last one it has returned.  So the four bytes it
takes for a length are the `to_le_bytes` of the length that `raw` computed, and
`RoundTrip` – the little-endian digits determine the number, for any base –
gives that length back.  Nothing is promised of the wire once the reader is
gone: a write that failed has left half a message there.

**Pairing.**  `PairingInv`: a pairing inside Sunshine belongs to one session
with that `uniqueid`, which has got past its first request, and its PIN is what
the user typed for that session (`SlotInv`).  So whatever decrypts under a
session's own key was made from its own PIN (`PinInv`), although another session
may have taken its place meanwhile; and a "paired" reply was sent by a Sunshine
that had just added the certificate (`TrustInv`).  `OrderInv`: while the host is
orderly, every identity ever generated is stored or on its way to the host.
`HttpInv` follows the video session: its holder is still going to release it, or
`left` says why not; without overlap nobody takes it over.

**The list of apps.**  `AppListIsOffer` is about the two functions alone, for
every list, whatever fields are missing and whatever their texts: the places in
`app_list(Rendered(apps))` are, in order, those of the apps with a title and a
number, and each has its own title and its own trimmed id.  The argument goes by
places in the body.  `FlattenPlaces` says where each operand of a concatenation
lies; `AppPlaces` that the `<App>`s of the body are those of the apps and that
the chunk of each is its fields and then only tags that belong to nobody's
fields; `TagBetween` what `xml_tag` finds between such texts, and `TagAbsent`
that it finds nothing else.  `OfferInv` says that what a session has chosen is
what `Chosen` makes of the list Sunshine has, and that it goes to `/launch` only
with a choice.  `LaunchesDesktop` is not inductive alone: it is silent about the
sessions that have yet to ask.

**Input.**  `Inv` says of what Sunshine holds that the release is still to come
– in `calls`, in the inbox, or in `last_buttons` against the mask of the last
pointer message (`KeysInv`, `PointerInv`, `ButtonsInv`) – and of the pointer
that it has arrived before the first button call of its message
(`PositionInv`), if nothing was missed before or the message was taken while the
stream was live.  For the wheel, `ScrollInv` needs the sum of the movements in
flight, which it states without a sum: there is a path of positions, one behind
each message of the inbox, that ends where the user has the wheel now and
whose steps are the movements of the messages; Sunshine has scrolled, or is
about to, as far as the path's beginning, up to `slack`.  A new message makes
the path longer at its end, one that is handled takes its first step away.

**Packaging.**  `PackageInv` carries the revision of the binary from the build
to the payload, for environments in which cargo and xtask mean the same path.
Its `ContainerOK` adds to `DeliveredStays` that a run which is past its payload
has put its own machine in doubt, and that the container it digests is whole:
the steps that touch `dist` touch that machine's only.
`ShaInv` keeps the bytes given to `update` so far (compressed, buffered and
still to take in) equal to a prefix of the padded file, and counts the zeros
that are missing (`Lengths`).

**Induction.**  The library's induction theorems have an operator as a
parameter, which the provers cannot instantiate.  Where an induction is needed,
over the operands of `FlattenSeq`, it is one on a set: `LeastOfSet` (from the
well-foundedness of `<`, `WFMin`) gives the least counterexample, and `OneByOne`
packs that up as "1 is in, and whatever is in is followed by one that is in".

**Only model-checked** is liveness under fairness: `ClosedSessionUnwinds`,
`MainReturns`, `LostStreamEnds`, `CallsReturn`, `MessagesArrive`.  Fairness is
about `ENABLED`, which is out of the prover's reach.  Every other property of a
passing run is the subject of a theorem.

## 5. Not modelled, and why

* The outcome that the thread cannot be spawned is in the model
  (`pc = "nothread"`): the code drops the error with `.ok()`, no `sessionClosed`
  is ever sent, and the host waits.  No document promises otherwise.
* moonlight-common-c calls the termination callback from a thread of its own; a
  callback that arrives after `LiStopConnection` has returned is not modelled:
  the library is not in the repository, and nothing in it tells whether that
  can happen.
* The memory of the unbounded channel while stdout is blocked.
* Service messages and the log lines of the callbacks; the clipboard, which
  `send_input` drops.
* Query strings and hexadecimal digits; certificates (openssl); the arithmetic
  of `compress`; the text of the package's descriptor.
* A connect document with only a part of an identity: no host writes one.
* Logging, FFI bindings, build scripts and CI: no state, or pure I/O.

## 6. Plan

Done: the process with a stdout that blocks (`Stream`, `Session`, `Sidecar`),
its protocol, the framing, pairing and the whole HTTP exchange, input, packaging
and the digest; the theorems of section 4.  Next:

1. **Extend.**  The late termination callback in `Stream`, once the library's
   promise is known.  A connect document with part of an identity in `Pairing`.
2. **Prove.**  What remains is liveness, and so its safety part: that whoever a
   waiting thread waits for is not waiting itself.
