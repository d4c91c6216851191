------------------------------- MODULE Package -------------------------------
(***************************************************************************)
(* `cargo xtask package` (crates/xtask/main.rs): build the sidecar, put    *)
(* the binary and its descriptor into a container under dist/, print the   *)
(* digest of the container.  The tool keeps nothing between two runs but   *)
(* the file system, where it finds what earlier runs, killed runs and      *)
(* plain `cargo build`s have left: so runs follow one another here, each   *)
(* in an environment of its own, while the sources are edited and built    *)
(* beside them.                                                            *)
(*                                                                         *)
(* A machine, Node's `${platform}-${arch}`, is the sequence of its two     *)
(* parts; <<>> stands for a variable that is unset or empty.  A binary is  *)
(* known by where it lies and by the revision of the sources it was built  *)
(* from.                                                                   *)
(***************************************************************************)
EXTENDS Sha256Buffer

CONSTANTS
    None,
    Host,          \* the machine xtask runs on
    TpxTargets,    \* values of TPX_TARGET: <<>>, machines, names without a dash
    CargoTargets,  \* values of CARGO_TARGET: <<>> and the machines of triples
    MaxRev,        \* bound: revisions of the sources
    MaxBuilds      \* bound: builds, by this tool or beside it

ASSUME PackageAssumption ==
    /\ Len(Host) = 2
    /\ \A t \in CargoTargets : Len(t) \in {0, 2}
    /\ \A t \in TpxTargets : Len(t) \in 0..2

\* CARGO_TARGET_DIR is fixed (not set, or absolute) or relative; and xtask was
\* started in the workspace root or below it.
TargetDirs == {"fixed", "relative"}
Env == [debug : BOOLEAN, tpx : TpxTargets, triple : CargoTargets,
        dir : TargetDirs, inRoot : BOOLEAN]

VARIABLES
    step,          \* of package(); "idle" between two runs
    env,           \* the environment of this run
    since,         \* history: the revision when it began
    rev,           \* the revision of the sources
    bins,          \* the binaries on disk: path -> revision, 0 for no file
    builds,        \* builds so far
    payload,       \* payload.zip in memory: the binary in it, or None
    dist,          \* dist/: machine -> its container
    told           \* history: machine -> what the runs so far let its user expect

tool == <<step, env, since, payload>>
disk == <<rev, bins, builds>>
allVars == <<vars, tool, disk, dist, told>>

-----------------------------------------------------------------------------
(* Names and paths                                                         *)

\* What is being built, and what it is called.
target(e) == IF e.tpx # <<>> THEN e.tpx ELSE Host
Machine(triple) == IF triple # <<>> THEN triple ELSE Host
exe(machine) == IF Head(machine) = "win32" THEN "moonlight.exe" ELSE "moonlight"

\* Where cargo writes: it runs in the root, so a relative directory is one
\* below the root.
CargoDir(e) == IF e.dir = "fixed" THEN "target" ELSE "root/t"
Path(dir, triple, debug, name) ==
    [dir |-> dir, triple |-> triple, debug |-> debug, exe |-> name]
CargoPath(e) == Path(CargoDir(e), e.triple, e.debug, exe(Machine(e.triple)))
Paths == {CargoPath(e) : e \in Env}
           \cup {[CargoPath(e) EXCEPT !.dir = "cwd/t"] : e \in Env}

\* Where xtask looks: it resolves a relative directory where it was started.
target_dir(e) == IF e.dir = "relative" /\ ~e.inRoot THEN "cwd/t" ELSE CargoDir(e)

\* Mutant: --debug is not looked at.
BugBin(e) == Path(target_dir(e), e.triple, FALSE, exe(target(e)))

bin(e) == Path(target_dir(e), e.triple, e.debug, exe(target(e)))
OnDisk(path) == IF path \in Paths THEN bins[path] ELSE 0

\* What payload.zip may hold.
Payloads == [path : Paths, rev : Nat]
ASSUME PayloadAssumption == None \notin Payloads

\* What lies in dist/ under the name of a machine: no file, a file without the
\* directory that makes it a container, or the container of a payload.
NoFile == [is |-> "absent", payload |-> None]
CutFile == [is |-> "cut", payload |-> None]
Whole(p) == [is |-> "whole", payload |-> p]

\* A run that has its payload may be replacing the container: until it
\* succeeds there is nothing to expect.
InDoubt == [is |-> "in doubt", payload |-> None]

Machines == {t \in TpxTargets \cup CargoTargets \cup {Host} : Len(t) = 2}

PackageInit ==
    /\ Init
    /\ step = "idle" /\ payload = None
    /\ env = None /\ since = 0
    /\ rev = 1 /\ builds = 0
    /\ bins = [p \in Paths |-> 0]
    /\ dist = [m \in Machines |-> NoFile]
    /\ told = dist

-----------------------------------------------------------------------------
(* package()                                                               *)

At(label) == step = label
Go(label) == step' = label /\ UNCHANGED <<env, since>>

\* Every `?` of package, and a kill: the locals are gone, the files stay.
Ends ==
    /\ step' = "idle" /\ env' = None /\ since' = 0 /\ payload' = None
    /\ file' = <<>> /\ state' = <<>> /\ buffered' = 0 /\ len' = 0 /\ data' = <<>>
    /\ buf' = [i \in 1..Block |-> Pad(0)] /\ bits' = 0 /\ phase' = "read"

Fails == step # "idle" /\ Ends /\ UNCHANGED <<disk, dist, told>>

\* A name for the target without a dash ends the run at once.
Start ==
    /\ At("idle")
    /\ env' \in {e \in Env : Len(target(e)) > 1}
    /\ since' = rev
    /\ step' = "build"
    /\ UNCHANGED <<vars, payload, disk, dist, told>>

\* cargo build, with --target for a CARGO_TARGET that is not empty; it reads
\* the sources at some time of this run.
Build ==
    /\ At("build")
    /\ builds < MaxBuilds
    /\ builds' = builds + 1
    /\ \E read \in since..rev : bins' = [bins EXCEPT ![CargoPath(env)] = read]
    /\ Go("find")
    /\ UNCHANGED <<vars, payload, rev, dist, told>>

\* bin.is_file(), and later fs::read(&bin): somebody may build in between.
Find ==
    /\ At("find")
    /\ OnDisk(bin(env)) > 0
    /\ Go("zip")
    /\ UNCHANGED <<vars, payload, disk, dist, told>>

Zip ==
    /\ At("zip")
    /\ payload' = [path |-> bin(env), rev |-> OnDisk(bin(env))]
    /\ told' = [told EXCEPT ![target(env)] = InDoubt]
    /\ Go("replace")
    /\ UNCHANGED <<vars, disk, dist>>

\* Mutant: the old container is removed before the build has succeeded.
BugMayReplace == At("build")

MayReplace == At("replace")

\* remove_file, whose failure is ignored, and File::create.
Remove ==
    /\ MayReplace
    /\ dist' \in {dist, [dist EXCEPT ![target(env)] = NoFile]}
    /\ Go("create")
    /\ UNCHANGED <<vars, payload, disk, told>>

Create ==
    /\ At("create")
    /\ dist' = [dist EXCEPT ![target(env)] = CutFile]
    /\ Go("write")
    /\ UNCHANGED <<vars, payload, disk, told>>

\* The entry, its bytes, and the zip's directory, without which the file is
\* not a container.
Write ==
    /\ At("write")
    /\ dist' = [dist EXCEPT ![target(env)] = Whole(payload)]
    /\ Go("digest")
    /\ UNCHANGED <<vars, payload, disk, told>>

\* sha256_hex(&out), of a file of any length.
Digest ==
    /\ At("digest")
    /\ Next
    /\ UNCHANGED <<tool, disk, dist, told>>

\* The path, the size and the digest are printed: exit code 0.
Succeeds ==
    /\ At("digest") /\ phase = "done"
    /\ told' = [told EXCEPT ![target(env)] = Whole(payload)]
    /\ Ends
    /\ UNCHANGED <<disk, dist>>

-----------------------------------------------------------------------------
(* Beside the tool                                                         *)

\* Somebody works on the sources ...
Edit ==
    /\ rev < MaxRev /\ rev' = rev + 1
    /\ UNCHANGED <<vars, tool, bins, builds, dist, told>>

\* ... or runs cargo build, in the root or below it.
CargoBuild ==
    /\ builds < MaxBuilds /\ builds' = builds + 1
    /\ \E p \in Paths : bins' = [bins EXCEPT ![p] = rev]
    /\ UNCHANGED <<vars, tool, rev, dist, told>>

PackageNext ==
    \/ Start \/ Build \/ Find \/ Zip \/ Remove \/ Create \/ Write \/ Digest
    \/ Succeeds \/ Fails
    \/ Edit \/ CargoBuild

PackageSpec == PackageInit /\ [][PackageNext]_allVars

-----------------------------------------------------------------------------
(* Properties                                                              *)

\* The environment of every CI job: the triple that is compiled for is the
\* machine the package is named after, and CARGO_TARGET_DIR means the same
\* directory to cargo and to xtask.
LikeCI(e) == Machine(e.triple) = target(e) /\ target_dir(e) = CargoDir(e)

\* In such an environment a run that succeeds has packaged what it has built,
\* or what was built since: for the machine in its name, in the profile that
\* was asked for, from sources no older than its start, whatever binaries of
\* other builds lie about ("Where cargo actually writes", main.rs).
PackagesWhatItBuilt ==
    At("digest") /\ LikeCI(env) =>
        /\ Machine(payload.path.triple) = target(env)
        /\ payload.path.debug = env.debug
        /\ payload.rev >= since

\* What a run has delivered stays what it was, with that run's own payload,
\* until a later run for the same machine has a complete payload to put in its
\* place: runs for other machines, builds and edits, and runs that fail or are
\* killed before that, cost nothing.  From there on, and only from there, a
\* failure or a kill can leave no file or one that is cut off; the next run for
\* that machine that succeeds makes up for it.
DeliveredStays ==
    \A m \in Machines : told[m] # InDoubt => dist[m] = told[m]
=============================================================================
