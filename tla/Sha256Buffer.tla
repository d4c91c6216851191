---------------------------- MODULE Sha256Buffer ----------------------------
(***************************************************************************)
(* The hand-written SHA-256 of the packaging tool (crates/xtask/main.rs),  *)
(* as sha256_hex drives it over a file that arrives in reads of any size.  *)
(* Modelled is what the code does with bytes - the block buffer, the       *)
(* counters, the padding - not the arithmetic inside compress: the digest  *)
(* is a function of `state`, the bytes compressed so far.                  *)
(*                                                                         *)
(* A byte of the file is its offset, so that bytes lost, doubled or out of *)
(* order show.                                                             *)
(***************************************************************************)
EXTENDS Naturals, Sequences

CONSTANTS
    Block,         \* bytes in a block: 64 in the program
    LenBytes,      \* bytes of the length field: 8
    Base,          \* 256
    MaxRead,       \* the size of sha256_hex's buffer: 64 KiB
    MaxFile        \* bound: the length of the file

ASSUME Sha256Assumption ==
    /\ Block \in Nat /\ LenBytes \in Nat \ {0}
    /\ LenBytes < Block
    /\ Base \in Nat /\ Base > 128
    /\ MaxRead \in Nat \ {0}
    /\ MaxFile \in Nat

CounterMod == Base ^ LenBytes         \* 2^64

\* No arithmetic beyond this is needed of the powers.
ASSUME PowerAssumption == \A k \in 0..LenBytes : Base ^ k \in Nat \ {0}

VARIABLES
    file,          \* history: what has been read so far
    state,         \* the bytes compressed so far
    buf, buffered, len,
    data,          \* what update still has to take in
    bits,          \* of finish
    phase          \* "read"; of finish: "zeros", "length", "done"

vars == <<file, state, buf, buffered, len, data, bits, phase>>

FileByte == [offset : 0..(MaxFile - 1)]
Byte == 0..(Base - 1)
Char == FileByte \cup [pad : Byte]
Pad(b) == [pad |-> b]

\* buffered never reaches Block between two steps, and whole blocks are
\* compressed.
TypeOK ==
    /\ file \in Seq(FileByte) /\ Len(file) <= MaxFile
    /\ state \in Seq(Char) /\ Len(state) % Block = 0
    /\ buf \in [1..Block -> Char]
    /\ buffered \in 0..(Block - 1)
    /\ len \in 0..(CounterMod - 1)
    /\ data \in Seq(Char)
    /\ bits \in 0..(CounterMod - 1)
    /\ phase \in {"read", "zeros", "length", "done"}

Init ==
    /\ file = <<>>
    /\ state = <<>>
    /\ buf = [i \in 1..Block |-> Pad(0)]
    /\ buffered = 0
    /\ len = 0
    /\ data = <<>>
    /\ bits = 0
    /\ phase = "read"

-----------------------------------------------------------------------------
(* update                                                                  *)

\* The head of update: nothing is left of the bytes of the call before.
Update(bytes) ==
    /\ data = <<>>
    /\ data' = bytes
    /\ len' = (len + Len(bytes)) % CounterMod

\* Mutant: the buffer is only compressed by the byte after the one that
\* fills it.
BugFull(n) == n > Block

Full(n) == n = Block

Rest(n) == SubSeq(data, n + 1, Len(data))

\* One round of its loop: fill the buffer, and compress it when it is full.
TakeIn ==
    /\ data # <<>>
    /\ LET room == Block - buffered
           n == IF Len(data) < room THEN Len(data) ELSE room
           filled == [i \in 1..Block |->
                        IF i \in (buffered + 1)..(buffered + n)
                        THEN data[i - buffered] ELSE buf[i]]
       IN /\ buf' = filled
          /\ data' = Rest(n)
          /\ IF Full(buffered + n)
             THEN state' = state \o filled /\ buffered' = 0
             ELSE buffered' = buffered + n /\ UNCHANGED state
    /\ UNCHANGED <<file, len, bits, phase>>

-----------------------------------------------------------------------------
(* sha256_hex and finish                                                   *)

\* f.read gives n bytes, at most MaxRead, and they are fed to update.
Read ==
    /\ phase = "read"
    /\ \E n \in 1..MaxRead :
         LET chunk == [i \in 1..n |-> [offset |-> Len(file) + i - 1]] IN
         /\ Len(file) + n <= MaxFile
         /\ file' = file \o chunk
         /\ Update(chunk)
    /\ UNCHANGED <<state, buf, buffered, bits, phase>>

\* Mutant: the length is taken when the padding has begun.
BugCounted == len'

Counted == len

\* read gives 0: finish notes the length and feeds 0x80.
FinishBegin ==
    /\ phase = "read"
    /\ Update(<<Pad(128)>>)
    /\ bits' = (Counted * 8) % CounterMod
    /\ phase' = "zeros"
    /\ UNCHANGED <<file, state, buf, buffered>>

\* Mutant: the loop waits for a place that a block does not have.
BugLengthAt == Block

\* Where the length field begins: 56.
LengthAt == Block - LenBytes

\* while self.buffered != 56
FinishZero ==
    /\ phase = "zeros"
    /\ buffered # LengthAt
    /\ Update(<<Pad(0)>>)
    /\ UNCHANGED <<file, state, buf, buffered, bits, phase>>

to_be_bytes(n) ==
    [i \in 1..LenBytes |-> Pad((n \div Base ^ (LenBytes - i)) % Base)]

FinishLength ==
    /\ phase = "zeros"
    /\ buffered = LengthAt
    /\ Update(to_be_bytes(bits))
    /\ phase' = "length"
    /\ UNCHANGED <<file, state, buf, buffered, bits>>

FinishEnd ==
    /\ phase = "length"
    /\ data = <<>>
    /\ phase' = "done"
    /\ UNCHANGED <<file, state, buf, buffered, len, data, bits>>

Done == phase = "done" /\ UNCHANGED vars

Next ==
    \/ Read \/ TakeIn
    \/ FinishBegin \/ FinishZero \/ FinishLength \/ FinishEnd
    \/ Done

Spec == Init /\ [][Next]_vars

-----------------------------------------------------------------------------
(* Properties                                                              *)

\* The padding of FIPS 180-4: 0x80, the fewest zeros that make room for the
\* length at the end of a block, and the length in bits.
Padded(message) ==
    LET n == Len(message)
        zeros == CHOOSE k \in 0..(Block - 1) : (n + 1 + k + LenBytes) % Block = 0
    IN message \o <<Pad(128)>> \o [i \in 1..zeros |-> Pad(0)]
         \o to_be_bytes((n * 8) % CounterMod)

\* However the file was cut into reads, what has been compressed in the end
\* is the file with its FIPS 180-4 padding ("the buffering path must agree
\* with the bulk path", the test handles_the_padding_boundaries).
DigestsTheFile == phase = "done" => state = Padded(file) /\ buffered = 0

\* finish ends: its zeros never go on past the first place where the length
\* field fits.
PaddingIsShort == Len(state) + buffered < Len(file) + Block + LenBytes + 1
=============================================================================
