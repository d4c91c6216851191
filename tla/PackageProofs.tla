--------------------------- MODULE PackageProofs ---------------------------
(***************************************************************************)
(* What `cargo xtask package` promises about its files and its digest, for *)
(* every set of targets and block size, any number of revisions, builds    *)
(* and bytes.  First the SHA-256 by itself, then the tool around it.       *)
(***************************************************************************)
EXTENDS Package, Integers, SequenceTheorems, TLAPS

-----------------------------------------------------------------------------
(* Remainders                                                              *)

LEMMA ModOf ==
  ASSUME NEW M \in Nat \ {0}, NEW q \in Nat, NEW r \in 0..(M - 1)
  PROVE  (M * q + r) % M = r
<1> DEFINE a == M * q + r
<1>1. a \in Nat /\ M * q \in Nat
  OBVIOUS
<1>2. PICK d \in Nat, s \in 0..(M - 1) : a = M * d + s /\ s = a % M
  <2>1. a = M * (a \div M) + (a % M) /\ a \div M \in Nat /\ a % M \in 0..(M - 1)
    BY <1>1
  <2> QED
    BY <2>1
<1>3. M * (q - d) = s - r
  BY <1>2
<1>4. q - d < 1
  BY <1>3
<1>5. q - d > -1
  BY <1>3
<1> QED
  BY <1>2, <1>3, <1>4, <1>5

LEMMA Division ==
  ASSUME NEW M \in Nat \ {0}, NEW a \in Nat
  PROVE  \E q \in Nat, r \in 0..(M - 1) : a = M * q + r /\ a % M = r
<1>1. a = M * (a \div M) + (a % M) /\ a \div M \in Nat /\ a % M \in 0..(M - 1)
  OBVIOUS
<1> QED
  BY <1>1

LEMMA ModPlus ==
  ASSUME NEW M \in Nat \ {0}, NEW a \in Nat, NEW b \in Nat
  PROVE  ((a % M) + b) % M = (a + b) % M
<1>1. PICK q \in Nat, r \in 0..(M - 1) : a = M * q + r /\ a % M = r
  BY Division
<1>2. PICK p \in Nat, t \in 0..(M - 1) : r + b = M * p + t
  <2>1. r + b \in Nat
    OBVIOUS
  <2>2. PICK p \in Nat, t \in 0..(M - 1) : r + b = M * p + t /\ (r + b) % M = t
    BY <2>1, Division
  <2> QED
    BY <2>2
<1>3. a + b = M * (q + p) + t /\ q + p \in Nat
  <2>1. M * (q + p) = M * q + M * p /\ M * q \in Nat /\ M * p \in Nat
    OBVIOUS
  <2> QED
    BY <1>1, <1>2, <2>1
<1>4. (r + b) % M = t
  BY <1>2, ModOf
<1>5. (a + b) % M = t
  BY <1>3, ModOf
<1> QED
  BY <1>1, <1>4, <1>5

LEMMA ModTimes ==
  ASSUME NEW M \in Nat \ {0}, NEW a \in Nat
  PROVE  ((a % M) * 8) % M = (a * 8) % M
<1>1. PICK q \in Nat, r \in 0..(M - 1) : a = M * q + r /\ a % M = r
  BY Division
<1>2. PICK p \in Nat, t \in 0..(M - 1) : r * 8 = M * p + t
  <2>1. r * 8 \in Nat
    OBVIOUS
  <2>2. PICK p \in Nat, t \in 0..(M - 1) : r * 8 = M * p + t /\ (r * 8) % M = t
    BY <2>1, Division
  <2> QED
    BY <2>2
<1>3. PICK k \in Nat : a * 8 = M * k + t
  <2>1. M * (8 * q + p) = 8 * (M * q) + M * p /\ M * q \in Nat /\ M * p \in Nat
    OBVIOUS
  <2> QED
    BY <1>1, <1>2, <2>1, 8 * q + p \in Nat
<1>4. (r * 8) % M = t
  BY <1>2, ModOf
<1>5. (a * 8) % M = t
  BY <1>3, ModOf
<1> QED
  BY <1>1, <1>4, <1>5

LEMMA ModNext ==
  ASSUME NEW M \in Nat \ {0}, NEW a \in Nat, a % M = 0, NEW r \in 0..(M - 1)
  PROVE  (a + M) % M = 0 /\ (a + r) % M = r
<1>1. PICK q \in Nat : a = M * q
  <2>1. PICK q \in Nat, s \in 0..(M - 1) : a = M * q + s /\ a % M = s
    BY Division
  <2> QED
    BY <2>1
<1>2. M * (q + 1) + 0 = a + M /\ q + 1 \in Nat /\ 0 \in 0..(M - 1)
  BY <1>1
<1>3. (M * (q + 1) + 0) % M = 0
  BY <1>2, ModOf
<1>4. (M * q + r) % M = r
  BY ModOf
<1> QED
  BY <1>1, <1>2, <1>3, <1>4

LEMMA ModOnce ==
  ASSUME NEW M \in Nat \ {0}, NEW a \in Nat, NEW j \in 0..(M - 1), NEW k \in 0..(M - 1),
         (a + j) % M = 0, (a + k) % M = 0
  PROVE  j = k
<1>1. PICK q \in Nat : a + j = M * q
  <2>1. PICK q \in Nat, s \in 0..(M - 1) : a + j = M * q + s /\ (a + j) % M = s
    <3>1. a + j \in Nat
      OBVIOUS
    <3> QED
      BY <3>1, Division
  <2>2. M * q \in Nat /\ s = 0
    BY <2>1
  <2> QED
    BY <2>1, <2>2
<1>2. PICK p \in Nat : a + k = M * p
  <2>1. PICK p \in Nat, s \in 0..(M - 1) : a + k = M * p + s /\ (a + k) % M = s
    <3>1. a + k \in Nat
      OBVIOUS
    <3> QED
      BY <3>1, Division
  <2>2. M * p \in Nat /\ s = 0
    BY <2>1
  <2> QED
    BY <2>1, <2>2
<1>3. M * (q - p) = j - k
  BY <1>1, <1>2
<1>4. q - p < 1 /\ q - p > -1
  BY <1>3
<1> QED
  BY <1>3, <1>4

-----------------------------------------------------------------------------
(* The invariant of the buffer                                             *)

\* What update has been given so far: compressed, buffered, still to take in.
Given == Len(state) + buffered + Len(data)
GivenAt(i) ==
    IF i <= Len(state) THEN state[i]
    ELSE IF i <= Len(state) + buffered THEN buf[i - Len(state)]
    ELSE data[i - (Len(state) + buffered)]

\* What it should have been given: the file and then the padding, which ends
\* with the length field from FinishLength on.
Ending == phase \in {"length", "done"}
PaddedAt(i) ==
    IF i <= Len(file) THEN file[i]
    ELSE IF i = Len(file) + 1 THEN Pad(128)
    ELSE IF Ending /\ i > Given - LenBytes
         THEN to_be_bytes((Len(file) * 8) % CounterMod)[i - (Given - LenBytes)]
         ELSE Pad(0)

\* The zeros that are still missing before the length field fits.
Missing == IF buffered <= LengthAt THEN LengthAt - buffered
           ELSE Block + LengthAt - buffered

Lengths ==
    LET n == Len(file) IN
    /\ len = Given % CounterMod
    /\ phase = "read" => Given = n
    /\ phase # "read" => bits = (n * 8) % CounterMod
    /\ phase = "zeros" =>
         \/ data = <<>> /\ Given + Missing \in (n + 1)..(n + Block) /\ Given > n
         \/ Len(data) = 1 /\ Given = n + 1
         \/ /\ Len(data) = 1 /\ Given > n + 1 /\ Missing > 0
            /\ Given - 1 + Missing \in (n + 1)..(n + Block)
    /\ Ending => Given - LenBytes \in (n + 1)..(n + Block) /\ Given % Block = 0
    /\ phase = "done" => data = <<>>

Contents == \A i \in 1..Given : GivenAt(i) = PaddedAt(i)

ShaInv == TypeOK /\ Lengths /\ Contents

\* In numbers: what one call of update, or one round of its loop, does.
LEMMA Sizes ==
  ASSUME TypeOK
  PROVE  /\ Len(state) \in Nat /\ buffered \in Nat /\ buffered < Block
         /\ Len(data) \in Nat /\ Given \in Nat /\ Len(file) \in Nat
         /\ Block \in Nat \ {0} /\ LenBytes \in Nat \ {0} /\ LenBytes < Block
         /\ CounterMod \in Nat \ {0}
         /\ LengthAt \in 0..(Block - 1) /\ LengthAt + LenBytes = Block
         /\ Missing \in 0..(Block - 1)
<1>1. CounterMod \in Nat \ {0}
  BY Sha256Assumption, PowerAssumption DEF CounterMod
<1>2. Len(state) \in Nat /\ Len(data) \in Nat /\ Len(file) \in Nat
  BY DEF TypeOK
<1> QED
  BY <1>1, <1>2, Sha256Assumption DEF TypeOK, Given, LengthAt, Missing

LEMMA UpdateAdds ==
  ASSUME TypeOK, NEW bytes \in Seq(Char), Update(bytes), len = Given % CounterMod,
         UNCHANGED <<state, buf, buffered>>
  PROVE  /\ data' = bytes /\ data = <<>>
         /\ Given' = Given + Len(bytes) /\ len' = Given' % CounterMod
         /\ len' \in 0..(CounterMod - 1)
         /\ \A i \in 1..Given : GivenAt(i)' = GivenAt(i)
         /\ \A i \in Nat : i > Given => GivenAt(i)' = bytes[i - Given]
<1>1. /\ data = <<>> /\ data' = bytes /\ len' = (len + Len(bytes)) % CounterMod
      /\ Len(data) = 0 /\ Len(bytes) \in Nat
  BY DEF Update
<1>0. PICK L \in Nat, b \in Nat : L = Len(state) /\ b = buffered
  BY Sizes
<1>2. Given = L + b /\ Given' = L + b + Len(bytes)
  BY <1>0, <1>1 DEF Given
<1>3. len' = Given' % CounterMod /\ len' \in 0..(CounterMod - 1)
  <2>1. CounterMod \in Nat \ {0} /\ Given \in Nat /\ Given + Len(bytes) \in Nat
    BY <1>1, <1>2, Sizes
  <2>2. ((Given % CounterMod) + Len(bytes)) % CounterMod = (Given + Len(bytes)) % CounterMod
    BY <1>1, <2>1, ModPlus
  <2>3. (Given + Len(bytes)) % CounterMod \in 0..(CounterMod - 1)
    BY <2>1, Division
  <2>4. Given' = Given + Len(bytes)
    BY <1>1, <1>2
  <2> QED
    BY <1>1, <2>2, <2>3, <2>4
<1>4. \A i \in Nat : i <= L + b => GivenAt(i)' = GivenAt(i)
  BY <1>0 DEF GivenAt
<1>5. \A i \in Nat : i > L + b => GivenAt(i)' = bytes[i - (L + b)]
  BY <1>0, <1>1 DEF GivenAt
<1>6. \A i \in Nat : i > Given => GivenAt(i)' = bytes[i - Given]
  BY <1>2, <1>5
<1> QED
  BY <1>1, <1>2, <1>3, <1>4, <1>6

LEMMA TakeInKeeps ==
  ASSUME TypeOK, TakeIn
  PROVE  /\ TypeOK'
         /\ Given' = Given
         /\ \A i \in 1..Given : GivenAt(i)' = GivenAt(i)
         /\ UNCHANGED <<file, len, bits, phase>>
         /\ \E n \in 1..Len(data) :
              /\ Len(data') = Len(data) - n
              /\ buffered' = IF buffered + n = Block THEN 0 ELSE buffered + n
              /\ n = IF Len(data) < Block - buffered THEN Len(data) ELSE Block - buffered
<1>0. PICK L \in Nat, b \in Nat, d \in Nat, B \in Nat \ {0} :
        L = Len(state) /\ b = buffered /\ d = Len(data) /\ B = Block /\ b < B
  BY Sizes
<1> DEFINE n == IF d < B - b THEN d ELSE B - b
           filled == [i \in 1..B |-> IF i \in (b + 1)..(b + n) THEN data[i - b] ELSE buf[i]]
<1>1. /\ data # <<>> /\ buf' = filled /\ data' = SubSeq(data, n + 1, d)
      /\ IF b + n = B
         THEN state' = state \o filled /\ buffered' = 0
         ELSE buffered' = b + n /\ state' = state
      /\ UNCHANGED <<file, len, bits, phase>>
  BY <1>0 DEF TakeIn, Rest, Full
<1>2. /\ state \in Seq(Char) /\ data \in Seq(Char) /\ buf \in [1..B -> Char]
      /\ L % B = 0
  BY <1>0 DEF TypeOK
<1>3. d > 0
  BY <1>0, <1>1, <1>2
<1>4. n \in 1..d /\ b + n <= B /\ n \in Nat
  BY <1>0, <1>3
<1>n. n = IF d < B - b THEN d ELSE B - b
  OBVIOUS
<1> HIDE DEF n
<1>5. filled \in [1..B -> Char] /\ filled \in Seq(Char) /\ Len(filled) = B
  <2>1. \A i \in (b + 1)..(b + n) : data[i - b] \in Char
    BY <1>0, <1>2, <1>4
  <2>2. filled \in [1..B -> Char]
    BY <1>2, <2>1
  <2> QED
    BY <2>2, <1>0
<1>6. /\ \A i \in 1..b : filled[i] = buf[i]
      /\ \A i \in (b + 1)..(b + n) : filled[i] = data[i - b]
  <2>1. \A i \in 1..b : i \in 1..B /\ ~(i \in (b + 1)..(b + n))
    BY <1>4
  <2>2. \A i \in (b + 1)..(b + n) : i \in 1..B
    BY <1>4
  <2> QED
    BY <2>1, <2>2
<1>7. /\ data' \in Seq(Char) /\ Len(data') = d - n
      /\ \A i \in 1..(d - n) : data'[i] = data[n + i]
  BY <1>0, <1>1, <1>2, <1>4
<1> HIDE DEF filled
<1>g. \A i \in Nat : GivenAt(i) = IF i <= L THEN state[i] ELSE
                                  IF i <= L + b THEN buf[i - L] ELSE data[i - (L + b)]
  BY <1>0 DEF GivenAt
<1>8. CASE b + n = B
  <2>1. /\ state' \in Seq(Char) /\ Len(state') = L + B /\ buffered' = 0
        /\ \A i \in 1..L : state'[i] = state[i]
        /\ \A i \in 1..B : state'[L + i] = filled[i]
    <3>1. state' = state \o filled /\ buffered' = 0
      BY <1>1, <1>8
    <3>2. state' \in Seq(Char)
      BY <1>2, <1>5, <3>1
    <3>3. Len(state') = L + B
      <4>1. Len(state \o filled) = Len(state) + Len(filled)
        BY <1>2, <1>5, ConcatProperties, Zenon
      <4> QED
        BY <1>0, <1>5, <3>1, <4>1
    <3>4. \A i \in 1..L : state'[i] = state[i]
      <4>1. \A i \in 1..(Len(state) + Len(filled)) :
              (state \o filled)[i] = IF i <= Len(state) THEN state[i]
                                     ELSE filled[i - Len(state)]
        BY <1>2, <1>5
      <4> QED
        BY <1>0, <1>5, <3>1, <4>1
    <3>5. \A i \in 1..B : state'[L + i] = filled[i]
      <4>1. \A i \in 1..(Len(state) + Len(filled)) :
              (state \o filled)[i] = IF i <= Len(state) THEN state[i]
                                     ELSE filled[i - Len(state)]
        BY <1>2, <1>5
      <4>2. \A i \in 1..B : L + i \in 1..(L + B) /\ ~(L + i <= L) /\ (L + i) - L = i
        OBVIOUS
      <4> QED
        BY <1>0, <1>5, <3>1, <4>1, <4>2
    <3> QED
      BY <3>1, <3>2, <3>3, <3>4, <3>5
  <2>0. (L + B) % B = 0
    <3>1. 0 \in 0..(B - 1)
      OBVIOUS
    <3> QED
      BY <1>2, <3>1, ModNext
  <2>2. Len(state') % B = 0
    BY <2>0, <2>1
  <2>3. Given' = Given
    <3>1. Given' = (L + B) + 0 + (d - n)
      BY <1>7, <2>1 DEF Given
    <3>2. Given = L + b + d
      BY <1>0 DEF Given
    <3> QED
      BY <1>4, <1>8, <3>1, <3>2
  <2>4. TypeOK'
    BY <1>0, <1>1, <1>5, <1>7, <2>1, <2>2, SMTT(30) DEF TypeOK
  <2>5. \A i \in Nat : GivenAt(i)' = IF i <= L + B THEN state'[i] ELSE
                                     IF i <= L + B + 0 THEN buf'[i - (L + B)]
                                     ELSE data'[i - (L + B)]
    BY <2>1 DEF GivenAt
  <2>6. ASSUME NEW i \in Nat, i > 0, i <= L + b + d PROVE GivenAt(i)' = GivenAt(i)
    <3>1. CASE i <= L
      BY <1>g, <2>1, <2>5, <2>6, <3>1
    <3>2. CASE i > L /\ i <= L + b
      <4>1. PICK k \in 1..b : k = i - L /\ i = L + k
        BY <3>2
      <4>2. state'[i] = buf[k]
        BY <4>1, <2>1, <1>0, <1>6
      <4>3. GivenAt(i)' = state'[i]
        BY <1>0, <2>5, <3>2
      <4> QED
        BY <1>g, <3>2, <4>1, <4>2, <4>3
    <3>3. CASE i > L + b /\ i <= L + B
      <4>1. PICK k \in (b + 1)..(b + n) : k = i - L /\ i = L + k /\ k - b = i - (L + b)
        BY <1>4, <1>8, <3>3
      <4>2. k \in 1..B
        BY <4>1, <1>8
      <4>3. state'[i] = data[k - b]
        BY <4>1, <4>2, <2>1, <1>6
      <4>4. GivenAt(i)' = state'[i]
        BY <2>5, <3>3
      <4> QED
        BY <1>g, <3>3, <4>1, <4>3, <4>4
    <3>4. CASE i > L + B
      <4>1. PICK k \in 1..(d - n) : k = i - (L + B) /\ n + k = i - (L + b)
        BY <1>4, <1>8, <2>6, <3>4
      <4>2. ~(i <= L) /\ ~(i <= L + b)
        BY <1>0, <3>4
      <4> QED
        BY <1>7, <1>g, <2>5, <3>4, <4>1, <4>2
    <3> QED
      BY <3>1, <3>2, <3>3, <3>4
  <2>7. \A i \in 1..Given : GivenAt(i)' = GivenAt(i)
    BY <1>0, <2>6 DEF Given
  <2> QED
    BY <1>0, <1>1, <1>4, <1>7, <1>8, <1>n, <2>1, <2>3, <2>4, <2>7
<1>9. CASE b + n # B
  <2>1. state' = state /\ buffered' = b + n /\ b + n < B /\ n = d
    BY <1>0, <1>1, <1>4, <1>9, <1>n
  <2>3. Given' = Given
    BY <1>0, <1>7, <2>1, <1>4 DEF Given
  <2>4. TypeOK'
    BY <1>0, <1>1, <1>5, <1>7, <2>1, <1>4, SMTT(30) DEF TypeOK
  <2>5. \A i \in Nat : i <= L + b + n =>
          GivenAt(i)' = IF i <= L THEN state[i] ELSE filled[i - L]
    BY <1>0, <1>1, <1>4, <2>1 DEF GivenAt
  <2>6. ASSUME NEW i \in Nat, i > 0, i <= L + b + d PROVE GivenAt(i)' = GivenAt(i)
    <3>1. CASE i <= L
      BY <1>g, <2>1, <2>5, <2>6, <3>1
    <3>2. CASE i > L /\ i <= L + b
      <4>1. PICK k \in 1..b : k = i - L
        BY <3>2
      <4> QED
        BY <1>6, <1>g, <2>1, <2>5, <2>6, <3>2, <4>1
    <3>3. CASE i > L + b
      <4>1. PICK k \in (b + 1)..(b + n) : k = i - L /\ k - b = i - (L + b)
        BY <1>4, <2>1, <2>6, <3>3
      <4> QED
        BY <1>6, <1>g, <2>1, <2>5, <2>6, <3>3, <4>1
    <3> QED
      BY <3>1, <3>2, <3>3
  <2>7. \A i \in 1..Given : GivenAt(i)' = GivenAt(i)
    BY <1>0, <2>6 DEF Given
  <2> QED
    BY <1>0, <1>1, <1>4, <1>7, <1>9, <1>n, <2>1, <2>3, <2>4, <2>7
<1> QED
  BY <1>8, <1>9

LEMMA ShaInvInit == Init => ShaInv
<1> SUFFICES ASSUME Init PROVE ShaInv
  OBVIOUS
<1>1. /\ file = <<>> /\ state = <<>> /\ data = <<>> /\ buffered = 0 /\ len = 0 /\ bits = 0
      /\ phase = "read" /\ buf = [i \in 1..Block |-> Pad(0)]
  BY DEF Init
<1>2. CounterMod \in Nat \ {0} /\ Block \in Nat \ {0} /\ MaxFile \in Nat /\ Base \in Nat \ {0}
  BY Sha256Assumption, PowerAssumption DEF CounterMod
<1>3. \A M \in Nat \ {0} : 0 % M = 0
  <2> SUFFICES ASSUME NEW M \in Nat \ {0} PROVE 0 % M = 0
    OBVIOUS
  <2>1. 0 \in 0..(M - 1) /\ 0 \in Nat
    OBVIOUS
  <2>2. (M * 0 + 0) % M = 0
    BY <2>1, ModOf
  <2> QED
    BY <2>2
<1>4. Pad(0) \in Char
  BY <1>2 DEF Pad, Char, Byte
<1>5. TypeOK
  BY <1>1, <1>2, <1>3, <1>4 DEF TypeOK
<1>6. Given = 0
  BY <1>1 DEF Given
<1> QED
  BY <1>1, <1>2, <1>3, <1>5, <1>6 DEF ShaInv, Lengths, Contents, Ending

\* A read puts a piece of the file behind the rest.
LEMMA ReadStep == ASSUME ShaInv, Read PROVE ShaInv'
<1>1. TypeOK /\ Lengths /\ Contents /\ phase = "read" /\ len = Given % CounterMod
  BY DEF ShaInv, Lengths, Read
<1>2. PICK n \in 1..MaxRead :
        LET chunk == [i \in 1..n |-> [offset |-> Len(file) + i - 1]] IN
        Len(file) + n <= MaxFile /\ file' = file \o chunk /\ Update(chunk)
  BY DEF Read
<1> DEFINE chunk == [i \in 1..n |-> [offset |-> Len(file) + i - 1]]
<1>3. PICK m \in Nat : m = Len(file) /\ Given = m
  BY <1>1, Sizes DEF Lengths
<1>4. n \in Nat /\ n > 0 /\ m + n <= MaxFile /\ MaxFile \in Nat
  BY <1>2, <1>3, Sha256Assumption
<1>5. chunk \in Seq(FileByte) /\ Len(chunk) = n
  BY <1>3, <1>4 DEF FileByte
<1>6. file' = file \o chunk /\ Update(chunk) /\ UNCHANGED <<state, buf, buffered, bits, phase>>
  BY <1>2 DEF Read
<1> HIDE DEF chunk
<1>7. chunk \in Seq(Char) /\ file \in Seq(FileByte)
  BY <1>1, <1>5 DEF Char, TypeOK
<1>8. /\ data' = chunk /\ data = <<>> /\ Given' = m + n /\ len' = Given' % CounterMod
      /\ len' \in 0..(CounterMod - 1)
      /\ \A i \in 1..m : GivenAt(i)' = GivenAt(i)
      /\ \A i \in Nat : i > m => GivenAt(i)' = chunk[i - m]
  BY <1>1, <1>3, <1>5, <1>6, <1>7, UpdateAdds
<1>9. file' \in Seq(FileByte) /\ Len(file') = m + n
  BY <1>3, <1>5, <1>6, <1>7, ConcatProperties
<1>10. \A i \in 1..(m + n) : file'[i] = IF i <= m THEN file[i] ELSE chunk[i - m]
  BY <1>3, <1>5, <1>6, <1>7, ConcatProperties
<1>11. TypeOK'
  BY <1>1, <1>4, <1>6, <1>7, <1>8, <1>9 DEF TypeOK
<1>12. Lengths'
  BY <1>1, <1>6, <1>8, <1>9 DEF Lengths, Ending
<1>13. \A i \in 1..m : GivenAt(i) = file[i]
  BY <1>1, <1>3 DEF Contents, PaddedAt
<1>14. ASSUME NEW i \in 1..(m + n) PROVE GivenAt(i)' = PaddedAt(i)'
  <2>1. PaddedAt(i)' = file'[i]
    BY <1>9 DEF PaddedAt
  <2>2. CASE i <= m
    BY <1>8, <1>10, <1>13, <2>1, <2>2
  <2>3. CASE i > m
    BY <1>8, <1>10, <2>1, <2>3
  <2> QED
    BY <2>2, <2>3
<1> QED
  BY <1>8, <1>11, <1>12, <1>14 DEF ShaInv, Contents

\* A round of update's loop moves bytes and counts them.
LEMMA TakeInStep == ASSUME ShaInv, TakeIn PROVE ShaInv'
<1>1. TypeOK /\ Lengths /\ Contents /\ TypeOK' /\ Given' = Given
      /\ (\A i \in 1..Given : GivenAt(i)' = GivenAt(i))
      /\ UNCHANGED <<file, len, bits, phase>>
  BY TakeInKeeps DEF ShaInv
<1>2. PICK n \in 1..Len(data) :
        /\ Len(data') = Len(data) - n
        /\ buffered' = IF buffered + n = Block THEN 0 ELSE buffered + n
        /\ n = IF Len(data) < Block - buffered THEN Len(data) ELSE Block - buffered
  BY TakeInKeeps DEF ShaInv
<1>3. Contents'
  BY <1>1 DEF Contents, PaddedAt, Ending
<1>4. data # <<>> /\ phase # "done"
  <2>1. data # <<>>
    BY DEF TakeIn
  <2>2. phase = "done" => data = <<>>
    BY <1>1 DEF Lengths
  <2> QED
    BY <2>1, <2>2, Zenon
<1>5. PICK m \in Nat, b \in Nat, B \in Nat \ {0}, at \in Nat, g \in Nat :
        m = Len(file) /\ b = buffered /\ B = Block /\ b < B /\ at < B /\ at = LengthAt /\ g = Given
  BY <1>1, Sizes, SMTT(30)
<1>6. /\ Missing = IF b <= at THEN at - b ELSE B + at - b
      /\ Missing' = IF buffered' <= at THEN at - buffered' ELSE B + at - buffered'
  BY <1>5 DEF Missing, LengthAt
<1>7. CASE phase = "zeros"
  <2>1. \/ Len(data) = 1 /\ g = m + 1
        \/ Len(data) = 1 /\ g > m + 1 /\ Missing > 0 /\ g - 1 + Missing \in (m + 1)..(m + B)
    BY <1>1, <1>4, <1>5, <1>7 DEF Lengths
  <2>2. n = 1 /\ Len(data') = 0 /\ buffered' = IF b + 1 = B THEN 0 ELSE b + 1
    <3>1. Len(data) = 1
      BY <2>1
    <3>2. n = 1
      BY <3>1
    <3> QED
      BY <1>2, <1>5, <3>1, <3>2
  <2>3. data' = <<>>
    BY <1>1, <2>2 DEF TypeOK
  <2>4. g + Missing' \in (m + 1)..(m + B) /\ g > m
    <3>1. CASE g = m + 1
      BY <1>5, <1>6, <2>2, <3>1
    <3>2. CASE g > m + 1 /\ Missing > 0 /\ g - 1 + Missing \in (m + 1)..(m + B)
      <4>1. Missing' = Missing - 1
        BY <1>5, <1>6, <2>2, <3>2
      <4> QED
        BY <1>5, <1>6, <3>2, <4>1
    <3> QED
      BY <2>1, <3>1, <3>2
  <2> QED
    BY <1>1, <1>3, <1>5, <1>7, <2>3, <2>4 DEF ShaInv, Lengths, Ending
<1>8. CASE phase # "zeros"
  BY <1>1, <1>3, <1>4, <1>8 DEF ShaInv, Lengths, Ending
<1> QED
  BY <1>7, <1>8

\* The bytes that finish feeds: what they are, and where they go.
LEMMA PaddingFed ==
  ASSUME ShaInv, NEW bytes \in Seq(Char), Update(bytes), phase # "done",
         UNCHANGED <<file, state, buf, buffered>>,
         bits' \in 0..(CounterMod - 1), phase' \in {"zeros", "length"}
  PROVE  /\ TypeOK' /\ data' = bytes /\ data = <<>>
         /\ Given' = Given + Len(bytes) /\ len' = Given' % CounterMod
         /\ \A i \in 1..Given : GivenAt(i)' = PaddedAt(i)
         /\ \A i \in Nat : i > Given => GivenAt(i)' = bytes[i - Given]
<1>1. TypeOK /\ len = Given % CounterMod /\ Contents
  BY DEF ShaInv, Lengths
<1>2. /\ data' = bytes /\ data = <<>>
      /\ Given' = Given + Len(bytes) /\ len' = Given' % CounterMod
      /\ len' \in 0..(CounterMod - 1)
      /\ \A i \in 1..Given : GivenAt(i)' = GivenAt(i)
      /\ \A i \in Nat : i > Given => GivenAt(i)' = bytes[i - Given]
  BY <1>1, UpdateAdds
<1> QED
  BY <1>1, <1>2 DEF TypeOK, Contents

LEMMA FinishBeginStep == ASSUME ShaInv, FinishBegin PROVE ShaInv'
<1>1. /\ TypeOK /\ Lengths /\ phase = "read" /\ phase' = "zeros"
      /\ Update(<<Pad(128)>>) /\ bits' = (len * 8) % CounterMod
      /\ UNCHANGED <<file, state, buf, buffered>>
  BY DEF FinishBegin, Counted, ShaInv
<1>2. PICK m \in Nat, M \in Nat \ {0} : m = Len(file) /\ Given = m /\ M = CounterMod
  BY <1>1, Sizes DEF Lengths
<1>3. bits' = (m * 8) % M /\ bits' \in 0..(M - 1)
  <2>1. len = m % M
    BY <1>1, <1>2 DEF Lengths
  <2>2. ((m % M) * 8) % M = (m * 8) % M
    BY ModTimes
  <2>3. m * 8 \in Nat
    OBVIOUS
  <2>4. (m * 8) % M \in 0..(M - 1)
    BY <2>3, Division
  <2> QED
    BY <1>1, <1>2, <2>1, <2>2, <2>4
<1>4. <<Pad(128)>> \in Seq(Char) /\ Len(<<Pad(128)>>) = 1
  BY Sha256Assumption DEF Pad, Char, Byte
<1>5. /\ TypeOK' /\ data' = <<Pad(128)>> /\ Given' = m + 1 /\ len' = Given' % CounterMod
      /\ \A i \in 1..m : GivenAt(i)' = PaddedAt(i)
      /\ \A i \in Nat : i > m => GivenAt(i)' = <<Pad(128)>>[i - m]
  BY <1>1, <1>2, <1>3, <1>4, PaddingFed
<1>6. Lengths'
  BY <1>1, <1>2, <1>3, <1>4, <1>5 DEF Lengths, Ending
<1>7. ASSUME NEW i \in 1..(m + 1) PROVE GivenAt(i)' = PaddedAt(i)'
  <2>1. CASE i <= m
    BY <1>1, <1>2, <1>5, <2>1 DEF PaddedAt
  <2>2. CASE i = m + 1
    BY <1>1, <1>2, <1>5, <2>2 DEF PaddedAt
  <2> QED
    BY <2>1, <2>2
<1> QED
  BY <1>5, <1>6, <1>7 DEF ShaInv, Contents

LEMMA FinishZeroStep == ASSUME ShaInv, FinishZero PROVE ShaInv'
<1>1. /\ TypeOK /\ Lengths /\ phase = "zeros" /\ phase' = "zeros" /\ buffered # LengthAt
      /\ Update(<<Pad(0)>>) /\ data = <<>> /\ UNCHANGED <<file, state, buf, buffered, bits>>
  BY DEF FinishZero, ShaInv, Update
<1>2. PICK m \in Nat, g \in Nat, B \in Nat, k \in Nat :
        /\ m = Len(file) /\ g = Given /\ B = Block /\ k = Missing
        /\ g > m /\ g + k \in (m + 1)..(m + B)
  <2>1. Len(data) = 0
    BY <1>1
  <2>2. Given + Missing \in (Len(file) + 1)..(Len(file) + Block) /\ Given > Len(file)
    BY <1>1, <2>1 DEF Lengths
  <2>3. Len(file) \in Nat /\ Given \in Nat /\ Block \in Nat /\ Missing \in Nat
    BY <1>1, Sizes
  <2> QED
    BY <2>2, <2>3
<1>3. k > 0 /\ Missing' = k
  <2>1. PICK b \in Nat, at \in Nat : b = buffered /\ at = LengthAt /\ b < B /\ at < B /\ b # at
    BY <1>1, <1>2, Sizes
  <2>2. Missing = IF b <= at THEN at - b ELSE B + at - b
    BY <1>2, <2>1 DEF Missing
  <2>3. Missing > 0
    BY <2>1, <2>2
  <2>4. Missing' = Missing
    BY <1>1 DEF Missing, LengthAt
  <2> QED
    BY <1>2, <2>3, <2>4
<1>4. <<Pad(0)>> \in Seq(Char) /\ Len(<<Pad(0)>>) = 1
  BY Sha256Assumption DEF Pad, Char, Byte
<1>5. /\ TypeOK' /\ data' = <<Pad(0)>> /\ Given' = g + 1 /\ len' = Given' % CounterMod
      /\ \A i \in 1..g : GivenAt(i)' = PaddedAt(i)
      /\ \A i \in Nat : i > g => GivenAt(i)' = <<Pad(0)>>[i - g]
  BY <1>1, <1>2, <1>4, PaddingFed DEF TypeOK
<1>6. Lengths'
  <2>1. Len(data') = 1 /\ Given' > m + 1 /\ Missing' > 0
        /\ Given' - 1 + Missing' \in (m + 1)..(m + B)
    BY <1>2, <1>3, <1>4, <1>5
  <2> QED
    BY <1>1, <1>2, <1>5, <2>1 DEF Lengths, Ending
<1>7. ASSUME NEW i \in 1..(g + 1) PROVE GivenAt(i)' = PaddedAt(i)'
  <2>1. CASE i <= g
    BY <1>1, <1>5, <2>1 DEF PaddedAt, Ending
  <2>2. CASE i = g + 1
    BY <1>1, <1>2, <1>5, <2>2 DEF PaddedAt, Ending
  <2> QED
    BY <2>1, <2>2
<1> QED
  BY <1>5, <1>6, <1>7 DEF ShaInv, Contents

LEMMA LengthField ==
  ASSUME NEW n \in Nat
  PROVE  to_be_bytes(n) \in Seq(Char) /\ Len(to_be_bytes(n)) = LenBytes
<1>1. LenBytes \in Nat /\ Base \in Nat \ {0}
  BY Sha256Assumption
<1>2. ASSUME NEW i \in 1..LenBytes
      PROVE  Pad((n \div Base ^ (LenBytes - i)) % Base) \in Char
  <2>1. PICK p \in Nat \ {0} : p = Base ^ (LenBytes - i)
    BY <1>1, PowerAssumption
  <2>2. n \div p \in Nat
    BY <2>1
  <2>3. (n \div p) % Base \in 0..(Base - 1)
    BY <1>1, <2>2, Division
  <2> QED
    BY <2>1, <2>3 DEF Pad, Char, Byte
<1> QED
  BY <1>1, <1>2 DEF to_be_bytes

LEMMA FinishLengthStep == ASSUME ShaInv, FinishLength PROVE ShaInv'
<1>1. /\ TypeOK /\ Lengths /\ phase = "zeros" /\ phase' = "length" /\ buffered = LengthAt
      /\ Update(to_be_bytes(bits)) /\ data = <<>> /\ UNCHANGED <<file, state, buf, buffered, bits>>
  BY DEF FinishLength, ShaInv, Update
<1>2. PICK m \in Nat, g \in Nat, B \in Nat \ {0}, l \in Nat \ {0}, s \in Nat :
        /\ m = Len(file) /\ g = Given /\ B = Block /\ l = LenBytes /\ s = Len(state)
        /\ g > m /\ g \in (m + 1)..(m + B) /\ g + l = s + B /\ s % B = 0
  <2>1. Len(data) = 0 /\ Missing = 0
    BY <1>1, Sizes DEF Missing
  <2>2. Len(state) % Block = 0
    BY <1>1 DEF TypeOK
  <2>3. Given + Missing \in (Len(file) + 1)..(Len(file) + Block) /\ Given > Len(file)
    BY <1>1, <2>1 DEF Lengths
  <2>4. PICK m \in Nat, B \in Nat \ {0}, l \in Nat \ {0}, s \in Nat, at \in Nat :
          /\ m = Len(file) /\ B = Block /\ l = LenBytes /\ s = Len(state) /\ at = LengthAt
          /\ at + l = B
    BY <1>1, Sizes
  <2>5. Given = s + at
    BY <1>1, <2>1, <2>4 DEF Given
  <2>6. s + at \in (m + 1)..(m + B) /\ s + at > m /\ (s + at) + l = s + B
    BY <2>1, <2>3, <2>4, <2>5
  <2> QED
    BY <2>2, <2>4, <2>5, <2>6
<1>3. bits \in Nat /\ bits = (m * 8) % CounterMod /\ bits \in 0..(CounterMod - 1)
  BY <1>1, <1>2 DEF TypeOK, Lengths
<1>4. to_be_bytes(bits) \in Seq(Char) /\ Len(to_be_bytes(bits)) = l
  BY <1>2, <1>3, LengthField
<1>5. /\ TypeOK' /\ Given' = g + l /\ len' = Given' % CounterMod
      /\ \A i \in 1..g : GivenAt(i)' = PaddedAt(i)
      /\ \A i \in Nat : i > g => GivenAt(i)' = to_be_bytes(bits)[i - g]
  BY <1>1, <1>2, <1>3, <1>4, PaddingFed
<1>6. (s + B) % B = 0
  <2>1. 0 \in 0..(B - 1)
    OBVIOUS
  <2> QED
    BY <1>2, <2>1, ModNext
<1>7. Lengths'
  <2>1. Given' - LenBytes = g /\ Given' % Block = 0
    BY <1>2, <1>5, <1>6
  <2> QED
    BY <1>1, <1>2, <1>3, <1>5, <2>1 DEF Lengths, Ending
<1>8. ASSUME NEW i \in 1..(g + l) PROVE GivenAt(i)' = PaddedAt(i)'
  <2>0. Given' - LenBytes = g /\ Ending'
    BY <1>1, <1>2, <1>5 DEF Ending
  <2>1. CASE i <= g
    BY <1>1, <1>2, <1>5, <2>0, <2>1 DEF PaddedAt, Ending
  <2>2. CASE i > g
    <3>1. PaddedAt(i)' = to_be_bytes((m * 8) % CounterMod)[i - g]
      BY <1>1, <1>2, <2>0, <2>2 DEF PaddedAt
    <3> QED
      BY <1>3, <1>5, <2>2, <3>1
  <2> QED
    BY <2>1, <2>2
<1> QED
  BY <1>5, <1>7, <1>8 DEF ShaInv, Contents

LEMMA FinishEndStep == ASSUME ShaInv, FinishEnd PROVE ShaInv'
<1>1. /\ phase = "length" /\ phase' = "done" /\ data = <<>>
      /\ UNCHANGED <<file, state, buf, buffered, len, data, bits>>
  BY DEF FinishEnd
<1>2. /\ Given' = Given /\ Ending /\ Ending'
      /\ \A i : GivenAt(i)' = GivenAt(i) /\ PaddedAt(i)' = PaddedAt(i)
  BY <1>1 DEF Given, GivenAt, PaddedAt, Ending
<1>3. TypeOK'
  BY <1>1 DEF ShaInv, TypeOK
<1>4. Lengths'
  BY <1>1, <1>2 DEF ShaInv, Lengths
<1> QED
  BY <1>2, <1>3, <1>4 DEF ShaInv, Contents

LEMMA ShaInvStep == ShaInv /\ [Next]_vars => ShaInv'
<1> SUFFICES ASSUME ShaInv, [Next]_vars PROVE ShaInv'
  OBVIOUS
<1>1. CASE UNCHANGED vars
  BY <1>1 DEF vars, ShaInv, TypeOK, Lengths, Contents, Given, GivenAt, PaddedAt, Ending, Missing
<1>2. CASE Done
  BY <1>1, <1>2 DEF Done
<1> QED
  BY <1>1, <1>2, ReadStep, TakeInStep, FinishBeginStep, FinishZeroStep, FinishLengthStep,
     FinishEndStep DEF Next

-----------------------------------------------------------------------------
(* What follows                                                            *)

\* Two sequences put together, byte by byte.
LEMMA Joined ==
  ASSUME NEW s \in Seq(Char), NEW t \in Seq(Char), NEW a \in Nat, NEW c \in Nat,
         Len(s) = a, Len(t) = c
  PROVE  /\ s \o t \in Seq(Char) /\ Len(s \o t) = a + c
         /\ \A i \in 1..(a + c) : (s \o t)[i] = IF i <= a THEN s[i] ELSE t[i - a]
<1>1. /\ s \o t \in Seq(Char) /\ Len(s \o t) = Len(s) + Len(t)
      /\ \A i \in 1..(Len(s) + Len(t)) :
           (s \o t)[i] = IF i <= Len(s) THEN s[i] ELSE t[i - Len(s)]
  BY ConcatProperties
<1> QED
  BY <1>1

LEMMA InvPaddingIsShort == ShaInv => PaddingIsShort
<1> SUFFICES ASSUME ShaInv PROVE PaddingIsShort
  OBVIOUS
<1>1. PICK L \in Nat, b \in Nat, d \in Nat, B \in Nat, l \in Nat, n \in Nat, k \in Nat :
        /\ L = Len(state) /\ b = buffered /\ d = Len(data) /\ B = Block /\ l = LenBytes
        /\ n = Len(file) /\ k = Missing /\ l > 0 /\ B > 0
  <2>1. TypeOK
    BY DEF ShaInv
  <2>2. /\ Len(state) \in Nat /\ buffered \in Nat /\ Len(data) \in Nat /\ Block \in Nat
        /\ LenBytes \in Nat /\ Len(file) \in Nat /\ Missing \in Nat
        /\ LenBytes > 0 /\ Block > 0
    BY <2>1, Sizes
  <2> QED
    BY <2>2
<1>2. Given = L + b + d
  BY <1>1 DEF Given
<1>3. /\ phase = "read" => L + b + d = n
      /\ phase = "zeros" => L + b + d <= n + B + 1
      /\ Ending => (L + b + d) - l <= n + B
  BY <1>1, <1>2 DEF ShaInv, Lengths
<1>4. L + b < n + B + l + 1
  BY <1>1, <1>3 DEF ShaInv, TypeOK, Ending
<1> QED
  BY <1>1, <1>4 DEF PaddingIsShort

LEMMA InvDigestsTheFile == ShaInv => DigestsTheFile
<1> SUFFICES ASSUME ShaInv, phase = "done"
             PROVE  state = Padded(file) /\ buffered = 0
  BY DEF DigestsTheFile
<1>1. /\ state \in Seq(Char) /\ file \in Seq(Char) /\ Len(data) = 0 /\ Len(state) % Block = 0
      /\ Given - LenBytes \in (Len(file) + 1)..(Len(file) + Block) /\ Given % Block = 0
  <2>1. file \in Seq(Char)
    BY DEF ShaInv, TypeOK, Char
  <2>2. data = <<>>
    BY DEF ShaInv, Lengths
  <2> QED
    BY <2>1, <2>2 DEF ShaInv, TypeOK, Lengths, Ending
<1>2. PICK g \in Nat, L \in Nat, b \in Nat, B \in Nat \ {0}, l \in Nat \ {0}, n \in Nat :
        /\ g = Given /\ L = Len(state) /\ b = buffered /\ B = Block /\ l = LenBytes
        /\ n = Len(file) /\ b < B /\ g = L + b
  <2>1. Given = Len(state) + buffered
    BY <1>1, Sizes DEF ShaInv, Given
  <2> QED
    BY <2>1, Sizes DEF ShaInv
<1>3. b = 0 /\ g = L
  <2>1. b \in 0..(B - 1) /\ L % B = 0
    BY <1>1, <1>2
  <2>2. (L + b) % B = b
    BY <2>1, ModNext
  <2> QED
    BY <1>1, <1>2, <2>2
<1> DEFINE zeros == CHOOSE k \in 0..(Block - 1) : (Len(file) + 1 + k + LenBytes) % Block = 0
           z == L - l - n - 1
<1>4. z \in 0..(B - 1) /\ n + 1 + z + l = L /\ L % B = 0
  BY <1>1, <1>2, <1>3
<1> HIDE DEF z
<1>5. zeros = z
  <2>1. zeros \in 0..(B - 1) /\ (n + 1 + zeros + l) % B = 0
    <3>1. \E k \in 0..(Block - 1) : (Len(file) + 1 + k + LenBytes) % Block = 0
      BY <1>2, <1>4
    <3>2. zeros \in 0..(Block - 1) /\ (Len(file) + 1 + zeros + LenBytes) % Block = 0
      BY <3>1
    <3> QED
      BY <1>2, <3>2
  <2> HIDE DEF zeros
  <2>2. PICK a \in Nat : a = n + 1 + l /\ a + zeros = n + 1 + zeros + l /\ a + z = n + 1 + z + l
    BY <1>4, <2>1
  <2>3. (a + zeros) % B = 0 /\ (a + z) % B = 0
    BY <1>4, <2>1, <2>2
  <2> QED
    BY <1>4, <2>1, <2>3, ModOnce
<1> HIDE DEF zeros
<1> DEFINE field == to_be_bytes((n * 8) % CounterMod)
           nils == [i \in 1..z |-> Pad(0)]
           p1 == file \o <<Pad(128)>>
           p2 == p1 \o nils
           p3 == p2 \o field
<1>6. field \in Seq(Char) /\ Len(field) = l
  <2>1. (n * 8) % CounterMod \in Nat
    BY Sizes DEF ShaInv
  <2> QED
    BY <1>2, <2>1, LengthField
<1> HIDE DEF field
<1>7. <<Pad(128)>> \in Seq(Char) /\ Len(<<Pad(128)>>) = 1 /\ Pad(0) \in Char
  BY Sha256Assumption DEF Pad, Char, Byte
<1>8. nils \in Seq(Char) /\ Len(nils) = z /\ \A i \in 1..z : nils[i] = Pad(0)
  BY <1>4, <1>7
<1> HIDE DEF nils
<1>9. p1 \in Seq(Char) /\ Len(p1) = n + 1
      /\ \A i \in 1..(n + 1) : p1[i] = IF i <= n THEN file[i] ELSE <<Pad(128)>>[i - n]
  BY <1>1, <1>2, <1>7, Joined
<1> HIDE DEF p1
<1>10. p2 \in Seq(Char) /\ Len(p2) = n + 1 + z
       /\ \A i \in 1..(n + 1 + z) : p2[i] = IF i <= n + 1 THEN p1[i] ELSE nils[i - (n + 1)]
  <2>1. n + 1 \in Nat /\ z \in Nat
    BY <1>4
  <2> QED
    BY <1>8, <1>9, <2>1, Joined, SMTT(30)
<1> HIDE DEF p2
<1>11. p3 \in Seq(Char) /\ Len(p3) = L
       /\ \A i \in 1..L : p3[i] = IF i <= n + 1 + z THEN p2[i] ELSE field[i - (n + 1 + z)]
  <2>1. n + 1 + z \in Nat /\ (n + 1 + z) + l = L
    BY <1>4
  <2>2. /\ p3 \in Seq(Char) /\ Len(p3) = (n + 1 + z) + l
        /\ \A i \in 1..((n + 1 + z) + l) :
             p3[i] = IF i <= n + 1 + z THEN p2[i] ELSE field[i - (n + 1 + z)]
    <3>2. /\ p2 \o field \in Seq(Char) /\ Len(p2 \o field) = Len(p2) + Len(field)
          /\ \A i \in 1..(Len(p2) + Len(field)) :
               (p2 \o field)[i] = IF i <= Len(p2) THEN p2[i] ELSE field[i - Len(p2)]
      BY <1>6, <1>10, ConcatProperties
    <3> QED
      BY <1>6, <1>10, <3>2
  <2> QED
    BY <2>1, <2>2
<1> HIDE DEF p3
<1>12. ASSUME NEW i \in 1..L PROVE state[i] = p3[i]
  <2>1. state[i] = PaddedAt(i)
    <3>1. GivenAt(i) = state[i]
      BY <1>2 DEF GivenAt
    <3> QED
      BY <1>2, <1>3, <3>1 DEF ShaInv, Contents
  <2>2. PaddedAt(i) = IF i <= n THEN file[i] ELSE IF i = n + 1 THEN Pad(128)
                      ELSE IF i > n + 1 + z THEN field[i - (n + 1 + z)] ELSE Pad(0)
    <3>1. Ending /\ Given - LenBytes = n + 1 + z
      BY <1>2, <1>3, <1>4 DEF Ending
    <3> QED
      BY <1>2, <3>1 DEF PaddedAt, field
  <2>3. CASE i <= n
    BY <1>4, <1>9, <1>10, <1>11, <2>1, <2>2, <2>3
  <2>4. CASE i = n + 1
    <3>1. p1[i] = Pad(128)
      BY <1>9, <2>4
    <3> QED
      BY <1>4, <1>10, <1>11, <2>1, <2>2, <2>4, <3>1
  <2>5. CASE i > n + 1 /\ i <= n + 1 + z
    <3>1. nils[i - (n + 1)] = Pad(0)
      BY <1>4, <1>8, <2>5
    <3> QED
      BY <1>4, <1>10, <1>11, <2>1, <2>2, <2>5, <3>1
  <2>6. CASE i > n + 1 + z
    BY <1>4, <1>11, <2>1, <2>2, <2>6
  <2> QED
    BY <1>4, <2>3, <2>4, <2>5, <2>6
<1>13. state = p3
  BY <1>1, <1>2, <1>11, <1>12, SeqEqual
<1>14. p3 = Padded(file)
  BY <1>2, <1>5 DEF Padded, zeros, field, nils, p1, p2, p3
<1> QED
  BY <1>2, <1>3, <1>13, <1>14

-----------------------------------------------------------------------------
(* The files                                                               *)

\* The steps that come after the build, and those that come after the payload.
Built == {"find", "zip", "replace", "create", "write", "digest"}
Zipped == {"replace", "create", "write", "digest"}

\* A run has an environment with a machine's name, and began in the past.
RunOK ==
    /\ step \in {"idle", "build"} \cup Built
    /\ rev \in Nat /\ bins \in [Paths -> Nat] /\ DOMAIN dist = Machines
    /\ DOMAIN told = Machines
    /\ step # "idle" =>
         env \in Env /\ Len(target(env)) > 1 /\ since \in Nat /\ since <= rev

\* After the build the binary where cargo writes is new, and only a newer one
\* can take its place; the payload holds the one that xtask looks for.
BinaryOK ==
    /\ step \in Built /\ LikeCI(env) => bins[CargoPath(env)] >= since
    /\ step \in Built \ {"find"} => bin(env) \in Paths
    /\ step \in Zipped =>
         /\ payload \in Payloads /\ payload.path = bin(env)
         /\ LikeCI(env) => payload.rev >= since

\* From the payload to the end of its run nothing is promised of the container
\* under its name; when the digest is taken the payload is in it.
ContainerOK ==
    /\ DeliveredStays
    /\ step \in Zipped => told[target(env)] = InDoubt
    /\ step = "digest" => dist[target(env)] = Whole(payload)

PackageInv == RunOK /\ BinaryOK /\ ContainerOK

-----------------------------------------------------------------------------
\* Where xtask looks is where cargo writes.
LEMMA SamePath ==
  ASSUME NEW e \in Env, LikeCI(e)
  PROVE  bin(e) = CargoPath(e) /\ CargoPath(e) \in Paths
  BY DEF LikeCI, bin, CargoPath, Paths

\* The name of a package is a machine's.
LEMMA TargetIsMachine ==
  ASSUME NEW e \in Env, Len(target(e)) > 1
  PROVE  target(e) \in Machines
<1>1. target(e) \in TpxTargets \cup {Host}
  BY DEF target, Env
<1>2. Len(target(e)) \in 0..2
  <2>1. CASE target(e) = Host
    BY <2>1, PackageAssumption
  <2>2. CASE target(e) \in TpxTargets
    BY <2>2, PackageAssumption, Zenon
  <2> QED
    BY <1>1, <2>1, <2>2
<1>3. Len(target(e)) = 2
  <2>1. \A n \in 0..2 : n > 1 => n = 2
    OBVIOUS
  <2> QED
    BY <1>2, <2>1, Zenon
<1> QED
  BY <1>1, <1>3 DEF Machines

LEMMA PackageInvInit == PackageInit => PackageInv
<1> SUFFICES ASSUME PackageInit PROVE PackageInv
  OBVIOUS
<1> QED
  BY DEF PackageInit, PackageInv, RunOK, BinaryOK, ContainerOK, DeliveredStays, Built, Zipped

LEMMA PackageInvStep == PackageInv /\ [PackageNext]_allVars => PackageInv'
<1> SUFFICES ASSUME PackageInv, [PackageNext]_allVars PROVE PackageInv'
  OBVIOUS
<1> USE DEF PackageInv, RunOK, DeliveredStays, At, Go, tool, disk, Built, Zipped
<1>1. CASE Start
  <2>1. /\ step' = "build" /\ env' \in Env /\ Len(target(env')) > 1 /\ since' = rev
        /\ step = "idle" /\ UNCHANGED <<rev, bins, dist, told>>
    BY <1>1 DEF Start
  <2>2. Len(target(env))' > 1
    BY <2>1 DEF target
  <2> QED
    BY <2>1, <2>2 DEF BinaryOK, ContainerOK
<1>2. CASE Build
  <2>1. /\ step = "build" /\ step' = "find"
        /\ UNCHANGED <<env, since, payload, rev, dist, told>>
    BY <1>2 DEF Build
  <2>2. PICK read \in since..rev : bins' = [bins EXCEPT ![CargoPath(env)] = read]
    BY <1>2 DEF Build
  <2>3. read \in Nat /\ read >= since
    BY <2>1
  <2>r. RunOK'
    BY <2>1, <2>2, <2>3 DEF target
  <2>4. CargoPath(env) \in Paths /\ CargoPath(env)' = CargoPath(env)
    BY <2>1 DEF Paths, CargoPath
  <2>5. BinaryOK'
    BY <2>1, <2>2, <2>3, <2>4 DEF BinaryOK
  <2> QED
    BY <2>1, <2>r, <2>5 DEF ContainerOK
<1>3. CASE Find
  <2>1. /\ step = "find" /\ step' = "zip" /\ OnDisk(bin(env)) > 0
        /\ UNCHANGED <<env, since, payload, rev, bins, dist, told>>
    BY <1>3 DEF Find
  <2>2. bin(env) \in Paths
    BY <2>1 DEF OnDisk
  <2> QED
    BY <2>1, <2>2 DEF BinaryOK, ContainerOK, target, bin, LikeCI, CargoPath, target_dir
<1>4. CASE Zip
  <2>1. /\ step = "zip" /\ step' = "replace"
        /\ payload' = [path |-> bin(env), rev |-> OnDisk(bin(env))]
        /\ told' = [told EXCEPT ![target(env)] = InDoubt]
        /\ UNCHANGED <<env, since, rev, bins, dist>>
    BY <1>4 DEF Zip
  <2>2. bin(env) \in Paths /\ OnDisk(bin(env)) = bins[bin(env)]
    BY <2>1 DEF BinaryOK, OnDisk
  <2>3. LikeCI(env) => bins[bin(env)] >= since
    BY <2>1, SamePath DEF BinaryOK
  <2>4. payload' \in Payloads /\ payload'.path = bin(env) /\ payload'.rev = bins[bin(env)]
    BY <2>1, <2>2 DEF Payloads
  <2>5. BinaryOK'
    BY <2>1, <2>2, <2>3, <2>4 DEF BinaryOK, bin, LikeCI, CargoPath, target_dir
  <2>6. target(env)' = target(env) /\ target(env) \in Machines
    BY <2>1, TargetIsMachine DEF target
  <2>7. /\ DOMAIN told' = Machines /\ told'[target(env)] = InDoubt
        /\ \A m \in Machines \ {target(env)} : told'[m] = told[m]
    BY <2>1, <2>6
  <2>8. DeliveredStays'
    BY <2>1, <2>7 DEF ContainerOK
  <2>9. ContainerOK'
    BY <2>1, <2>6, <2>7, <2>8 DEF ContainerOK
  <2>r. RunOK'
    BY <2>1, <2>4, <2>6, <2>7
  <2> QED
    BY <2>5, <2>9, <2>r
<1>5. CASE Remove
  <2>1. /\ step = "replace" /\ step' = "create" /\ DOMAIN dist' = Machines
        /\ UNCHANGED <<env, since, payload, rev, bins, told>>
    BY <1>5 DEF Remove, MayReplace
  <2>2. \A m \in Machines \ {target(env)} : dist'[m] = dist[m]
    BY <1>5, TargetIsMachine DEF Remove, MayReplace
  <2>3. target(env)' = target(env) /\ told[target(env)] = InDoubt
    BY <2>1 DEF ContainerOK, target
  <2>4. DeliveredStays'
    BY <2>1, <2>2, <2>3 DEF ContainerOK
  <2>5. ContainerOK'
    BY <2>1, <2>3, <2>4 DEF ContainerOK
  <2>r. RunOK' /\ BinaryOK'
    BY <2>1, <2>3 DEF BinaryOK, bin, LikeCI, CargoPath, target_dir
  <2> QED
    BY <2>5, <2>r
<1>6. CASE Create
  <2>1. /\ step = "create" /\ step' = "write" /\ DOMAIN dist' = Machines
        /\ UNCHANGED <<env, since, payload, rev, bins, told>>
    BY <1>6 DEF Create
  <2>2. \A m \in Machines \ {target(env)} : dist'[m] = dist[m]
    BY <1>6, TargetIsMachine DEF Create
  <2>3. target(env)' = target(env) /\ told[target(env)] = InDoubt
    BY <2>1 DEF ContainerOK, target
  <2>4. DeliveredStays'
    BY <2>1, <2>2, <2>3 DEF ContainerOK
  <2>5. ContainerOK'
    BY <2>1, <2>3, <2>4 DEF ContainerOK
  <2>r. RunOK' /\ BinaryOK'
    BY <2>1, <2>3 DEF BinaryOK, bin, LikeCI, CargoPath, target_dir
  <2> QED
    BY <2>5, <2>r
<1>7. CASE Write
  <2>1. /\ step = "write" /\ step' = "digest"
        /\ dist' = [dist EXCEPT ![target(env)] = Whole(payload)]
        /\ UNCHANGED <<env, since, payload, rev, bins, told>>
    BY <1>7 DEF Write
  <2>2. DOMAIN dist' = Machines /\ dist'[target(env)] = Whole(payload)
        /\ \A m \in Machines \ {target(env)} : dist'[m] = dist[m]
    BY <2>1, TargetIsMachine
  <2> QED
    BY <2>1, <2>2 DEF BinaryOK, ContainerOK
<1>8. CASE Digest
  <2>1. /\ step = "digest" /\ UNCHANGED <<step, env, since, payload, rev, bins, dist, told>>
    BY <1>8 DEF Digest
  <2> QED
    BY <2>1 DEF BinaryOK, ContainerOK
<1>9. CASE Succeeds
  <2>1. /\ step = "digest" /\ step' = "idle" /\ UNCHANGED <<rev, bins, dist>>
        /\ told' = [told EXCEPT ![target(env)] = Whole(payload)]
    BY <1>9 DEF Succeeds, Ends
  <2>2. DOMAIN told' = Machines /\ dist[target(env)] = Whole(payload)
    BY <2>1 DEF ContainerOK
  <2>3. \A m \in Machines : told'[m] = told[m] \/ told'[m] = dist[m]
    BY <2>1, <2>2
  <2> QED
    BY <2>1, <2>2, <2>3 DEF BinaryOK, ContainerOK
<1>13. CASE Fails
  <2>1. step' = "idle" /\ UNCHANGED <<rev, bins, dist, told>>
    BY <1>13 DEF Fails, Ends
  <2> QED
    BY <2>1 DEF BinaryOK, ContainerOK
<1>10. CASE Edit
  <2>1. rev' = rev + 1 /\ UNCHANGED <<step, env, since, payload, bins, dist, told>>
    BY <1>10 DEF Edit
  <2> QED
    BY <2>1 DEF BinaryOK, ContainerOK
<1>11. CASE CargoBuild
  <2>1. UNCHANGED <<step, env, since, payload, rev, dist, told>>
    BY <1>11 DEF CargoBuild
  <2>2. PICK p \in Paths : bins' = [bins EXCEPT ![p] = rev]
    BY <1>11 DEF CargoBuild
  <2>3. \A q \in Paths : bins'[q] = bins[q] \/ bins'[q] = rev
    BY <2>2
  <2>4. step \in Built /\ LikeCI(env) => bins'[CargoPath(env)] >= since
    BY <2>3, SamePath DEF BinaryOK
  <2> QED
    BY <2>1, <2>2, <2>4 DEF BinaryOK, ContainerOK
<1>12. CASE UNCHANGED allVars
  BY <1>12 DEF allVars, BinaryOK, ContainerOK
<1> QED
  BY <1>1, <1>2, <1>3, <1>4, <1>5, <1>6, <1>7, <1>8, <1>9, <1>10, <1>11, <1>12, <1>13
  DEF PackageNext

-----------------------------------------------------------------------------
\* What the tool does to its Sha256 is a step of it, or gives it up for a new one.
LEMMA ToolDrivesDigest == [PackageNext]_allVars => [Next]_vars \/ Init'
<1> SUFFICES ASSUME [PackageNext]_allVars PROVE [Next]_vars \/ Init'
  OBVIOUS
<1>1. CASE Succeeds \/ Fails
  BY <1>1 DEF Succeeds, Fails, Ends, Init
<1>2. CASE ~(Succeeds \/ Fails)
  BY <1>2 DEF PackageNext, Start, Build, Find, Zip, Remove, Create, Write, Digest, Edit,
              CargoBuild, allVars, vars
<1> QED
  BY <1>1, <1>2

LEMMA DigestInv == PackageSpec => []ShaInv
<1>1. PackageInit => Init
  BY DEF PackageInit
<1>2. Init' => ShaInv'
  BY ShaInvInit, PTL
<1> QED
  BY <1>1, <1>2, ShaInvInit, ShaInvStep, ToolDrivesDigest, PTL DEF PackageSpec

\* Every variable of the digest keeps its type: the buffer never fills up
\* between two steps and only whole blocks are compressed (Sha256::update).
THEOREM DigestTypeCorrect == PackageSpec => []TypeOK
<1>1. ShaInv => TypeOK
  BY DEF ShaInv
<1> QED
  BY <1>1, DigestInv, PTL

\* However a file is cut into reads, what is compressed is the file with its
\* FIPS 180-4 padding (DigestsTheFile, sha256_hex and Sha256::finish).
THEOREM DigestIsOfTheFile == PackageSpec => []DigestsTheFile
  BY InvDigestsTheFile, DigestInv, PTL

\* The loop over zeros in finish stops at the first place where the length
\* field fits (PaddingIsShort, Sha256::finish).
THEOREM ZerosEnd == PackageSpec => []PaddingIsShort
  BY InvPaddingIsShort, DigestInv, PTL

-----------------------------------------------------------------------------
\* In an environment like CI's a run that succeeds has packaged what it has
\* built, or what was built since, for the machine in the package's name and
\* in the profile asked for (PackagesWhatItBuilt, package()).
THEOREM PackageIsBuilt == PackageSpec => []PackagesWhatItBuilt
<1>1. PackageInv => PackagesWhatItBuilt
  <2> SUFFICES ASSUME PackageInv, step = "digest", LikeCI(env)
               PROVE  /\ Machine(payload.path.triple) = target(env)
                      /\ payload.path.debug = env.debug
                      /\ payload.rev >= since
    BY DEF PackagesWhatItBuilt, At
  <2>1. payload.path = CargoPath(env) /\ payload.rev >= since
    BY SamePath DEF PackageInv, RunOK, BinaryOK, Built, Zipped
  <2> QED
    BY <2>1 DEF CargoPath, Path, LikeCI
<1> QED
  BY <1>1, PackageInvInit, PackageInvStep, PTL DEF PackageSpec

\* What a run has delivered is there, with its own payload, until a later run
\* for the same machine has a payload to put in its place, whatever fails or is
\* killed meanwhile (DeliveredStays; the order of the steps of package()).
THEOREM DeliveredIsKept == PackageSpec => []DeliveredStays
<1>1. PackageInv => DeliveredStays
  BY DEF PackageInv, ContainerOK
<1> QED
  BY <1>1, PackageInvInit, PackageInvStep, PTL DEF PackageSpec
=============================================================================
