--------------------------- MODULE FramingProofs ---------------------------
(***************************************************************************)
(* For every number of threads and calls and all payloads: what the host   *)
(* reads from the pipe are the messages of the writers, whole, in the      *)
(* order of the mutex (module MessageChannel), and it never fails on one   *)
(* that the process has written to its end.                                *)
(***************************************************************************)
EXTENDS Framing, Integers, SequenceTheorems, TLAPS

-----------------------------------------------------------------------------
(* The length field                                                        *)

\* Division is what it is said to be.
LEMMA Division ==
  ASSUME NEW M \in Nat \ {0}, NEW a \in Nat
  PROVE  /\ a \div M \in Nat /\ a % M \in 0..(M - 1)
         /\ a = M * (a \div M) + (a % M)
  OBVIOUS

\* There is only one quotient.
LEMMA Quotient ==
  ASSUME NEW M \in Nat \ {0}, NEW a \in Nat, NEW q \in Nat, NEW r \in 0..(M - 1),
         a = M * q + r
  PROVE  a \div M = q /\ a % M = r
<1>1. PICK d \in Nat, s \in 0..(M - 1) : d = a \div M /\ s = a % M /\ a = M * d + s
  BY Division
<1>2. M * (q - d) = s - r
  BY <1>1
<1>3. q - d < 1 /\ q - d > -1
  <2>1. q - d < 1
    BY <1>2
  <2>2. q - d > -1
    BY <1>2
  <2> QED
    BY <2>1, <2>2
<1> QED
  BY <1>1, <1>2, <1>3

\* Dividing twice is dividing by the product.
LEMMA Twice ==
  ASSUME NEW B \in Nat \ {0}, NEW M \in Nat \ {0}, NEW a \in Nat
  PROVE  a \div (B * M) = (a \div M) \div B
<1>1. PICK q \in Nat, r \in 0..(M - 1) : q = a \div M /\ a = M * q + r
  BY Division
<1>2. PICK p \in Nat, s \in 0..(B - 1) : p = q \div B /\ q = B * p + s
  BY Division
<1>3. a = (B * M) * p + (M * s + r)
  <2>1. M * q = M * (B * p) + M * s
    BY <1>2
  <2>2. M * (B * p) = (B * M) * p
    OBVIOUS
  <2> QED
    BY <1>1, <2>1, <2>2
<1>4. M * s + r \in 0..(B * M - 1)
  <2>1. M * s <= M * (B - 1)
    OBVIOUS
  <2>2. M * (B - 1) = B * M - M
    OBVIOUS
  <2>3. M * s \in Nat /\ B * M \in Nat
    OBVIOUS
  <2> QED
    BY <2>1, <2>2, <2>3
<1>5. B * M \in Nat \ {0}
  OBVIOUS
<1>6. a \div (B * M) = p
  BY <1>3, <1>4, <1>5, Quotient
<1> QED
  BY <1>1, <1>2, <1>6

\* The four digits are bytes, and the number can be told from them.
LEMMA RoundTrip ==
  ASSUME NEW n \in 0..(LenMod - 1)
  PROVE  /\ to_le_bytes(n) \in Seq(Bytes) /\ Len(to_le_bytes(n)) = 4
         /\ from_le_bytes(to_le_bytes(n)) = n
<1> DEFINE B == Base
<1>0. B \in Nat \ {0} /\ B > 2 /\ B * B \in Nat \ {0} /\ B * (B * B) \in Nat \ {0}
  BY FramingAssumption
<1>1. /\ Base ^ 0 = 1 /\ Base ^ 1 = B /\ Base ^ 2 = B * B
      /\ Base ^ 3 = B * (B * B) /\ Base ^ 4 = B * (B * (B * B))
  <2>1. /\ Base ^ 0 = 1 /\ Base ^ (0 + 1) = Base * Base ^ 0
        /\ Base ^ (1 + 1) = Base * Base ^ 1 /\ Base ^ (2 + 1) = Base * Base ^ 2
        /\ Base ^ (3 + 1) = Base * Base ^ 3
    BY PowerAssumption
  <2>2. Base ^ 1 = B
    BY <1>0, <2>1
  <2> QED
    BY <2>1, <2>2
<1> HIDE DEF B
<1>2. n \in Nat /\ n < B * (B * (B * B))
  BY <1>0, <1>1 DEF LenMod
<1> DEFINE q1 == n \div B
           q2 == q1 \div B
           q3 == q2 \div B
           q4 == q3 \div B
<1>3. /\ q1 \in Nat /\ n % B \in 0..(B - 1) /\ n = B * q1 + (n % B)
  BY <1>0, <1>2, Division
<1> HIDE DEF q1
<1>4. /\ q2 \in Nat /\ q1 % B \in 0..(B - 1) /\ q1 = B * q2 + (q1 % B)
  BY <1>0, <1>3, Division
<1> HIDE DEF q2
<1>5. /\ q3 \in Nat /\ q2 % B \in 0..(B - 1) /\ q2 = B * q3 + (q2 % B)
  BY <1>0, <1>4, Division
<1> HIDE DEF q3
<1>6. /\ q4 \in Nat /\ q3 % B \in 0..(B - 1) /\ q3 = B * q4 + (q3 % B)
  BY <1>0, <1>5, Division
<1> HIDE DEF q4
<1>7. n \div Base ^ 0 = n /\ n \div Base ^ 1 = q1
  BY <1>1, <1>2 DEF q1
<1>8. n \div Base ^ 2 = q2
  <2>1. n \div (B * B) = (n \div B) \div B
    BY <1>0, <1>2, Twice
  <2> QED
    BY <1>1, <2>1 DEF q1, q2
<1>9. n \div Base ^ 3 = q3
  <2>1. n \div (B * (B * B)) = (n \div (B * B)) \div B
    BY <1>0, <1>2, Twice
  <2> QED
    BY <1>1, <1>8, <2>1 DEF q3
<1>10. q4 = 0
  <2>1. n \div (B * (B * (B * B))) = (n \div (B * (B * B))) \div B
    BY <1>0, <1>2, Twice
  <2>2. n \div (B * (B * (B * B))) = q4
    BY <1>1, <1>9, <2>1 DEF q4
  <2>3. B * (B * (B * B)) \in Nat \ {0}
    BY <1>0
  <2>4. n \div (B * (B * (B * B))) = 0
    <3> DEFINE M == B * (B * (B * B))
    <3>1. M \in Nat \ {0} /\ n \in 0..(M - 1) /\ n = M * 0 + n
      BY <1>2, <2>3
    <3> HIDE DEF M
    <3>2. n \div M = 0
      BY <1>2, <3>1, Quotient
    <3> QED
      BY <3>2 DEF M
  <2> QED
    BY <2>2, <2>4
<1>11. to_le_bytes(n) = <<n % B, q1 % B, q2 % B, q3 % B>>
  <2>1. to_le_bytes(n) = [i \in 1..4 |-> (n \div Base ^ (i - 1)) % Base]
    BY DEF to_le_bytes
  <2> DEFINE b == to_le_bytes(n)
  <2>2. /\ b[1] = (n \div Base ^ 0) % B /\ b[2] = (n \div Base ^ 1) % B
        /\ b[3] = (n \div Base ^ 2) % B /\ b[4] = (n \div Base ^ 3) % B
    <3>1. /\ b[1] = (n \div Base ^ (1 - 1)) % B /\ b[2] = (n \div Base ^ (2 - 1)) % B
          /\ b[3] = (n \div Base ^ (3 - 1)) % B /\ b[4] = (n \div Base ^ (4 - 1)) % B
      BY <2>1 DEF B
    <3>2. 1 - 1 = 0 /\ 2 - 1 = 1 /\ 3 - 1 = 2 /\ 4 - 1 = 3
      OBVIOUS
    <3> QED
      BY <3>1, <3>2
  <2>3. b = [i \in 1..4 |-> b[i]]
    BY <2>1
  <2>4. /\ b[1] = n % B /\ b[2] = q1 % B /\ b[3] = q2 % B /\ b[4] = q3 % B
    BY <2>2, <1>7, <1>8, <1>9
  <2> HIDE DEF b
  <2>5. b = <<n % B, q1 % B, q2 % B, q3 % B>>
    BY <2>3, <2>4
  <2> QED
    BY <2>5 DEF b
<1>12. to_le_bytes(n) \in Seq(Bytes) /\ Len(to_le_bytes(n)) = 4
  BY <1>3, <1>4, <1>5, <1>6, <1>11 DEF Bytes, B
<1>13. from_le_bytes(to_le_bytes(n))
         = (n % B) + B * ((q1 % B) + B * ((q2 % B) + B * (q3 % B)))
  BY <1>11 DEF from_le_bytes, B
<1>14. q3 % B = q3
  BY <1>0, <1>6, <1>10
<1>15. /\ q1 = B * q2 + (q1 % B) /\ q2 = B * q3 + (q2 % B) /\ n = B * q1 + (n % B)
       /\ q1 % B \in Nat /\ q2 % B \in Nat /\ n % B \in Nat
  BY <1>0, <1>3, <1>4, <1>5
<1>16. (n % B) + B * ((q1 % B) + B * ((q2 % B) + B * q3)) = n
  <2>1. (q2 % B) + B * q3 = q2
    BY <1>0, <1>5, <1>15
  <2>2. (q1 % B) + B * q2 = q1
    BY <1>0, <1>4, <1>5, <1>15
  <2>3. (n % B) + B * q1 = n
    BY <1>0, <1>2, <1>3, <1>15
  <2> QED
    BY <2>1, <2>2, <2>3
<1> QED
  BY <1>12, <1>13, <1>14, <1>16

-----------------------------------------------------------------------------
(* The invariant                                                           *)

Writing == {"len", "kind", "payload", "flush"}

\* A message on the wire: its bytes, and how many of them t has written.
Size(m) == 5 + Len(m.payload)
Encoded(m, i) ==
    IF i <= 4 THEN to_le_bytes(Len(m.payload) + 1)[i]
    ELSE IF i = 5 THEN m.kind ELSE m.payload[i - 5]
Written(t) ==
    CASE wpc[t] = "kind" -> 4
      [] wpc[t] = "payload" -> 5
      [] wpc[t] = "flush" -> Size(msg[t])
      [] OTHER -> 0

\* The mutex excludes, what is written fits, and only the exit ends the stream.
CallsOK ==
    /\ \A t \in Threads : wpc[t] # "idle" => msg[t] \in Messages /\ Fits(msg[t].payload)
    /\ \A t \in Threads : mutex = t <=> wpc[t] \in Writing
    /\ \A k \in 1..Len(sent) : Fits(sent[k].payload)
EndOK ==
    /\ outcome \in {"eof", "error"} => exited
    /\ outcome = "error" => Len(got) < Len(sent)

\* Message k ends at at[k].
EndsAt(at) ==
    /\ at[0] = 0
    /\ \A k \in 1..Len(sent) : at[k] = at[k - 1] + Size(sent[k])
    /\ \A j, k \in 0..Len(sent) : j <= k => at[j] <= at[k]

\* What has been written is the messages so far, but for the end of the last
\* one; the others have left the LineWriter.
OnWire(at) ==
    /\ \A k \in 1..Len(sent) : \A i \in 1..Size(sent[k]) :
         at[k - 1] + i <= Len(stdout) => stdout[at[k - 1] + i] = Encoded(sent[k], i)
    /\ Len(stdout) <= at[Len(sent)]
    /\ Len(sent) > 0 => at[Len(sent) - 1] <= flushed

WritersAt(at) ==
    ~exited =>
      /\ mutex = None => flushed = at[Len(sent)]
      /\ \A t \in Threads : mutex = t =>
           /\ Len(sent) > 0 /\ msg[t] = sent[Len(sent)]
           /\ Len(stdout) = at[Len(sent) - 1] + Written(t)

\* The reader is inside the message after the last one it has returned.
ReaderAt(at) ==
    LET r == Len(got) IN
    /\ r <= Len(sent)
    /\ rpc = "len" => rpos = at[r]
    /\ rpc # "len" => r < Len(sent) /\ rlen = Len(sent[r + 1].payload) + 1
    /\ rpc = "kind" => rpos = at[r] + 4
    /\ rpc = "payload" => rpos = at[r] + 5 /\ rkind = sent[r + 1].kind

WireAt(at) == EndsAt(at) /\ OnWire(at) /\ WritersAt(at) /\ ReaderAt(at)
Wire == \E at \in [0..Len(sent) -> Nat] : WireAt(at)

FrameInv == TypeOK /\ CallsOK /\ EndOK /\ (outcome # "gone" => Wire)

\* Nothing has been written.
LEMMA FrameInvInit == Init => FrameInv
<1> SUFFICES ASSUME Init PROVE FrameInv
  OBVIOUS
<1> USE FramingAssumption DEF Init
<1>1. Len(sent) = 0 /\ Len(stdout) = 0 /\ Len(got) = 0
  OBVIOUS
<1>2. TypeOK
  <2>1. stdout \in Seq(Bytes) /\ sent \in Seq(Messages)
        /\ got \in Seq([kind : Bytes, payload : Seq(Bytes)])
    OBVIOUS
  <2>2. 0 \in Bytes /\ 0 \in 0..MAX_FRAME_BYTES /\ 0 \in 0..MaxCalls
    BY DEF Bytes
  <2>3. flushed \in 0..Len(stdout) /\ rpos \in 0..flushed
    BY <1>1
  <2>4. /\ wpc \in [Threads -> {"idle", "lock", "len", "kind", "payload", "flush"}]
        /\ msg \in [Threads -> Messages \cup {NoMsg}] /\ mutex \in Threads \cup {None}
    OBVIOUS
  <2>5. /\ calls \in 0..MaxCalls /\ rlen \in 0..MAX_FRAME_BYTES /\ rkind \in Bytes
        /\ exited \in BOOLEAN /\ rpc \in {"len", "kind", "payload"}
        /\ outcome \in {"reading", "eof", "error", "gone"}
    BY <2>2
  <2> HIDE DEF Init
  <2> QED
    BY <2>1, <2>3, <2>4, <2>5 DEF TypeOK
<1>3. CallsOK /\ EndOK
  BY <1>1 DEF CallsOK, EndOK, Writing
<1> DEFINE at == [k \in 0..0 |-> 0]
<1>4. at \in [0..Len(sent) -> Nat] /\ at[0] = 0
  BY <1>1
<1>5. WireAt(at)
  BY <1>1, <1>4 DEF WireAt, EndsAt, OnWire, WritersAt, ReaderAt
<1> QED
  BY <1>2, <1>3, <1>4, <1>5 DEF FrameInv, Wire

-----------------------------------------------------------------------------
(* Messages                                                                *)

\* 2^32 is a number.
LEMMA LenModIsNat == LenMod \in Nat /\ LenMod > 1
<1>1. /\ Base ^ 0 = 1 /\ Base ^ (0 + 1) = Base * Base ^ 0
      /\ Base ^ (1 + 1) = Base * Base ^ 1 /\ Base ^ (2 + 1) = Base * Base ^ 2
      /\ Base ^ (3 + 1) = Base * Base ^ 3
  BY PowerAssumption
<1>2. Base \in Nat /\ Base > 2
  BY FramingAssumption
<1>3. Base ^ 1 \in Nat /\ Base ^ 1 > 1
  BY <1>1, <1>2
<1>4. Base ^ 2 \in Nat /\ Base ^ 2 > 1
  BY <1>1, <1>2, <1>3
<1>5. Base ^ 3 \in Nat /\ Base ^ 3 > 1
  BY <1>1, <1>2, <1>4
<1> QED
  BY <1>1, <1>2, <1>5 DEF LenMod

\* A message that fits has a length that the reader takes, in one piece.
LEMMA MessageFits ==
  ASSUME NEW m \in Messages, Fits(m.payload)
  PROVE  /\ m.kind \in Bytes /\ m.payload \in Seq(Bytes) /\ Len(m.payload) \in Nat
         /\ LengthOf(m.payload) = Len(m.payload) + 1
         /\ Len(m.payload) + 1 <= MAX_FRAME_BYTES
         /\ Len(m.payload) + 1 \in 0..(LenMod - 1)
<1>1. PICK n \in PayloadLens, b \in Fills : m.payload = [i \in 1..n |-> b]
  BY DEF Messages, Payloads
<1>2. n \in 0..(LenMod - 1) /\ n \in Nat /\ b \in Bytes
  BY FramingAssumption, LenModIsNat DEF Bytes
<1>3. m.payload \in Seq(Bytes) /\ Len(m.payload) = n
  BY <1>1, <1>2
<1>4. m.kind \in Bytes
  BY FramingAssumption DEF Messages, Bytes, KIND_CONTROL, KIND_FRAME
<1>5. n % LenMod = n
  <2>1. n = LenMod * 0 + n
    BY <1>2, LenModIsNat
  <2> QED
    BY <1>2, <2>1, LenModIsNat, Quotient
<1> QED
  BY <1>2, <1>3, <1>4, <1>5, FramingAssumption, LenModIsNat DEF LengthOf, Fits

\* Its bytes.
LEMMA EncodedIsBytes ==
  ASSUME NEW m \in Messages, Fits(m.payload)
  PROVE  /\ to_le_bytes(LengthOf(m.payload)) \in Seq(Bytes)
         /\ Len(to_le_bytes(LengthOf(m.payload))) = 4
         /\ \A i \in 1..4 : to_le_bytes(LengthOf(m.payload))[i] = Encoded(m, i)
         /\ Encoded(m, 5) = m.kind
         /\ \A i \in 1..Len(m.payload) : Encoded(m, 5 + i) = m.payload[i]
<1>1. /\ LengthOf(m.payload) = Len(m.payload) + 1 /\ Len(m.payload) \in Nat
      /\ LengthOf(m.payload) \in 0..(LenMod - 1)
  BY MessageFits
<1>2. /\ to_le_bytes(LengthOf(m.payload)) \in Seq(Bytes)
      /\ Len(to_le_bytes(LengthOf(m.payload))) = 4
  BY <1>1, RoundTrip
<1>3. \A i \in 1..4 : to_le_bytes(LengthOf(m.payload))[i] = Encoded(m, i)
  BY <1>1 DEF Encoded
<1>4. Encoded(m, 5) = m.kind
  BY DEF Encoded
<1>5. ASSUME NEW i \in 1..Len(m.payload) PROVE Encoded(m, 5 + i) = m.payload[i]
  <2>1. ~(5 + i <= 4) /\ 5 + i # 5 /\ 5 + i - 5 = i
    BY <1>1
  <2> QED
    BY <2>1 DEF Encoded
<1> QED
  BY <1>2, <1>3, <1>4, <1>5

-----------------------------------------------------------------------------
(* The writers                                                             *)

\* A call that fits waits for the mutex.
LEMMA CallKeeps ==
  ASSUME FrameInv, NEW t \in Threads, NEW m \in Messages, Call(t, m)
  PROVE  FrameInv'
<1> USE DEF FrameInv
<1>1. UNCHANGED <<mutex, stdout, flushed, exited, sent, readerVars>>
  BY DEF Call
<1>2. /\ wpc' \in [Threads -> {"idle", "lock", "len", "kind", "payload", "flush"}]
      /\ msg' \in [Threads -> Messages \cup {NoMsg}] /\ calls' \in 0..MaxCalls
  BY FramingAssumption DEF Call, TypeOK
<1>3. TypeOK'
  BY <1>1, <1>2 DEF TypeOK, readerVars
<1>4. \A u \in Threads : wpc'[u] \in Writing <=> wpc[u] \in Writing
  BY DEF Call, TypeOK, Writing
<1>5. \A u \in Threads : wpc[u] \in Writing => wpc'[u] = wpc[u] /\ msg'[u] = msg[u]
  BY DEF Call, TypeOK, Writing
<1>6. \A u \in Threads : wpc'[u] # "idle" => msg'[u] \in Messages /\ Fits(msg'[u].payload)
  BY DEF Call, TypeOK, CallsOK
<1>7. CallsOK' /\ EndOK'
  BY <1>1, <1>4, <1>6 DEF CallsOK, EndOK, readerVars
<1>8. ASSUME outcome' # "gone" PROVE Wire'
  <2>1. PICK at \in [0..Len(sent) -> Nat] : WireAt(at)
    BY <1>1, <1>8 DEF Wire, readerVars
  <2>2. \A u \in Threads : mutex = u => Written(u)' = Written(u) /\ msg'[u] = msg[u]
    BY <1>5 DEF CallsOK, Written
  <2>3. EndsAt(at)' /\ OnWire(at)' /\ ReaderAt(at)'
    BY <1>1, <2>1 DEF WireAt, EndsAt, OnWire, ReaderAt, readerVars
  <2>4. WritersAt(at)'
    BY <1>1, <2>1, <2>2 DEF WireAt, WritersAt
  <2> QED
    BY <1>1, <2>3, <2>4 DEF Wire, WireAt
<1> QED
  BY <1>3, <1>7, <1>8

\* The mutex is taken: the message is the next one on the wire.
LEMMA LockKeeps ==
  ASSUME FrameInv, ~exited, NEW t \in Threads, Lock(t)
  PROVE  FrameInv'
<1> USE DEF FrameInv
<1>1. /\ UNCHANGED <<msg, stdout, flushed, calls, exited, readerVars>>
      /\ mutex = None /\ mutex' = t /\ t # None
      /\ wpc[t] = "lock" /\ wpc' = [wpc EXCEPT ![t] = "len"]
      /\ sent' = Append(sent, msg[t])
  BY FramingAssumption DEF Lock, Free
<1>2. msg[t] \in Messages /\ Fits(msg[t].payload)
  BY <1>1 DEF CallsOK
<1>3. sent \in Seq(Messages) /\ wpc'[t] = "len"
  BY <1>1 DEF TypeOK
<1>4. PICK n \in Nat : n = Len(sent)
  BY <1>3
<1>5. /\ sent' \in Seq(Messages) /\ Len(sent') = n + 1 /\ sent'[n + 1] = msg[t]
      /\ \A k \in 1..n : sent'[k] = sent[k]
  BY <1>1, <1>2, <1>3, <1>4, AppendProperties
<1>6. TypeOK'
  BY <1>1, <1>5 DEF TypeOK, readerVars
<1>7. CallsOK'
  <2>1. \A u \in Threads : u # t => wpc'[u] = wpc[u] /\ wpc[u] \notin Writing
    BY <1>1, FramingAssumption DEF TypeOK, CallsOK
  <2>2. \A u \in Threads : mutex' = u <=> wpc'[u] \in Writing
    BY <1>1, <1>3, <2>1 DEF Writing
  <2>3. \A k \in 1..Len(sent') : Fits(sent'[k].payload)
    <3>1. \A k \in 1..(n + 1) : k = n + 1 \/ k \in 1..n
      OBVIOUS
    <3> QED
      BY <1>2, <1>4, <1>5, <3>1 DEF CallsOK
  <2>4. \A u \in Threads : wpc'[u] # "idle" => msg'[u] \in Messages /\ Fits(msg'[u].payload)
    BY <1>1, <1>2, <2>1 DEF CallsOK
  <2> QED
    BY <2>2, <2>3, <2>4 DEF CallsOK
<1>8. EndOK'
  BY <1>1, <1>4, <1>5 DEF EndOK, readerVars, TypeOK
<1>9. ASSUME outcome' # "gone" PROVE Wire'
  <2>1. PICK at \in [0..n -> Nat] : WireAt(at)
    BY <1>1, <1>4, <1>9 DEF Wire, readerVars
  <2>2. PICK s \in Nat, e \in Nat : s = Size(msg[t]) /\ e = at[n] /\ s >= 5
    BY <1>2, <2>1, MessageFits DEF Size
  <2> DEFINE next == [k \in 0..(n + 1) |-> IF k <= n THEN at[k] ELSE e + s]
  <2>3. /\ next \in [0..(n + 1) -> Nat] /\ next[n + 1] = e + s
        /\ \A k \in 0..n : next[k] = at[k]
    BY <2>1, <2>2
  <2> HIDE DEF next
  <2>4. \A k \in 0..(n + 1) : k = n + 1 \/ k \in 0..n
    OBVIOUS
  <2>5. \A j, k \in 0..n : j <= k => at[j] <= at[k]
    BY <1>4, <2>1 DEF WireAt, EndsAt
  <2>6. EndsAt(next)'
    <3>1. next[0] = 0
      BY <2>1, <2>3 DEF WireAt, EndsAt
    <3>2. ASSUME NEW k \in 1..(n + 1) PROVE next[k] = next[k - 1] + Size(sent'[k])
      <4>1. CASE k = n + 1
        <5>1. k - 1 = n /\ n \in 0..n
          BY <4>1
        <5> QED
          BY <1>5, <2>2, <2>3, <4>1, <5>1
      <4>2. CASE k \in 1..n
        <5>1. k \in 0..n /\ k - 1 \in 0..n
          BY <4>2
        <5> QED
          BY <1>4, <1>5, <2>1, <2>3, <4>2, <5>1 DEF WireAt, EndsAt
      <4> QED
        BY <4>1, <4>2
    <3>3. ASSUME NEW j \in 0..(n + 1), NEW k \in 0..(n + 1), j <= k
          PROVE  next[j] <= next[k]
      <4>1. CASE k = n + 1 /\ j \in 0..n
        <5>1. at[j] <= e /\ at[j] \in Nat
          BY <2>1, <2>2, <2>5, <4>1, n \in 0..n
        <5> QED
          BY <2>2, <2>3, <4>1, <5>1
      <4>2. CASE k \in 0..n /\ j \in 0..n
        BY <2>3, <2>5, <3>3, <4>2
      <4>3. CASE j = n + 1
        BY <2>2, <2>3, <3>3, <4>3
      <4> QED
        BY <2>4, <3>3, <4>1, <4>2, <4>3
    <3> QED
      BY <1>5, <3>1, <3>2, <3>3 DEF EndsAt
  <2>7. flushed = e /\ Len(stdout) = e
    BY <1>1, <1>4, <2>1, <2>2 DEF WireAt, WritersAt, OnWire, TypeOK
  <2>8. OnWire(next)'
    <3>1. ASSUME NEW k \in 1..(n + 1), NEW i \in 1..Size(sent'[k]),
                 next[k - 1] + i <= Len(stdout)
          PROVE  stdout[next[k - 1] + i] = Encoded(sent'[k], i)
      <4>1. CASE k = n + 1
        <5>1. k - 1 = n /\ n \in 0..n
          BY <4>1
        <5> QED
          BY <2>2, <2>3, <2>7, <3>1, <5>1, SMTT(40)
      <4>2. CASE k \in 1..n
        <5>1. k - 1 \in 0..n
          BY <4>2
        <5> QED
          BY <1>4, <1>5, <2>1, <2>3, <3>1, <4>2, <5>1 DEF WireAt, OnWire
      <4> QED
        BY <4>1, <4>2
    <3>2. Len(stdout) <= next[n + 1]
      BY <2>2, <2>3, <2>7
    <3>3. next[n + 1 - 1] <= flushed
      <4>1. n + 1 - 1 = n /\ n \in 0..n
        OBVIOUS
      <4> QED
        BY <2>2, <2>3, <2>7, <4>1
    <3>4. Len(sent)' = n + 1 /\ Len(stdout)' = Len(stdout)
          /\ stdout' = stdout /\ flushed' = flushed
      BY <1>1, <1>5
    <3> QED
      BY <3>1, <3>2, <3>3, <3>4 DEF OnWire
  <2>9. WritersAt(next)'
    <3>1. Written(t)' = 0
      BY <1>3 DEF Written
    <3>2. n + 1 - 1 = n /\ n \in 0..n /\ n + 1 > 0
      OBVIOUS
    <3>3. Len(stdout) = next[n] + 0
      BY <2>2, <2>3, <2>7, <3>2
    <3> QED
      BY <1>1, <1>5, <3>1, <3>2, <3>3 DEF WritersAt
  <2>10. ReaderAt(next)'
    <3>1. PICK r \in Nat : r = Len(got)
      BY DEF TypeOK
    <3>2. r <= n /\ r \in 0..n
      BY <1>4, <2>1, <3>1 DEF WireAt, ReaderAt
    <3>3. next[r] = at[r] /\ r <= n + 1
      BY <2>3, <3>2
    <3>4. r < n => r + 1 \in 1..n /\ sent'[r + 1] = sent[r + 1]
      BY <1>5, <3>2
    <3> QED
      BY <1>1, <1>4, <1>5, <2>1, <3>1, <3>2, <3>3, <3>4 DEF WireAt, ReaderAt, readerVars
  <2> QED
    BY <1>5, <2>3, <2>6, <2>8, <2>9, <2>10 DEF Wire, WireAt
<1> QED
  BY <1>6, <1>7, <1>8, <1>9

\* The bytes of a write_all are the next ones of the message of whoever holds
\* the mutex.
LEMMA WriteKeeps ==
  ASSUME FrameInv, ~exited, NEW t \in Threads, NEW here \in Writing, NEW then \in Writing,
         NEW bytes \in Seq(Bytes), WriteAll(t, here, bytes, then),
         Written(t)' = Written(t) + Len(bytes), Written(t) \in Nat,
         Written(t)' <= Size(msg[t]),
         \A i \in 1..Len(bytes) : bytes[i] = Encoded(msg[t], Written(t) + i)
  PROVE  FrameInv'
<1> USE DEF FrameInv
<1>1. /\ UNCHANGED <<msg, mutex, flushed, calls, exited, sent, readerVars>>
      /\ wpc[t] = here /\ wpc' = [wpc EXCEPT ![t] = then] /\ stdout' = stdout \o bytes
  BY DEF WriteAll
<1>2. mutex = t /\ stdout \in Seq(Bytes)
  BY <1>1 DEF CallsOK, TypeOK
<1>3. PICK L \in Nat, b \in Nat : L = Len(stdout) /\ b = Len(bytes)
  BY <1>2
<1>4. /\ stdout' \in Seq(Bytes) /\ Len(stdout') = L + b
      /\ \A i \in 1..(L + b) : stdout'[i] = IF i <= L THEN stdout[i] ELSE bytes[i - L]
  BY <1>1, <1>2, <1>3, ConcatProperties
<1>5. /\ wpc' \in [Threads -> {"idle", "lock", "len", "kind", "payload", "flush"}]
      /\ \A u \in Threads : u # t => wpc'[u] = wpc[u]
      /\ wpc'[t] = then
  BY <1>1 DEF TypeOK, Writing
<1>6. TypeOK'
  <2>1. flushed \in 0..(L + b)
    BY <1>3 DEF TypeOK
  <2> QED
    BY <1>1, <1>4, <1>5, <2>1 DEF TypeOK, readerVars
<1>7. CallsOK'
  <2>1. \A u \in Threads : wpc'[u] # "idle" <=> wpc[u] # "idle"
    BY <1>1, <1>5 DEF Writing
  <2>2. \A u \in Threads : wpc'[u] \in Writing <=> wpc[u] \in Writing
    BY <1>1, <1>5
  <2> QED
    BY <1>1, <2>1, <2>2 DEF CallsOK
<1>8. EndOK'
  BY <1>1 DEF EndOK, readerVars
<1>9. ASSUME outcome' # "gone" PROVE Wire'
  <2>1. PICK at \in [0..Len(sent) -> Nat] : WireAt(at)
    BY <1>1, <1>9 DEF Wire, readerVars
  <2>2. PICK n \in Nat, s \in Nat, e \in Nat, w \in Nat :
          /\ n = Len(sent) /\ n > 0 /\ s = at[n - 1] /\ e = at[n] /\ w = Written(t)
          /\ msg[t] = sent[n] /\ L = s + w
    <3>1. Len(sent) \in Nat /\ Len(sent) > 0
      BY <1>2, <2>1 DEF WireAt, WritersAt, TypeOK
    <3>2. Len(sent) - 1 \in 0..Len(sent) /\ Len(sent) \in 0..Len(sent)
      BY <3>1
    <3>3. /\ msg[t] = sent[Len(sent)]
          /\ Len(stdout) = at[Len(sent) - 1] + Written(t)
      BY <1>2, <2>1 DEF WireAt, WritersAt
    <3>4. at[Len(sent) - 1] \in Nat /\ at[Len(sent)] \in Nat
      BY <2>1, <3>2
    <3> QED
      BY <1>3, <3>1, <3>3, <3>4
  <2>a. L = s + w
    BY <2>2
  <2>3. e = s + Size(msg[t])
    BY <2>1, <2>2, n \in 1..n DEF WireAt, EndsAt
  <2>4. Written(t)' = w + b /\ w + b <= Size(msg[t])
    BY <1>3, <2>2
  <2>5. Size(msg[t]) \in Nat
    BY <1>1, <1>2, MessageFits DEF CallsOK, Size, Writing
  <2>6. EndsAt(at)' /\ ReaderAt(at)'
    BY <1>1, <2>1 DEF WireAt, EndsAt, ReaderAt, readerVars
  <2>7. OnWire(at)'
    <3>1. ASSUME NEW k \in 1..n, NEW i \in 1..Size(sent[k]), at[k - 1] + i <= L + b
          PROVE  stdout'[at[k - 1] + i] = Encoded(sent[k], i)
      <4>1. k - 1 \in 0..n /\ k \in 0..n /\ n - 1 \in 0..n
        BY <2>2, SMTT(40)
      <4>2. PICK a \in Nat : a = at[k - 1]
        BY <2>1, <2>2, <4>1
      <4>3. i \in Nat /\ i > 0 /\ a + i \in 1..(L + b)
        <5>1. i \in Nat /\ i > 0
          BY <3>1
        <5> QED
          BY <3>1, <4>2, <5>1
      <4>4. CASE a + i <= L
        BY <1>3, <1>4, <2>1, <2>2, <3>1, <4>2, <4>3, <4>4 DEF WireAt, OnWire
      <4>5. CASE a + i > L
        <5>1. k = n
          <6>1. SUFFICES ASSUME k <= n - 1 PROVE FALSE
            BY <2>2
          <6>2. at[k] <= s /\ at[k] \in Nat
            BY <2>1, <2>2, <4>1, <6>1 DEF WireAt, EndsAt
          <6>3. at[k] = a + Size(sent[k])
            BY <2>1, <2>2, <4>2 DEF WireAt, EndsAt
          <6>4. Size(sent[k]) \in Int
            BY <4>2, <6>2, <6>3, <2>2, MessageFits DEF CallsOK, TypeOK, Size
          <6> QED
            <7>1. i <= Size(sent[k]) /\ i \in Nat
              BY <3>1, <4>3
            <7>2. a + Size(sent[k]) <= s
              BY <6>2, <6>3
            <7>3. a + i <= s
              BY <6>4, <7>1, <7>2
            <7> QED
              BY <2>a, <4>3, <4>5, <7>3
        <5>2. a = s
          BY <2>2, <4>2, <5>1
        <5>3. a + i - L \in 1..b /\ w + (a + i - L) = i /\ ~(a + i <= L)
          BY <2>a, <4>3, <4>5, <5>2
        <5>4. bytes[a + i - L] = Encoded(msg[t], i)
          BY <1>3, <2>2, <5>3
        <5> QED
          <6>1. stdout'[a + i] = bytes[a + i - L]
            <7>1. PICK p \in 1..(L + b) : p = a + i
              BY <4>3
            <7>2. stdout'[p] = IF p <= L THEN stdout[p] ELSE bytes[p - L]
              BY <1>4, <7>1
            <7>3. ~(p <= L) /\ p - L = a + i - L
              BY <5>3, <7>1
            <7> QED
              BY <7>1, <7>2, <7>3
          <6> QED
            BY <2>2, <4>2, <5>1, <5>4, <6>1
      <4> QED
        BY <4>2, <4>3, <4>4, <4>5, SMTT(40)
    <3>2. L + b <= e
      BY <2>a, <2>3, <2>4, <2>5
    <3>3. /\ Len(sent)' = n /\ sent' = sent /\ flushed' = flushed /\ Len(stdout)' = L + b
      BY <1>1, <1>4, <2>2
    <3>4. at[n - 1] <= flushed
      BY <2>1, <2>2 DEF WireAt, OnWire
    <3> QED
      BY <2>2, <3>1, <3>2, <3>3, <3>4 DEF OnWire
  <2>8. WritersAt(at)'
    <3>1. Len(stdout)' = at[n - 1] + Written(t)'
      BY <1>4, <2>2, <2>4, SMTT(40)
    <3>2. mutex' = t /\ t # None /\ Len(sent)' = n /\ msg'[t] = sent'[n]
      BY <1>1, <1>2, <2>2, FramingAssumption
    <3> QED
      BY <2>2, <3>1, <3>2 DEF WritersAt
  <2> QED
    BY <1>1, <2>1, <2>6, <2>7, <2>8 DEF Wire, WireAt
<1> QED
  BY <1>6, <1>7, <1>8, <1>9

\* The three write_alls are the length, the kind and the payload.
LEMMA WritesKeep ==
  ASSUME FrameInv, ~exited, NEW t \in Threads,
         WriteLen(t) \/ WriteKind(t) \/ WritePayload(t)
  PROVE  FrameInv'
<1> DEFINE m == msg[t]
<1>1. /\ wpc[t] \in {"len", "kind", "payload"} /\ m \in Messages /\ Fits(m.payload)
      /\ msg' = msg
  BY DEF WriteLen, WriteKind, WritePayload, WriteAll, FrameInv, CallsOK
<1>2. /\ m.kind \in Bytes /\ m.payload \in Seq(Bytes) /\ Len(m.payload) \in Nat
  BY <1>1, MessageFits
<1>3. wpc \in [Threads -> {"idle", "lock", "len", "kind", "payload", "flush"}]
  BY DEF FrameInv, TypeOK
<1>4. CASE WriteLen(t)
  <2> DEFINE bytes == to_le_bytes(LengthOf(m.payload))
  <2>1. WriteAll(t, "len", bytes, "kind")
    BY <1>4 DEF WriteLen
  <2>2. bytes \in Seq(Bytes) /\ Len(bytes) = 4
        /\ \A i \in 1..4 : bytes[i] = Encoded(m, i)
    BY <1>1, EncodedIsBytes
  <2>3. Written(t) = 0 /\ Written(t)' = 4
    BY <1>3, <2>1 DEF WriteAll, Written
  <2> HIDE DEF bytes
  <2>4. \A i \in 1..Len(bytes) : bytes[i] = Encoded(m, Written(t) + i)
    <3>1. \A i \in 1..4 : 0 + i = i
      OBVIOUS
    <3> QED
      BY <2>2, <2>3, <3>1
  <2>5. 4 <= Size(m) /\ "len" \in Writing /\ "kind" \in Writing
    BY <1>2 DEF Size, Writing
  <2>6. Written(t)' = Written(t) + Len(bytes) /\ Written(t) \in Nat /\ Written(t)' <= Size(m)
    BY <2>2, <2>3, <2>5
  <2> QED
    BY <2>1, <2>2, <2>4, <2>5, <2>6, WriteKeeps
<1>5. CASE WriteKind(t)
  <2> DEFINE bytes == <<m.kind>>
  <2>1. WriteAll(t, "kind", bytes, "payload")
    BY <1>5 DEF WriteKind
  <2>2. bytes \in Seq(Bytes) /\ Len(bytes) = 1 /\ bytes[1] = Encoded(m, 5)
    BY <1>1, <1>2, EncodedIsBytes
  <2>3. Written(t) = 4 /\ Written(t)' = 5
    BY <1>3, <2>1 DEF WriteAll, Written
  <2> HIDE DEF bytes
  <2>4. \A i \in 1..Len(bytes) : bytes[i] = Encoded(m, Written(t) + i)
    <3>1. \A i \in 1..1 : i = 1 /\ 4 + i = 5
      OBVIOUS
    <3> QED
      BY <2>2, <2>3, <3>1
  <2>5. 5 <= Size(m) /\ "kind" \in Writing /\ "payload" \in Writing
    BY <1>2 DEF Size, Writing
  <2>6. Written(t)' = Written(t) + Len(bytes) /\ Written(t) \in Nat /\ Written(t)' <= Size(m)
    BY <2>2, <2>3, <2>5
  <2> QED
    BY <2>1, <2>2, <2>4, <2>5, <2>6, WriteKeeps
<1>6. CASE WritePayload(t)
  <2> DEFINE bytes == m.payload
  <2>1. WriteAll(t, "payload", bytes, "flush")
    BY <1>6 DEF WritePayload
  <2>2. \A i \in 1..Len(bytes) : bytes[i] = Encoded(m, 5 + i)
    BY <1>1, EncodedIsBytes
  <2>3. Written(t) = 5 /\ Written(t)' = Size(m)
    BY <1>1, <1>3, <2>1 DEF WriteAll, Written
  <2>4. Size(m) = 5 + Len(bytes) /\ "payload" \in Writing /\ "flush" \in Writing
    BY DEF Size, Writing
  <2>5. Size(m) <= Size(m) /\ 5 \in Nat
    BY <1>2, <2>4
  <2> QED
    BY <1>2, <2>1, <2>2, <2>3, <2>4, <2>5, WriteKeeps
<1> QED
  BY <1>4, <1>5, <1>6

\* flush lets go of the mutex when the whole message has left the LineWriter.
LEMMA FlushKeeps ==
  ASSUME FrameInv, ~exited, NEW t \in Threads, Flush(t)
  PROVE  FrameInv'
<1> USE DEF FrameInv
<1>1. /\ UNCHANGED <<msg, stdout, calls, exited, sent, readerVars>> /\ wpc[t] = "flush"
      /\ flushed' = Len(stdout) /\ mutex' = None /\ wpc' = [wpc EXCEPT ![t] = "idle"]
  BY DEF Flush, Flushed, Released
<1>2. mutex = t /\ stdout \in Seq(Bytes)
  BY <1>1 DEF CallsOK, TypeOK, Writing
<1>3. /\ wpc' \in [Threads -> {"idle", "lock", "len", "kind", "payload", "flush"}]
      /\ wpc'[t] = "idle" /\ \A u \in Threads \ {t} : wpc'[u] = wpc[u]
  BY <1>1 DEF TypeOK
<1>4. TypeOK'
  <2>1. Len(stdout) \in 0..Len(stdout) /\ rpos \in 0..Len(stdout)
    BY DEF TypeOK
  <2> QED
    BY <1>1, <1>3, <2>1 DEF TypeOK, readerVars
<1>5. CallsOK'
  <2>1. \A u \in Threads : wpc'[u] \notin Writing /\ u # None
    BY <1>2, <1>3, FramingAssumption DEF CallsOK, Writing
  <2> QED
    BY <1>1, <1>3, <2>1 DEF CallsOK
<1>6. EndOK'
  BY <1>1 DEF EndOK, readerVars
<1>7. ASSUME outcome' # "gone" PROVE Wire'
  <2>1. PICK at \in [0..Len(sent) -> Nat] : WireAt(at)
    BY <1>1, <1>7 DEF Wire, readerVars
  <2>2. PICK n \in Nat : n = Len(sent) /\ n > 0
    BY <1>2, <2>1 DEF WireAt, WritersAt, TypeOK
  <2>3. Len(stdout) = at[n]
    <3>1. Len(stdout) = at[n - 1] + Size(sent[n])
      BY <1>1, <1>2, <2>1, <2>2 DEF WireAt, WritersAt, Written
    <3> QED
      BY <2>1, <2>2, <3>1 DEF WireAt, EndsAt
  <2>4. at[n - 1] <= at[n]
    <3>1. n - 1 \in 0..n /\ n \in 0..n /\ n - 1 <= n
      BY <2>2
    <3> QED
      BY <2>1, <2>2, <3>1 DEF WireAt, EndsAt
  <2>5. EndsAt(at)' /\ ReaderAt(at)'
    BY <1>1, <2>1 DEF WireAt, EndsAt, ReaderAt, readerVars
  <2>6. OnWire(at)'
    BY <1>1, <2>1, <2>2, <2>3, <2>4 DEF WireAt, OnWire
  <2>7. WritersAt(at)'
    BY <1>1, <2>2, <2>3, FramingAssumption DEF WritersAt
  <2> QED
    BY <1>1, <2>1, <2>5, <2>6, <2>7 DEF Wire, WireAt
<1> QED
  BY <1>4, <1>5, <1>6, <1>7

\* Without a reader nothing is promised of the wire.
LEMMA FailKeeps ==
  ASSUME FrameInv, NEW t \in Threads, WriteFails(t)
  PROVE  FrameInv'
<1> USE DEF FrameInv
<1>1. /\ UNCHANGED <<msg, stdout, flushed, calls, exited, sent, readerVars>>
      /\ wpc[t] \in Writing /\ outcome = "gone" /\ mutex' = None
      /\ wpc' = [wpc EXCEPT ![t] = "idle"]
  BY DEF WriteFails, Released, Writing
<1>2. /\ wpc' \in [Threads -> {"idle", "lock", "len", "kind", "payload", "flush"}]
      /\ wpc'[t] = "idle" /\ \A u \in Threads \ {t} : wpc'[u] = wpc[u]
  BY <1>1 DEF TypeOK
<1>3. TypeOK'
  BY <1>1, <1>2 DEF TypeOK, readerVars
<1>4. \A u \in Threads : wpc'[u] \notin Writing /\ u # None
  BY <1>1, <1>2, FramingAssumption DEF CallsOK, Writing
<1>5. CallsOK' /\ EndOK'
  BY <1>1, <1>2, <1>4 DEF CallsOK, EndOK, readerVars
<1> QED
  BY <1>1, <1>3, <1>5 DEF readerVars

\* Bytes leave the LineWriter early only while a message is being written.
LEMMA SpillKeeps == ASSUME FrameInv, Spill PROVE FrameInv'
<1> USE DEF FrameInv
<1>1. UNCHANGED <<writerVars, readerVars>>
  BY DEF Spill
<1>2. PICK f \in Nat, k \in Nat, L \in Nat :
        f = flushed /\ L = Len(stdout) /\ flushed' = k /\ f < k /\ k <= L
  <2>1. Len(stdout) \in Nat /\ flushed \in Nat
    BY DEF TypeOK
  <2>2. PICK k \in (flushed + 1)..Len(stdout) : flushed' = k
    BY DEF Spill
  <2>3. k \in Nat /\ flushed < k /\ k <= Len(stdout)
    BY <2>1, <2>2
  <2> QED
    BY <2>1, <2>2, <2>3
<1>3. TypeOK' /\ CallsOK' /\ EndOK'
  <2>1. flushed' \in 0..Len(stdout) /\ rpos \in 0..flushed'
    BY <1>2 DEF TypeOK
  <2> QED
    BY <1>1, <2>1 DEF TypeOK, CallsOK, EndOK, writerVars, readerVars
<1>4. ASSUME outcome' # "gone" PROVE Wire'
  <2>1. PICK at \in [0..Len(sent) -> Nat] : WireAt(at)
    BY <1>1, <1>4 DEF Wire, readerVars
  <2>2. PICK n \in Nat : n = Len(sent)
    BY DEF TypeOK
  <2>3. EndsAt(at)' /\ ReaderAt(at)'
    BY <1>1, <2>1 DEF WireAt, EndsAt, ReaderAt, writerVars, readerVars
  <2>4. OnWire(at)'
    <3>1. n > 0 => at[n - 1] \in Nat /\ at[n - 1] <= f
      <4>1. n > 0 => n - 1 \in 0..n
        OBVIOUS
      <4> QED
        BY <1>2, <2>1, <2>2, <4>1 DEF WireAt, OnWire
    <3>2. n > 0 => at[n - 1] <= flushed'
      BY <1>2, <3>1
    <3> QED
      BY <1>1, <2>1, <2>2, <3>2 DEF WireAt, OnWire, writerVars
  <2>5. ~exited => mutex # None
    <3>1. at[n] \in Nat /\ L <= at[n]
      BY <1>2, <2>1, <2>2, n \in 0..n DEF WireAt, OnWire
    <3> QED
      BY <1>2, <2>1, <2>2, <3>1 DEF WireAt, WritersAt
  <2>6. WritersAt(at)'
    BY <1>1, <2>1, <2>5 DEF WireAt, WritersAt, Written, writerVars
  <2> QED
    BY <1>1, <2>1, <2>3, <2>4, <2>6 DEF Wire, WireAt, writerVars
<1> QED
  BY <1>3, <1>4

\* The exit cuts off no more than the last message.
LEMMA ExitKeeps == ASSUME FrameInv, ~exited, ProcessExit PROVE FrameInv'
<1> USE DEF FrameInv
<1>1. UNCHANGED <<wpc, msg, mutex, calls, sent, readerVars>> /\ exited' = TRUE
  BY DEF ProcessExit
<1>2. PICK f \in Nat, k \in Nat, L \in Nat :
        /\ f = flushed /\ L = Len(stdout) /\ flushed' = k /\ f <= k /\ k <= L
        /\ stdout' = SubSeq(stdout, 1, k)
  <2>1. Len(stdout) \in Nat /\ flushed \in Nat
    BY DEF TypeOK
  <2>2. PICK k \in flushed..Len(stdout) : flushed' = k /\ stdout' = SubSeq(stdout, 1, k)
    BY DEF ProcessExit
  <2>3. k \in Nat /\ flushed <= k /\ k <= Len(stdout)
    BY <2>1, <2>2
  <2> QED
    BY <2>1, <2>2, <2>3
<1>3. /\ stdout' \in Seq(Bytes) /\ Len(stdout') = k
      /\ \A i \in 1..k : stdout'[i] = stdout[i]
  <2>1. stdout \in Seq(Bytes) /\ \A i \in 1..k : stdout[i] \in Bytes
    BY <1>2 DEF TypeOK
  <2>2. /\ SubSeq(stdout, 1, k) \in Seq(Bytes)
        /\ Len(SubSeq(stdout, 1, k)) = IF 1 <= k THEN k - 1 + 1 ELSE 0
        /\ \A i \in 1..(k - 1 + 1) : SubSeq(stdout, 1, k)[i] = stdout[1 + i - 1]
    BY <2>1, SubSeqProperties
  <2>3. k - 1 + 1 = k /\ \A i \in 1..k : 1 + i - 1 = i
    OBVIOUS
  <2> QED
    BY <1>2, <2>2, <2>3
<1>4. TypeOK' /\ CallsOK' /\ EndOK'
  <2>1. flushed' \in 0..k /\ rpos \in 0..flushed'
    BY <1>2 DEF TypeOK
  <2> QED
    BY <1>1, <1>3, <2>1 DEF TypeOK, CallsOK, EndOK, readerVars
<1>5. ASSUME outcome' # "gone" PROVE Wire'
  <2>1. PICK at \in [0..Len(sent) -> Nat] : WireAt(at)
    BY <1>1, <1>5 DEF Wire, readerVars
  <2>2. PICK n \in Nat : n = Len(sent)
    BY DEF TypeOK
  <2>3. EndsAt(at)' /\ ReaderAt(at)' /\ WritersAt(at)'
    BY <1>1, <2>1 DEF WireAt, EndsAt, ReaderAt, WritersAt, readerVars
  <2>4. OnWire(at)'
    <3>1. ASSUME NEW j \in 1..n, NEW i \in 1..Size(sent[j]), at[j - 1] + i <= k
          PROVE  stdout'[at[j - 1] + i] = Encoded(sent[j], i)
      <4>1. PICK a \in Nat : a = at[j - 1]
        BY <2>1, <2>2, j - 1 \in 0..n
      <4>2. i \in Nat /\ i > 0
        BY <3>1
      <4>3. a + i \in 1..k /\ a + i <= L
        BY <1>2, <3>1, <4>1, <4>2
      <4> QED
        BY <1>2, <1>3, <2>1, <2>2, <4>1, <4>3 DEF WireAt, OnWire
    <3>2. at[n] \in Nat /\ k <= at[n]
      BY <1>2, <2>1, <2>2, n \in 0..n DEF WireAt, OnWire
    <3>3. n > 0 => at[n - 1] <= k
      <4>1. n > 0 => n - 1 \in 0..n /\ at[n - 1] <= f
        BY <1>2, <2>1, <2>2 DEF WireAt, OnWire
      <4> QED
        BY <1>2, <2>1, <2>2, <4>1
    <3>4. Len(sent)' = n /\ sent' = sent /\ Len(stdout)' = k /\ flushed' = k
      BY <1>1, <1>2, <1>3, <2>2
    <3> QED
      BY <3>1, <3>2, <3>3, <3>4 DEF OnWire
  <2> QED
    BY <1>1, <2>1, <2>3, <2>4 DEF Wire, WireAt
<1> QED
  BY <1>4, <1>5

-----------------------------------------------------------------------------
(* The reader                                                              *)

\* Every message that got the mutex is one that fits.
LEMMA MessageAt ==
  ASSUME FrameInv, NEW k \in 1..Len(sent)
  PROVE  sent[k] \in Messages /\ Fits(sent[k].payload)
BY DEF FrameInv, TypeOK, CallsOK

\* A piece of a sequence.
LEMMA CutIs ==
  ASSUME NEW S, NEW s \in Seq(S), NEW p \in Nat, NEW n \in Nat, p + n <= Len(s)
  PROVE  /\ SubSeq(s, p + 1, p + n) \in Seq(S) /\ Len(SubSeq(s, p + 1, p + n)) = n
         /\ \A i \in 1..n : SubSeq(s, p + 1, p + n)[i] = s[p + i]
<1>1. \A i \in (p + 1)..(p + n) : s[i] \in S
  OBVIOUS
<1>2. /\ SubSeq(s, p + 1, p + n) \in Seq(S)
      /\ Len(SubSeq(s, p + 1, p + n))
           = IF p + 1 <= p + n THEN p + n - (p + 1) + 1 ELSE 0
      /\ \A i \in 1..(p + n - (p + 1) + 1) :
           SubSeq(s, p + 1, p + n)[i] = s[p + 1 + i - 1]
  BY <1>1, SubSeqProperties
<1>3. p + n - (p + 1) + 1 = n /\ (~(p + 1 <= p + n) => n = 0)
  OBVIOUS
<1>4. \A i \in 1..n : p + 1 + i - 1 = p + i
  OBVIOUS
<1> QED
  BY <1>2, <1>3, <1>4

\* What is taken from the pipe are the next bytes of the message being read.
LEMMA TakenIs ==
  ASSUME FrameInv, NEW at \in [0..Len(sent) -> Nat], WireAt(at),
         NEW n \in Nat, rpos + n <= flushed,
         NEW r \in Nat, r < Len(sent), NEW lo \in Nat, rpos = at[r] + lo,
         lo + n <= Size(sent[r + 1])
  PROVE  /\ Taken(n) \in Seq(Bytes) /\ Len(Taken(n)) = n
         /\ \A i \in 1..n : Taken(n)[i] = Encoded(sent[r + 1], lo + i)
<1>1. PICK p \in Nat, L \in Nat :
        p = rpos /\ L = Len(stdout) /\ p + n <= L /\ stdout \in Seq(Bytes)
  <2>1. rpos \in Nat /\ Len(stdout) \in Nat /\ flushed <= Len(stdout) /\ flushed \in Nat
        /\ stdout \in Seq(Bytes)
    BY DEF FrameInv, TypeOK
  <2> QED
    BY <2>1
<1>5. /\ Taken(n) \in Seq(Bytes) /\ Len(Taken(n)) = n
      /\ \A i \in 1..n : Taken(n)[i] = stdout[p + i]
  <2>1. p + n <= Len(stdout) /\ stdout \in Seq(Bytes)
    BY <1>1
  <2>2. /\ SubSeq(stdout, p + 1, p + n) \in Seq(Bytes)
        /\ Len(SubSeq(stdout, p + 1, p + n)) = n
        /\ \A i \in 1..n : SubSeq(stdout, p + 1, p + n)[i] = stdout[p + i]
    BY <2>1, CutIs
  <2>3. Taken(n) = SubSeq(stdout, p + 1, p + n)
    BY <1>1 DEF Taken
  <2> QED
    BY <2>2, <2>3
<1>6. ASSUME NEW i \in 1..n PROVE stdout[p + i] = Encoded(sent[r + 1], lo + i)
  <2>1. r + 1 \in 1..Len(sent) /\ r + 1 - 1 = r
    BY DEF FrameInv, TypeOK
  <2>2. Size(sent[r + 1]) \in Nat
    BY <2>1, MessageAt, MessageFits DEF Size
  <2>3. lo + i \in 1..Size(sent[r + 1])
    BY <2>2
  <2>4. at[r + 1 - 1] + (lo + i) <= Len(stdout) =>
          stdout[at[r + 1 - 1] + (lo + i)] = Encoded(sent[r + 1], lo + i)
    BY <2>1, <2>3 DEF WireAt, OnWire
  <2>5. at[r] \in Nat
    BY SMTT(40) DEF FrameInv, TypeOK
  <2>6. at[r] + (lo + i) = p + i /\ p + i <= L
    BY <1>1, <2>5, SMTT(40)
  <2> QED
    BY <1>1, <2>1, <2>4, <2>6
<1> QED
  BY <1>5, <1>6

\* Where the reader is: the message after those it has returned.
LEMMA ReadingIs ==
  ASSUME FrameInv, NEW at \in [0..Len(sent) -> Nat], WireAt(at), rpos < flushed \/ rpc # "len"
  PROVE  /\ Len(got) \in Nat /\ Len(got) < Len(sent)
         /\ sent[Len(got) + 1] \in Messages /\ Fits(sent[Len(got) + 1].payload)
         /\ at[Len(got)] \in Nat
         /\ at[Len(got) + 1] = at[Len(got)] + Size(sent[Len(got) + 1])
<1>1. PICK n \in Nat, r \in Nat : n = Len(sent) /\ r = Len(got)
  BY DEF FrameInv, TypeOK
<1>2. r <= n
  BY <1>1 DEF WireAt, ReaderAt
<1>3. at[r] \in Nat /\ at[n] \in Nat
  BY <1>1, <1>2, r \in 0..n, n \in 0..n
<1>4. r # n
  <2>1. CASE rpc # "len"
    BY <1>1, <2>1 DEF WireAt, ReaderAt
  <2>2. CASE rpc = "len"
    <3>1. rpos = at[r] /\ rpos < flushed
      BY <1>1, <2>2 DEF WireAt, ReaderAt
    <3>2. flushed \in Nat /\ flushed <= at[n]
      <4>1. flushed \in 0..Len(stdout) /\ Len(stdout) \in Nat /\ Len(stdout) <= at[n]
        BY <1>1 DEF FrameInv, TypeOK, WireAt, OnWire
      <4> QED
        BY <1>3, <4>1
    <3> QED
      BY <1>3, <3>1, <3>2
  <2> QED
    BY <2>1, <2>2
<1>5. r + 1 \in 1..n /\ r + 1 - 1 = r
  BY <1>2, <1>4
<1>6. at[r + 1] = at[r + 1 - 1] + Size(sent[r + 1])
  BY <1>1, <1>5 DEF WireAt, EndsAt
<1> QED
  BY <1>1, <1>2, <1>3, <1>4, <1>5, <1>6, MessageAt

\* A step of the reader leaves what the writers have done.
LEMMA ReaderLeaves ==
  ASSUME FrameInv, UNCHANGED <<writerVars, flushed>>, NEW at \in [0..Len(sent) -> Nat],
         WireAt(at), ReaderAt(at)'
  PROVE  CallsOK' /\ Wire'
<1>1. CallsOK'
  BY DEF FrameInv, CallsOK, writerVars
<1>2. EndsAt(at)' /\ OnWire(at)' /\ WritersAt(at)'
  BY DEF WireAt, EndsAt, OnWire, WritersAt, Written, writerVars
<1>3. at \in [0..Len(sent') -> Nat]
  BY DEF writerVars
<1> QED
  BY <1>1, <1>2, <1>3 DEF Wire, WireAt

\* The length field read is the length that raw computed.
LEMMA ReadLenKeeps ==
  ASSUME FrameInv, ReadLen
  PROVE  FrameInv' /\ UNCHANGED <<sent, got, outcome>>
<1>1. /\ UNCHANGED <<writerVars, flushed, rkind, got>> /\ outcome = "reading" /\ rpc = "len"
      /\ flushed - rpos >= 4 /\ rpos' = rpos + 4
  BY DEF ReadLen, ReadExact, Avail
<1>2. rpos \in Nat /\ flushed \in Nat /\ rpos + 4 <= flushed /\ rpos < flushed
  <2>1. rpos \in Nat /\ flushed \in Nat
    BY DEF FrameInv, TypeOK
  <2> QED
    BY <1>1, <2>1
<1>3. PICK at \in [0..Len(sent) -> Nat] : WireAt(at)
  BY <1>1 DEF FrameInv, Wire
<1>4. PICK r \in Nat : r = Len(got)
  BY <1>2, <1>3, ReadingIs
<1>5. /\ r < Len(sent) /\ sent[r + 1] \in Messages /\ Fits(sent[r + 1].payload) /\ at[r] \in Nat
  BY <1>2, <1>3, <1>4, ReadingIs
<1> DEFINE m == sent[r + 1]
           len == Len(m.payload) + 1
<1>6. /\ Len(m.payload) \in Nat /\ len \in 1..MAX_FRAME_BYTES /\ len \in 0..(LenMod - 1)
      /\ LengthOf(m.payload) = len /\ 4 <= Size(m)
  <2>1. /\ Len(m.payload) \in Nat /\ Len(m.payload) + 1 <= MAX_FRAME_BYTES
        /\ Len(m.payload) + 1 \in 0..(LenMod - 1)
        /\ LengthOf(m.payload) = Len(m.payload) + 1
    BY <1>5, MessageFits
  <2> QED
    BY <2>1, FramingAssumption DEF Size
<1>7. rpos = at[r] + 0
  BY <1>1, <1>3, <1>4, <1>5 DEF WireAt, ReaderAt
<1>8. /\ Taken(4) \in Seq(Bytes) /\ Len(Taken(4)) = 4
      /\ \A i \in 1..4 : Taken(4)[i] = Encoded(m, 0 + i)
  <2>1. 0 + 4 <= Size(sent[r + 1]) /\ 4 \in Nat /\ 0 \in Nat
    BY <1>6
  <2> HIDE DEF m, len
  <2>2. PICK n \in Nat, lo \in Nat : n = 4 /\ lo = 0
    BY <2>1
  <2>3. rpos + n <= flushed /\ rpos = at[r] + lo /\ lo + n <= Size(sent[r + 1])
    BY <1>2, <1>7, <2>1, <2>2
  <2>4. /\ Taken(n) \in Seq(Bytes) /\ Len(Taken(n)) = n
        /\ \A i \in 1..n : Taken(n)[i] = Encoded(sent[r + 1], lo + i)
    BY <1>3, <1>5, <2>3, TakenIs, ZenonT(40)
  <2> QED
    BY <2>2, <2>4 DEF m
<1>9. Taken(4) = to_le_bytes(len)
  <2>1. /\ to_le_bytes(len) \in Seq(Bytes) /\ Len(to_le_bytes(len)) = 4
        /\ \A i \in 1..4 : to_le_bytes(len)[i] = Encoded(m, i)
    BY <1>5, <1>6, EncodedIsBytes
  <2>2. \A i \in 1..4 : 0 + i = i
    OBVIOUS
  <2> HIDE DEF m, len
  <2>3. \A i \in 1..4 : Taken(4)[i] = to_le_bytes(len)[i]
    BY <1>8, <2>1, <2>2
  <2> QED
    BY <1>8, <2>1, <2>3, SeqEqual
<1>10. from_le_bytes(Taken(4)) = len
  BY <1>6, <1>9, RoundTrip
<1> HIDE DEF len
<1>11. rlen' = len /\ rpc' = "kind" /\ outcome' = outcome
  <2>1. ~(len < 1 \/ len > MAX_FRAME_BYTES)
    BY <1>6, FramingAssumption
  <2> QED
    BY <1>10, <2>1 DEF ReadLen
<1>12. TypeOK'
  <2>1. rpos' \in 0..flushed' /\ rlen' \in 0..MAX_FRAME_BYTES
    BY <1>1, <1>2, <1>6, <1>11, FramingAssumption
  <2> QED
    BY <1>1, <1>11, <2>1 DEF FrameInv, TypeOK, writerVars
<1>13. ReaderAt(at)'
  <2>1. rpos' = at[r] + 4 /\ r <= Len(sent) /\ sent' = sent /\ got' = got
    BY <1>1, <1>2, <1>3, <1>4, <1>5, <1>7 DEF WireAt, ReaderAt, writerVars
  <2> QED
    BY <1>4, <1>5, <1>11, <2>1 DEF ReaderAt, len
<1>14. CallsOK' /\ Wire'
  BY <1>1, <1>3, <1>13, ReaderLeaves
<1>15. EndOK'
  BY <1>1, <1>11 DEF FrameInv, EndOK
<1> QED
  BY <1>1, <1>11, <1>12, <1>14, <1>15 DEF FrameInv, writerVars

\* So is the kind.
LEMMA ReadKindKeeps == ASSUME FrameInv, ReadKind PROVE FrameInv'
<1>1. /\ UNCHANGED <<writerVars, flushed, rlen, got, outcome>> /\ outcome = "reading"
      /\ rpc = "kind" /\ flushed - rpos >= 1 /\ rpos' = rpos + 1
      /\ rkind' = Taken(1)[1] /\ rpc' = "payload"
  BY DEF ReadKind, ReadExact, Avail
<1>2. rpos \in Nat /\ flushed \in Nat /\ rpos + 1 <= flushed
  <2>1. rpos \in Nat /\ flushed \in Nat
    BY DEF FrameInv, TypeOK
  <2> QED
    BY <1>1, <2>1
<1>3. PICK at \in [0..Len(sent) -> Nat] : WireAt(at)
  BY <1>1 DEF FrameInv, Wire
<1>4. rpc # "len"
  BY <1>1
<1>5. PICK r \in Nat : r = Len(got)
  BY <1>3, <1>4, ReadingIs
<1>6. /\ r < Len(sent) /\ sent[r + 1] \in Messages /\ Fits(sent[r + 1].payload) /\ at[r] \in Nat
  BY <1>3, <1>4, <1>5, ReadingIs
<1>7. rpos = at[r] + 4 /\ rlen = Len(sent[r + 1].payload) + 1
  BY <1>1, <1>3, <1>5 DEF WireAt, ReaderAt
<1> DEFINE m == sent[r + 1]
<1>8. /\ m.kind \in Bytes /\ 4 + 1 <= Size(m) /\ Encoded(m, 5) = m.kind
  <2>1. m.kind \in Bytes /\ Len(m.payload) \in Nat
    BY <1>6, MessageFits
  <2> QED
    BY <1>6, <2>1, EncodedIsBytes DEF Size
<1>9. rkind' = m.kind
  <2>1. PICK n \in Nat, lo \in Nat : n = 1 /\ lo = 4
    OBVIOUS
  <2>2. rpos + n <= flushed /\ rpos = at[r] + lo /\ lo + n <= Size(sent[r + 1])
    BY <1>2, <1>7, <1>8, <2>1
  <2>3. \A i \in 1..n : Taken(n)[i] = Encoded(sent[r + 1], lo + i)
    BY <1>3, <1>6, <2>2, TakenIs, ZenonT(40)
  <2>4. 1 \in 1..n /\ lo + 1 = 5
    BY <2>1
  <2>5. Taken(n)[1] = Encoded(m, 5)
    BY <2>3, <2>4
  <2> QED
    BY <1>1, <1>8, <2>1, <2>5
<1>10. TypeOK'
  <2>1. rpos' \in 0..flushed' /\ rkind' \in Bytes
    BY <1>1, <1>2, <1>8, <1>9
  <2> QED
    BY <1>1, <2>1 DEF FrameInv, TypeOK, writerVars
<1>11. ReaderAt(at)'
  <2>1. rpos' = at[r] + 5 /\ r <= Len(sent) /\ sent' = sent /\ got' = got
    BY <1>1, <1>2, <1>3, <1>5, <1>6, <1>7 DEF WireAt, ReaderAt, writerVars
  <2> QED
    BY <1>1, <1>5, <1>6, <1>7, <1>9, <2>1 DEF ReaderAt
<1>12. CallsOK' /\ Wire'
  BY <1>1, <1>3, <1>11, ReaderLeaves
<1>13. EndOK'
  BY <1>1 DEF FrameInv, EndOK
<1> QED
  BY <1>10, <1>12, <1>13 DEF FrameInv

\* What read_message returns is the next message, whole.
LEMMA ReadPayloadKeeps ==
  ASSUME FrameInv, ReadPayload
  PROVE  /\ FrameInv'
         /\ Len(got) < Len(sent) /\ got' = Append(got, sent[Len(got) + 1])
<1>1. /\ UNCHANGED <<writerVars, flushed, rlen, rkind, outcome>> /\ outcome = "reading"
      /\ rpc = "payload" /\ flushed - rpos >= rlen - 1 /\ rpos' = rpos + (rlen - 1)
      /\ got' = Append(got, [kind |-> rkind, payload |-> Taken(rlen - 1)])
      /\ rpc' = "len"
  BY DEF ReadPayload, ReadExact, Avail
<1>2. PICK at \in [0..Len(sent) -> Nat] : WireAt(at)
  BY <1>1 DEF FrameInv, Wire
<1>3. rpc # "len"
  BY <1>1
<1>4. PICK r \in Nat : r = Len(got)
  BY <1>2, <1>3, ReadingIs
<1>5. /\ r < Len(sent) /\ sent[r + 1] \in Messages /\ Fits(sent[r + 1].payload) /\ at[r] \in Nat
      /\ at[r + 1] = at[r] + Size(sent[r + 1])
  BY <1>2, <1>3, <1>4, ReadingIs
<1> DEFINE m == sent[r + 1]
<1>6. /\ m.kind \in Bytes /\ m.payload \in Seq(Bytes)
  BY <1>5, MessageFits
<1>7. PICK n \in Nat : n = Len(m.payload)
  BY <1>6
<1>8. rpos = at[r] + 5 /\ rlen = n + 1 /\ rkind = m.kind /\ Size(m) = 5 + n
  BY <1>1, <1>2, <1>4, <1>7 DEF WireAt, ReaderAt, Size
<1>9. rpos \in Nat /\ flushed \in Nat /\ rlen - 1 = n /\ rpos + n <= flushed
      /\ 5 + n <= Size(m) /\ 5 \in Nat
  <2>1. rpos \in Nat /\ flushed \in Nat
    BY DEF FrameInv, TypeOK
  <2>2. rlen - 1 = n
    BY <1>8
  <2> QED
    BY <1>1, <1>8, <2>1, <2>2, SMTT(40)
<1>10. /\ Taken(n) \in Seq(Bytes) /\ Len(Taken(n)) = n
       /\ \A i \in 1..n : Taken(n)[i] = Encoded(m, 5 + i)
  <2>1. PICK lo \in Nat : lo = 5
    OBVIOUS
  <2>2. rpos + n <= flushed /\ rpos = at[r] + lo /\ lo + n <= Size(sent[r + 1])
    BY <1>8, <1>9, <2>1
  <2>3. /\ Taken(n) \in Seq(Bytes) /\ Len(Taken(n)) = n
        /\ \A i \in 1..n : Taken(n)[i] = Encoded(sent[r + 1], lo + i)
    BY <1>2, <1>5, <2>2, TakenIs, ZenonT(40)
  <2> QED
    BY <2>1, <2>3
<1>11. Taken(n) = m.payload
  <2>1. \A i \in 1..n : Encoded(m, 5 + i) = m.payload[i]
    BY <1>5, <1>7, EncodedIsBytes
  <2> HIDE DEF m
  <2>2. \A i \in 1..n : Taken(n)[i] = m.payload[i]
    BY <1>10, <2>1
  <2> QED
    BY <1>6, <1>7, <1>10, <2>2, SeqEqual
<1>12. got' = Append(got, m)
  <2>1. m = [kind |-> m.kind, payload |-> m.payload]
    BY <1>5 DEF Messages
  <2> QED
    BY <1>1, <1>8, <1>9, <1>11, <2>1
<1>13. got \in Seq([kind : Bytes, payload : Seq(Bytes)])
       /\ m \in [kind : Bytes, payload : Seq(Bytes)]
  <2>1. m = [kind |-> m.kind, payload |-> m.payload]
    BY <1>5 DEF Messages
  <2> QED
    BY <1>6, <2>1 DEF FrameInv, TypeOK
<1>14. got' \in Seq([kind : Bytes, payload : Seq(Bytes)]) /\ Len(got') = r + 1
  BY <1>4, <1>12, <1>13, AppendProperties
<1>15. TypeOK'
  <2>1. rpos' \in 0..flushed'
    BY <1>1, <1>9
  <2> QED
    BY <1>1, <1>14, <2>1 DEF FrameInv, TypeOK, writerVars
<1>16. ReaderAt(at)'
  <2>1. rpos' = at[r + 1] /\ r + 1 <= Len(sent) /\ sent' = sent
    <3>1. rpos' = rpos + n
      BY <1>1, <1>9
    <3>2. Len(sent) \in Nat
      BY DEF FrameInv, TypeOK
    <3>3. rpos' = at[r + 1]
      BY <1>5, <1>8, <3>1, SMTT(40)
    <3>4. r + 1 <= Len(sent)
      BY <1>5, <3>2
    <3> QED
      BY <1>1, <3>3, <3>4 DEF writerVars
  <2> QED
    BY <1>1, <1>14, <2>1 DEF ReaderAt
<1>17. CallsOK' /\ Wire'
  BY <1>1, <1>2, <1>16, ReaderLeaves
<1>18. EndOK'
  BY <1>1 DEF FrameInv, EndOK
<1> QED
  BY <1>4, <1>5, <1>12, <1>15, <1>17, <1>18 DEF FrameInv

\* The stream ends inside the last message, or after it.
LEMMA ReadEndsKeeps ==
  ASSUME FrameInv, ReadEnds
  PROVE  /\ FrameInv' /\ outcome = "reading" /\ outcome' \in {"eof", "error"}
         /\ UNCHANGED <<sent, got>> /\ Len(sent) <= Len(got) + 1
<1>1. /\ UNCHANGED <<writerVars, flushed, rpc, rpos, rlen, rkind, got>>
      /\ outcome = "reading" /\ exited /\ outcome' \in {"eof", "error"}
      /\ \/ rpc = "len" /\ flushed - rpos < 4 /\ outcome' = "eof"
         \/ rpc = "kind" /\ flushed - rpos < 1
         \/ rpc = "payload" /\ flushed - rpos < rlen - 1
  BY DEF ReadEnds, ReadEof, Avail
<1>2. PICK at \in [0..Len(sent) -> Nat] : WireAt(at)
  BY <1>1 DEF FrameInv, Wire
<1>3. PICK n \in Nat, r \in Nat, p \in Nat, f \in Nat :
        n = Len(sent) /\ r = Len(got) /\ p = rpos /\ f = flushed
  BY DEF FrameInv, TypeOK
<1>4. r <= n /\ (rpc # "len" => r < n)
  BY <1>2, <1>3 DEF WireAt, ReaderAt
<1>5. n <= r + 1
  <2>1. SUFFICES ASSUME r + 1 <= n - 1 PROVE FALSE
    OBVIOUS
  <2>2. r + 1 \in 1..n /\ r \in 0..n /\ r + 1 \in 0..n /\ n - 1 \in 0..n /\ r + 1 - 1 = r
        /\ n > 0
    BY <2>1
  <2>3. PICK a \in Nat, b \in Nat : a = at[r] /\ b = at[r + 1]
    BY <1>2, <1>3, <2>2
  <2>4. PICK l \in Nat : l = Len(sent[r + 1].payload)
    BY <1>3, <2>2, MessageAt, MessageFits
  <2>5. b = a + (5 + l)
    BY <1>2, <1>3, <2>2, <2>3, <2>4 DEF WireAt, EndsAt, Size
  <2>6. b <= f
    <3>1. at[n - 1] \in Nat /\ at[n - 1] <= f
      BY <1>2, <1>3, <2>2 DEF WireAt, OnWire
    <3>2. b <= at[n - 1]
      BY <1>2, <1>3, <2>1, <2>2, <2>3 DEF WireAt, EndsAt
    <3> QED
      BY <3>1, <3>2
  <2>7. /\ rpc = "len" => p = a
        /\ rpc = "kind" => p = a + 4
        /\ rpc = "payload" => p = a + 5 /\ rlen = l + 1
    BY <1>2, <1>3, <2>3, <2>4 DEF WireAt, ReaderAt
  <2>8. CASE rpc = "len"
    BY <1>1, <1>3, <2>5, <2>6, <2>7, <2>8
  <2>9. CASE rpc = "kind"
    BY <1>1, <1>3, <2>5, <2>6, <2>7, <2>9
  <2>10. CASE rpc = "payload"
    BY <1>1, <1>3, <2>5, <2>6, <2>7, <2>10
  <2> QED
    BY <1>1, <2>8, <2>9, <2>10
<1>6. TypeOK'
  BY <1>1 DEF FrameInv, TypeOK, writerVars
<1>7. EndOK'
  BY <1>1, <1>3, <1>4 DEF EndOK, writerVars
<1>8. ReaderAt(at)'
  BY <1>1, <1>2 DEF WireAt, ReaderAt, writerVars
<1>9. CallsOK' /\ Wire'
  BY <1>1, <1>2, <1>8, ReaderLeaves
<1> QED
  BY <1>1, <1>3, <1>5, <1>6, <1>7, <1>9 DEF FrameInv, writerVars

\* The reader dies.
LEMMA ReaderGoneKeeps == ASSUME FrameInv, ReaderGone PROVE FrameInv'
<1>1. UNCHANGED <<writerVars, flushed, rpc, rpos, rlen, rkind, got>> /\ outcome' = "gone"
  BY DEF ReaderGone
<1>2. TypeOK'
  BY <1>1 DEF FrameInv, TypeOK, writerVars
<1>3. CallsOK' /\ EndOK'
  BY <1>1 DEF FrameInv, CallsOK, EndOK, writerVars
<1> QED
  BY <1>1, <1>2, <1>3 DEF FrameInv

\* Nothing happens.
LEMMA FrameInvStutter == ASSUME FrameInv, UNCHANGED vars PROVE FrameInv'
<1>1. UNCHANGED <<writerVars, flushed, readerVars>>
  BY DEF vars
<1>2. TypeOK' /\ CallsOK' /\ EndOK'
  BY <1>1 DEF FrameInv, TypeOK, CallsOK, EndOK, writerVars, readerVars
<1>3. ASSUME outcome' # "gone" PROVE Wire'
  <2>1. PICK at \in [0..Len(sent) -> Nat] : WireAt(at)
    BY <1>1, <1>3 DEF FrameInv, Wire, readerVars
  <2>2. ReaderAt(at)'
    BY <1>1, <2>1 DEF WireAt, ReaderAt, writerVars, readerVars
  <2> QED
    BY <1>1, <2>1, <2>2, ReaderLeaves
<1> QED
  BY <1>2, <1>3 DEF FrameInv

\* Every step, and stuttering.
LEMMA FrameInvStep == FrameInv /\ [Next]_vars => FrameInv'
<1> SUFFICES ASSUME FrameInv, [Next]_vars PROVE FrameInv'
  OBVIOUS
<1>1. CASE \E t \in Threads, m \in Messages : ~exited /\ Call(t, m)
  BY <1>1, CallKeeps
<1>2. CASE \E t \in Threads : Thread(t)
  <2>1. PICK t \in Threads : ~exited
          /\ (Lock(t) \/ WriteLen(t) \/ WriteKind(t) \/ WritePayload(t) \/ Flush(t)
                \/ WriteFails(t))
    BY <1>2 DEF Thread
  <2> QED
    BY <2>1, LockKeeps, WritesKeep, FlushKeeps, FailKeeps
<1>3. CASE ~exited /\ (Spill \/ ProcessExit)
  BY <1>3, SpillKeeps, ExitKeeps
<1>4. CASE Reader
  BY <1>4, ReadLenKeeps, ReadKindKeeps, ReadPayloadKeeps, ReadEndsKeeps DEF Reader
<1>5. CASE ReaderGone
  BY <1>5, ReaderGoneKeeps
<1>6. CASE UNCHANGED vars
  BY <1>6, FrameInvStutter
<1> QED
  BY <1>1, <1>2, <1>3, <1>4, <1>5, <1>6 DEF Next, Over

\* Between the mutex, the LineWriter and the end of the stream, the wire holds
\* whole messages in the order of the mutex.
THEOREM FrameInvHolds == Spec => []FrameInv
BY FrameInvInit, FrameInvStep, PTL DEF Spec

-----------------------------------------------------------------------------
(* The theorems                                                            *)

\* What is on the wire is bytes, and the reader never allocates more than
\* MAX_FRAME_BYTES.
THEOREM FramingTypeCorrect == Spec => []TypeOK
<1>1. FrameInv => TypeOK
  BY DEF FrameInv
<1> QED
  BY <1>1, FrameInvHolds, PTL

\* read_message fails only on a message that the exit of the process has cut
\* short, never because the bytes of two messages got mixed.
THEOREM NeverDesynchronisedHolds == Spec => []NeverDesynchronised
<1>1. FrameInv => NeverDesynchronised
  BY DEF FrameInv, EndOK, NeverDesynchronised
<1> QED
  BY <1>1, FrameInvHolds, PTL

\* Writer and read_message together are a FIFO of whole messages, in the order
\* of the mutex, that loses at most the message being written at the exit.
THEOREM FramingImplementsChannel == Spec => FollowsChannel
<1>1. Init => Channel!Init
  BY DEF Init, Channel!Init
<1>2. FrameInv /\ [Next]_vars => [Channel!Next]_<<sent, got,
                                  IF outcome = "gone" THEN "reading" ELSE outcome>>
  <2> DEFINE seen == IF outcome = "gone" THEN "reading" ELSE outcome
  <2> SUFFICES ASSUME FrameInv, [Next]_vars
               PROVE  Channel!Next \/ UNCHANGED <<sent, got, seen>>
    OBVIOUS
  <2>1. CASE \E t \in Threads, m \in Messages : ~exited /\ Call(t, m)
    BY <2>1 DEF Call, readerVars
  <2>2. ASSUME NEW t \in Threads, Thread(t)
        PROVE  Channel!Next \/ UNCHANGED <<sent, got, seen>>
    <3>1. CASE Lock(t)
      <4>1. msg[t] \in Messages
        BY <3>1 DEF Lock, FrameInv, CallsOK
      <4>2. sent' = Append(sent, msg[t]) /\ got' = got /\ outcome' = outcome
        BY <3>1 DEF Lock, readerVars
      <4>3. Channel!Send
        BY <4>1, <4>2 DEF Channel!Send
      <4> QED
        BY <4>3 DEF Channel!Next
    <3>2. CASE WriteLen(t) \/ WriteKind(t) \/ WritePayload(t) \/ Flush(t) \/ WriteFails(t)
      BY <3>2 DEF WriteLen, WriteKind, WritePayload, WriteAll, Flush, WriteFails, readerVars
    <3> QED
      BY <2>2, <3>1, <3>2 DEF Thread
  <2>3. CASE Spill \/ ProcessExit
    BY <2>3 DEF Spill, ProcessExit, writerVars, readerVars
  <2>4. CASE ReadLen
    BY <2>4, ReadLenKeeps
  <2>5. CASE ReadKind
    BY <2>5 DEF ReadKind, writerVars
  <2>6. CASE ReadPayload
    <3>1. /\ Len(got) < Len(sent) /\ got' = Append(got, sent[Len(got) + 1])
          /\ outcome = "reading" /\ outcome' = outcome /\ sent' = sent
      BY <2>6, ReadPayloadKeeps DEF ReadPayload, ReadExact, writerVars
    <3>2. Channel!Deliver
      BY <3>1 DEF Channel!Deliver
    <3> QED
      BY <3>2 DEF Channel!Next
  <2>7. CASE ReadEnds
    <3>1. /\ outcome = "reading" /\ outcome' \in {"eof", "error"}
          /\ UNCHANGED <<sent, got>> /\ Len(sent) <= Len(got) + 1
      BY <2>7, ReadEndsKeeps
    <3>2. Channel!End
      BY <3>1 DEF Channel!End
    <3> QED
      BY <3>2 DEF Channel!Next
  <2>8. CASE ReaderGone
    BY <2>8 DEF ReaderGone, writerVars
  <2>9. CASE UNCHANGED vars
    BY <2>9 DEF vars, writerVars, readerVars
  <2> QED
    BY <2>1, <2>2, <2>3, <2>4, <2>5, <2>6, <2>7, <2>8, <2>9 DEF Next, Reader, Over
<1> QED
  BY <1>1, <1>2, FrameInvHolds, PTL DEF Spec, FollowsChannel, Channel!Spec
=============================================================================
