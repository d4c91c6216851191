---------------------------- MODULE NvhttpProofs ----------------------------
(***************************************************************************)
(* For every number of overlapping sessions, whatever Sunshine offers: the *)
(* sessions with their calls after the pairing are sessions of module      *)
(* Pairing, so that what is proved there holds of them; the list a session *)
(* makes of the reply to /applist is the one Sunshine rendered, whatever   *)
(* apps it holds, and the app it launches is one of them; a session        *)
(* streams on a video session of its own; and Sunshine is not left with    *)
(* one that nobody releases, unless a call was lost.                       *)
(***************************************************************************)
EXTENDS Nvhttp, PairingProofs, SequenceTheorems, WellFoundedInduction

-----------------------------------------------------------------------------
(* The composition implements Pairing                                      *)

\* A step of the composition is a step of Pairing, or none.
LEMMA HttpStepIsPairing == HttpNext => [Next]_vars
<1> SUFFICES ASSUME HttpNext PROVE [Next]_vars
  OBVIOUS
<1>1. CASE PairingSteps
  BY <1>1 DEF PairingSteps, Next
<1>2. CASE KilledToo
  BY <1>2 DEF KilledToo, Next
<1>3. CASE \E s \in Sessions :
             \/ CheckStop(s) \/ AppList(s) \/ LaunchArrives(s) \/ LaunchReply(s)
             \/ StreamEnds(s) \/ Cancel(s) \/ CallFails(s)
  <2>1. UNCHANGED vars
    BY <1>3 DEF CheckStop, AppList, LaunchArrives, LaunchReply, StreamEnds, Cancel,
       CallFails
  <2> QED
    BY <2>1
<1>4. CASE HttpRest
  BY <1>4 DEF HttpRest, allVars
<1> QED
  BY <1>1, <1>2, <1>3, <1>4 DEF HttpNext

\* run_moonlight with its calls after the pairing (session.rs) pairs as module
\* Pairing says: launching, streaming and releasing change nothing of it.
THEOREM HttpImplementsPairing == HttpSpec => Spec
<1>1. HttpInit => Init
  BY DEF HttpInit
<1>2. [HttpNext]_allVars => [Next]_vars
  BY HttpStepIsPairing DEF allVars
<1> QED
  BY <1>1, <1>2, PTL DEF HttpSpec, Spec

-----------------------------------------------------------------------------
(* Least elements, and induction over the places of a sequence             *)

\* A set of naturals that is not empty has a least member: < is well-founded.
LEMMA LeastOfSet ==
  ASSUME NEW S \in SUBSET Nat, S # {}
  PROVE  \E m \in S : \A k \in S : m <= k
<1> DEFINE R == {ss \in Nat \X Nat : ss[1] < ss[2]}
<1>1. IsWellFoundedOn(R, Nat)
  BY NatLessThanWellFounded DEF OpToRel
<1> HIDE DEF R
<1>2. PICK m \in S : \A k \in S : ~(<<k, m>> \in R)
  BY <1>1, WFMin
<1>3. ASSUME NEW k \in S, k < m
      PROVE  FALSE
  <2>1. <<k, m>> \in Nat \X Nat /\ <<k, m>>[1] < <<k, m>>[2]
    BY <1>3
  <2> QED
    BY <1>2, <2>1 DEF R
<1> QED
  BY <1>3

\* Min is that member.
LEMMA MinIsLeast ==
  ASSUME NEW S \in SUBSET Nat, S # {}
  PROVE  Min(S) \in S /\ \A k \in S : Min(S) <= k
BY LeastOfSet DEF Min

\* Whoever is a member and no greater than any is the least.
LEMMA MinIs ==
  ASSUME NEW S \in SUBSET Nat, NEW t \in S, \A j \in S : t <= j
  PROVE  Min(S) = t
<1>1. Min(S) \in S /\ Min(S) <= t /\ t <= Min(S)
  BY MinIsLeast
<1>2. Min(S) \in Nat /\ t \in Nat
  BY <1>1
<1> QED
  BY <1>1, <1>2

\* Induction from 1 to n, on a set.
LEMMA OneByOne ==
  ASSUME NEW n \in Nat, NEW G, 1 \in G, \A k \in 1..(n - 1) : k \in G => k + 1 \in G
  PROVE  1..n \subseteq G
<1> DEFINE bad == (1..n) \ G
<1> SUFFICES ASSUME bad # {} PROVE FALSE
  OBVIOUS
<1>1. bad \in SUBSET Nat
  OBVIOUS
<1> HIDE DEF bad
<1>2. PICK m \in bad : \A k \in bad : m <= k
  BY <1>1, LeastOfSet
<1>3. m \in 2..n
  BY <1>2 DEF bad
<1>4. m - 1 \in 1..(n - 1) /\ m - 1 \notin bad
  BY <1>2, <1>3
<1>5. m - 1 \in G /\ (m - 1) + 1 = m
  BY <1>4 DEF bad
<1> QED
  BY <1>2, <1>4, <1>5 DEF bad

\* The recursion of FlattenSeq has a solution.
LEMMA FlattenRecursion ==
  ASSUME NEW S, NEW ss \in Seq(S), ss # <<>>
  PROVE  \E f : /\ \A i \in 1..Len(ss) : f[i] = IF i = 1 THEN ss[i] ELSE f[i - 1] \o ss[i]
                /\ FlattenSeq(ss) = f[Len(ss)]
<1> DEFINE Rec(f, m) == f = [i \in 1..m |-> IF i = 1 THEN ss[i] ELSE f[i-1] \o ss[i]]
           good == {m \in 1..Len(ss) : \E f : Rec(f, m)}
<1>1. Len(ss) \in Nat /\ Len(ss) # 0
  BY LenProperties, EmptySeq
<1> HIDE DEF Rec
<1>2. 1 \in good
  <2>1. Rec([i \in 1..1 |-> ss[i]], 1)
    BY DEF Rec
  <2> QED
    BY <1>1, <2>1
<1>3. ASSUME NEW k \in 1..(Len(ss) - 1), k \in good
      PROVE  k + 1 \in good
  <2>1. PICK f : Rec(f, k)
    BY <1>3
  <2> DEFINE g == [i \in 1..(k + 1) |-> IF i = k + 1 THEN f[k] \o ss[k + 1] ELSE f[i]]
  <2>2. \A i \in 1..k : g[i] = f[i]
    OBVIOUS
  <2>3. \A i \in 1..k : f[i] = IF i = 1 THEN ss[i] ELSE f[i - 1] \o ss[i]
    BY <2>1 DEF Rec
  <2>4. g[k + 1] = f[k] \o ss[k + 1]
    <3>1. k + 1 \in 1..(k + 1)
      OBVIOUS
    <3> QED
      BY <3>1, Zenon
  <2>5. g = [i \in 1..(k + 1) |-> g[i]]
    OBVIOUS
  <2> HIDE DEF g
  <2>6. \A i \in 1..(k + 1) : g[i] = IF i = 1 THEN ss[i] ELSE g[i - 1] \o ss[i]
    <3> TAKE i \in 1..(k + 1)
    <3>1. CASE i = k + 1
      <4>1. i - 1 = k /\ i # 1 /\ k \in 1..k
        BY <3>1
      <4> QED
        BY <2>2, <2>4, <3>1, <4>1
    <3>2. CASE i # k + 1
      <4>1. i \in 1..k /\ (i # 1 => i - 1 \in 1..k)
        BY <3>2
      <4> QED
        BY <2>2, <2>3, <4>1
    <3> QED
      BY <3>1, <3>2
  <2>7. Rec(g, k + 1)
    BY <2>5, <2>6 DEF Rec
  <2>8. k + 1 \in 1..Len(ss)
    BY <1>1
  <2> QED
    BY <2>7, <2>8
<1>4. Len(ss) \in good
  <2>1. Len(ss) \in 1..Len(ss)
    BY <1>1
  <2> HIDE DEF good
  <2> QED
    BY <1>1, <1>2, <1>3, <2>1, OneByOne
<1> DEFINE c == CHOOSE f : Rec(f, Len(ss))
<1>5. Rec(c, Len(ss))
  BY <1>4
<1>6. FlattenSeq(ss) = c[Len(ss)]
  BY <1>1 DEF FlattenSeq, Rec
<1> HIDE DEF c
<1> QED
  BY <1>5, <1>6 DEF Rec

\* The places behind the a-th and those up to it, of a + b.
LEMMA Behind ==
  ASSUME NEW a \in Nat, NEW b \in Nat
  PROVE  /\ \A p \in 1..b : a + p \in 1..(a + b) /\ ~(a + p <= a) /\ (a + p) - a = p
         /\ \A p \in 1..a : p \in 1..(a + b) /\ p <= a
OBVIOUS

\* Where the operands of FlattenSeq are: the k-th one behind place off[k].
Offsets(off, ss, S) ==
    /\ off \in [1..(Len(ss) + 1) -> Nat]
    /\ off[1] = 0
    /\ \A k \in 1..Len(ss) : off[k + 1] = off[k] + Len(ss[k])
    /\ FlattenSeq(ss) \in Seq(S)
    /\ Len(FlattenSeq(ss)) = off[Len(ss) + 1]
    /\ \A k \in 1..Len(ss) : \A p \in 1..Len(ss[k]) : FlattenSeq(ss)[off[k] + p] = ss[k][p]

\* FlattenSeq puts its operands one behind the other.
LEMMA FlattenPlaces ==
  ASSUME NEW S, NEW ss \in Seq(Seq(S))
  PROVE  \E off : Offsets(off, ss, S)
<1> DEFINE n == Len(ss)
<1>1. n \in Nat /\ \A k \in 1..n : ss[k] \in Seq(S) /\ Len(ss[k]) \in Nat
  BY LenProperties, ElementOfSeq
<1>2. CASE ss = <<>>
  <2>1. FlattenSeq(ss) = ss /\ n = 0 /\ ss \in Seq(S)
    BY <1>2, EmptySeq DEF FlattenSeq
  <2> WITNESS [k \in 1..(n + 1) |-> 0]
  <2> QED
    BY <2>1 DEF Offsets
<1>3. CASE ss # <<>>
  <2>1. PICK f : /\ \A i \in 1..n : f[i] = IF i = 1 THEN ss[i] ELSE f[i - 1] \o ss[i]
                 /\ FlattenSeq(ss) = f[n]
    BY <1>3, FlattenRecursion
  <2>2. n # 0
    BY <1>3, EmptySeq
  <2> HIDE DEF n
  <2>3. f[1] = ss[1] /\ \A k \in 1..(n - 1) : f[k + 1] = f[k] \o ss[k + 1]
    <3>1. f[1] = ss[1]
      BY <1>1, <2>1, <2>2
    <3>2. ASSUME NEW k \in 1..(n - 1) PROVE f[k + 1] = f[k] \o ss[k + 1]
      <4>1. k + 1 \in 1..n /\ k + 1 # 1 /\ (k + 1) - 1 = k
        BY <1>1
      <4> QED
        BY <2>1, <4>1
    <3> QED
      BY <3>1, <3>2
  <2> DEFINE off == [k \in 1..(n + 1) |-> IF k = 1 THEN 0 ELSE Len(f[k - 1])]
             inRange == {k \in 1..n : f[k] \in Seq(S)}
             Placed(j) == \A k \in 1..j : \A p \in 1..Len(ss[k]) :
                            off[k] + p \in 1..Len(f[j]) /\ f[j][off[k] + p] = ss[k][p]
             placed == {j \in 1..n : Placed(j)}
  <2>4. \A k \in 1..n : f[k] \in Seq(S) /\ Len(f[k]) \in Nat
    <3>1. 1 \in inRange
      BY <1>1, <2>2, <2>3
    <3>2. ASSUME NEW k \in 1..(n - 1), k \in inRange PROVE k + 1 \in inRange
      <4>1. k + 1 \in 1..n
        BY <1>1
      <4>2. f[k] \o ss[k + 1] \in Seq(S)
        BY <1>1, <3>2, <4>1, ConcatProperties
      <4> QED
        BY <2>3, <4>1, <4>2
    <3>3. 1..n \subseteq inRange
      <4> HIDE DEF inRange
      <4> QED
        BY <1>1, <3>1, <3>2, OneByOne
    <3> QED
      BY <3>3, LenProperties
  <2>5. /\ off \in [1..(n + 1) -> Nat]
        /\ off[1] = 0
        /\ \A k \in 1..n : off[k + 1] = Len(f[k])
    <3>1. \A k \in 1..(n + 1) : k # 1 => k - 1 \in 1..n
      BY <1>1
    <3>2. off \in [1..(n + 1) -> Nat]
      BY <2>4, <3>1
    <3>3. 1 \in 1..(n + 1)
      BY <1>1
    <3>4. \A k \in 1..n : k + 1 \in 1..(n + 1) /\ k + 1 # 1 /\ (k + 1) - 1 = k
      BY <1>1
    <3>5. \A k \in 1..n : off[k + 1] = Len(f[k])
      BY <3>4
    <3> QED
      BY <3>2, <3>3, <3>5
  <2> HIDE DEF off
  <2>6. \A k \in 1..n : off[k + 1] = off[k] + Len(ss[k])
    <3> TAKE k \in 1..n
    <3>1. CASE k = 1
      BY <1>1, <2>3, <2>5, <3>1
    <3>2. CASE k # 1
      <4>1. k - 1 \in 1..(n - 1) /\ (k - 1) + 1 = k /\ k - 1 \in 1..n
        BY <1>1, <3>2
      <4>2. f[k] = f[k - 1] \o ss[k] /\ off[k] = Len(f[k - 1])
        BY <2>3, <2>5, <4>1
      <4>3. Len(f[k]) = Len(f[k - 1]) + Len(ss[k])
        BY <1>1, <2>4, <4>1, <4>2, ConcatProperties
      <4> QED
        BY <2>5, <4>2, <4>3
    <3> QED
      BY <3>1, <3>2
  <2> HIDE DEF Placed
  <2>7. Placed(n)
    <3>1. 1 \in placed
      BY <1>1, <2>2, <2>3, <2>5 DEF Placed
    <3>2. ASSUME NEW j \in 1..(n - 1), j \in placed PROVE j + 1 \in placed
      <4>1. j + 1 \in 1..n /\ j \in 1..n /\ Placed(j)
        BY <1>1, <3>2
      <4> HIDE DEF placed
      <4>2. /\ Len(f[j + 1]) = Len(f[j]) + Len(ss[j + 1])
            /\ \A i \in 1..(Len(f[j]) + Len(ss[j + 1])) :
                 f[j + 1][i] = IF i <= Len(f[j]) THEN f[j][i] ELSE ss[j + 1][i - Len(f[j])]
        <5>1. f[j + 1] = f[j] \o ss[j + 1] /\ f[j] \in Seq(S) /\ ss[j + 1] \in Seq(S)
          BY <1>1, <2>3, <2>4, <4>1
        <5>2. /\ Len(f[j] \o ss[j + 1]) = Len(f[j]) + Len(ss[j + 1])
              /\ \A i \in 1..(Len(f[j]) + Len(ss[j + 1])) :
                   (f[j] \o ss[j + 1])[i] =
                     IF i <= Len(f[j]) THEN f[j][i] ELSE ss[j + 1][i - Len(f[j])]
          <6> DEFINE a == f[j]
                     b == ss[j + 1]
          <6>1. a \in Seq(S) /\ b \in Seq(S)
            BY <5>1
          <6> HIDE DEF a, b
          <6>2. /\ Len(a \o b) = Len(a) + Len(b)
                /\ \A i \in 1..(Len(a) + Len(b)) :
                     (a \o b)[i] = IF i <= Len(a) THEN a[i] ELSE b[i - Len(a)]
            BY <6>1, ConcatProperties
          <6> QED
            BY <6>2 DEF a, b
        <5> QED
          BY <5>1, <5>2
      <4>3. ASSUME NEW k \in 1..(j + 1), NEW p \in 1..Len(ss[k])
            PROVE  off[k] + p \in 1..Len(f[j + 1]) /\ f[j + 1][off[k] + p] = ss[k][p]
        <5>1. CASE k = j + 1
          <6>1. off[k] = Len(f[j]) /\ Len(f[j]) \in Nat /\ Len(ss[k]) \in Nat
            BY <1>1, <2>4, <2>5, <4>1, <5>1
          <6>2. /\ Len(f[j]) + p \in 1..(Len(f[j]) + Len(ss[k]))
                /\ ~(Len(f[j]) + p <= Len(f[j]))
                /\ (Len(f[j]) + p) - Len(f[j]) = p
            BY <6>1, Behind
          <6> QED
            BY <4>2, <5>1, <6>1, <6>2
        <5>2. CASE k # j + 1
          <6>1. k \in 1..j
            BY <5>2
          <6>2. off[k] + p \in 1..Len(f[j]) /\ f[j][off[k] + p] = ss[k][p]
            BY <4>1, <6>1 DEF Placed
          <6>3. Len(f[j]) \in Nat /\ Len(ss[j + 1]) \in Nat
            BY <1>1, <2>4, <4>1
          <6>4. off[k] + p \in 1..(Len(f[j]) + Len(ss[j + 1])) /\ off[k] + p <= Len(f[j])
            BY <6>2, <6>3, Behind
          <6> QED
            BY <4>2, <6>2, <6>4
        <5> QED
          BY <5>1, <5>2
      <4>4. Placed(j + 1)
        BY <4>3 DEF Placed
      <4> QED
        BY <4>1, <4>4 DEF placed
    <3>3. 1..n \subseteq placed
      <4> HIDE DEF placed
      <4> QED
        BY <1>1, <3>1, <3>2, OneByOne
    <3>4. n \in 1..n
      BY <1>1, <2>2
    <3> QED
      BY <3>3, <3>4
  <2>8. FlattenSeq(ss) \in Seq(S) /\ Len(FlattenSeq(ss)) = off[n + 1]
    <3>1. n \in 1..n
      BY <1>1, <2>2
    <3> QED
      BY <2>1, <2>4, <2>5, <3>1
  <2>9. \A k \in 1..n : \A p \in 1..Len(ss[k]) : FlattenSeq(ss)[off[k] + p] = ss[k][p]
    BY <2>1, <2>7 DEF Placed
  <2> HIDE DEF placed, inRange
  <2> QED
    BY <2>5, <2>6, <2>8, <2>9 DEF n, Offsets
<1> QED
  BY <1>2, <1>3

\* Places that grow with every step grow.
LEMMA Growing ==
  ASSUME NEW n \in Nat, NEW off \in [1..(n + 1) -> Nat],
         \A k \in 1..n : off[k] < off[k + 1]
  PROVE  \A i, j \in 1..(n + 1) : i < j => off[i] < off[j]
<1> DEFINE G == {j \in 1..(n + 1) : \A i \in 1..(n + 1) : i < j => off[i] < off[j]}
<1>1. 1 \in G
  OBVIOUS
<1>2. ASSUME NEW k \in 1..((n + 1) - 1), k \in G
      PROVE  k + 1 \in G
  <2>1. k \in 1..n /\ k + 1 \in 1..(n + 1) /\ k \in 1..(n + 1)
    OBVIOUS
  <2>2. ASSUME NEW i \in 1..(n + 1), i < k + 1
        PROVE  off[i] < off[k + 1]
    <3>1. off[k] < off[k + 1] /\ off[k] \in Nat /\ off[k + 1] \in Nat /\ off[i] \in Nat
      BY <2>1
    <3>2. CASE i = k
      BY <3>1, <3>2
    <3>3. CASE i # k
      <4>1. i < k
        BY <2>1, <2>2, <3>3
      <4>2. off[i] < off[k]
        BY <1>2, <2>1, <4>1
      <4> QED
        BY <3>1, <4>2
    <3> QED
      BY <3>2, <3>3
  <2> QED
    BY <2>1, <2>2
<1>3. n + 1 \in Nat
  OBVIOUS
<1> HIDE DEF G
<1>4. 1..(n + 1) \subseteq G
  BY <1>1, <1>2, <1>3, OneByOne
<1> QED
  BY <1>4 DEF G

\* Every place up to the last lies between two of them.
LEMMA Covered ==
  ASSUME NEW n \in Nat, NEW off \in [1..(n + 1) -> Nat], off[1] = 0,
         NEW j \in 1..off[n + 1]
  PROVE  \E k \in 1..n : off[k] < j /\ j <= off[k + 1]
<1> DEFINE S == {k \in 1..n : j <= off[k + 1]}
<1>1. n # 0 /\ off[n + 1] \in Nat /\ j \in Nat /\ j > 0
  OBVIOUS
<1>2. n \in S /\ S \in SUBSET Nat
  BY <1>1
<1> HIDE DEF S
<1>3. PICK k \in S : \A i \in S : k <= i
  BY <1>2, LeastOfSet
<1>4. k \in 1..n /\ j <= off[k + 1]
  BY <1>3 DEF S
<1>5. off[k] < j
  <2>1. CASE k = 1
    BY <1>1, <2>1
  <2>2. CASE k # 1
    <3>1. k - 1 \in 1..n /\ k - 1 \notin S /\ (k - 1) + 1 = k
      BY <1>3, <1>4, <2>2
    <3>2. ~(j <= off[k]) /\ off[k] \in Nat
      BY <1>4, <3>1 DEF S
    <3> QED
      BY <1>1, <3>2
  <2> QED
    BY <2>1, <2>2
<1> QED
  BY <1>4, <1>5

\* The halves of a concatenation.
LEMMA Halves ==
  ASSUME NEW S, NEW s \in Seq(S), NEW t \in Seq(S), NEW m, m = Len(s), NEW k, k = Len(t)
  PROVE  /\ m \in Nat /\ k \in Nat
         /\ s \o t \in Seq(S) /\ Len(s \o t) = m + k
         /\ \A i \in 1..m : (s \o t)[i] = s[i]
         /\ \A i \in 1..k : (s \o t)[m + i] = t[i]
<1>1. m \in Nat /\ k \in Nat
  BY LenProperties
<1>2. /\ s \o t \in Seq(S) /\ Len(s \o t) = m + k
      /\ \A i \in 1..(m + k) : (s \o t)[i] = IF i <= m THEN s[i] ELSE t[i - m]
  BY ConcatProperties
<1>3. \A i \in 1..m : i \in 1..(m + k) /\ i <= m
  BY <1>1
<1>4. \A i \in 1..k : m + i \in 1..(m + k) /\ ~(m + i <= m) /\ (m + i) - m = i
  BY <1>1
<1> QED
  BY <1>1, <1>2, <1>3, <1>4

\* A slice of a body.
LEMMA SliceIs ==
  ASSUME NEW M, NEW xml \in Seq(M), NEW x \in Seq(M), NEW s \in Nat,
         s + Len(x) <= Len(xml), \A p \in 1..Len(x) : xml[s + p] = x[p]
  PROVE  SubSeq(xml, s + 1, s + Len(x)) = x
<1> DEFINE m == s + 1
           l == s + Len(x)
           n == Len(x)
<1>1. n \in Nat /\ Len(xml) \in Nat /\ n = Len(x)
  BY LenProperties
<1>2. \A i \in m..l : i \in 1..Len(xml)
  BY <1>1
<1>3. /\ m \in Int /\ l \in Int /\ l - m + 1 = n
      /\ (IF m <= l THEN l - m + 1 ELSE 0) = n
      /\ \A i \in 1..n : m + i - 1 = s + i
  BY <1>1
<1>4. \A i \in 1..n : xml[s + i] = x[i]
  OBVIOUS
<1> HIDE DEF m, l, n
<1>5. \A i \in m..l : xml[i] \in M
  BY <1>2, ElementOfSeq
<1>6. /\ SubSeq(xml, m, l) \in Seq(M)
      /\ Len(SubSeq(xml, m, l)) = n
      /\ \A i \in 1..n : SubSeq(xml, m, l)[i] = xml[m + i - 1]
  BY <1>3, <1>5, SubSeqProperties
<1>7. \A i \in 1..n : SubSeq(xml, m, l)[i] = x[i]
  BY <1>3, <1>4, <1>6
<1>8. SubSeq(xml, m, l) = x
  BY <1>1, <1>6, <1>7, SeqEqual
<1> QED
  BY <1>8 DEF m, l

\* A place among m + e is one of the m, or of the e behind them.
LEMMA EitherHalf ==
  ASSUME NEW m \in Nat, NEW e \in Nat
  PROVE  \A p \in 1..(m + e) : p \in 1..m \/ \E i \in 1..e : p = m + i
<1> SUFFICES ASSUME NEW p \in 1..(m + e), p \notin 1..m
             PROVE  \E i \in 1..e : p = m + i
  OBVIOUS
<1>1. p - m \in 1..e /\ p = m + (p - m)
  OBVIOUS
<1> QED
  BY <1>1

\* Sums, as the places in a body are counted.
LEMMA Sums ==
  ASSUME NEW a \in Nat, NEW m \in Nat, NEW e \in Nat
  PROVE  /\ \A i \in 1..e : a + m + i = a + (m + i)
         /\ a + m + e = a + (m + e) /\ (a + m + e + 1) - 1 = a + (m + e)
         /\ \A p \in 1..m : p + 1 \in 1..(m + 2) /\ a + (p + 1) + 1 = (a + 2) + p
         /\ m + 2 \in 1..(m + 2) /\ a + (m + 2) + 1 = (a + 2) + m + 1
         /\ a + (m + 2) = (a + 2) + m
         /\ \A l \in Nat : a + m + 2 <= l => \A p \in 1..(m + 2) : a + p \in 1..l
OBVIOUS

-----------------------------------------------------------------------------
(* What xml_tag finds                                                      *)

\* Between its first Open and its first Close.
LEMMA TagBetween ==
  ASSUME NEW tag, NEW S, NEW pre \in Seq(S), NEW words \in Seq(S), NEW post \in Seq(S),
         Open(tag) \notin S, Close(tag) \notin S
  PROVE  xml_tag(pre \o Element(tag, words) \o post, tag) = words
<1> DEFINE o == Open(tag)
           c == Close(tag)
           T == S \cup {o, c}
           a == Len(pre)
           n == Len(words)
           b == Len(post)
           xml == pre \o Element(tag, words) \o post
           starts == {i \in DOMAIN xml : xml[i] = o}
           ends == {j \in DOMAIN xml : xml[j] = c /\ j > Min(starts)}
<1>1. /\ o # c
      /\ a \in Nat /\ n \in Nat /\ b \in Nat
      /\ pre \in Seq(T) /\ words \in Seq(T) /\ post \in Seq(T)
      /\ <<o>> \in Seq(T) /\ <<c>> \in Seq(T)
  <2>1. o # c
    BY DEF Open, Close
  <2>2. pre \in Seq(T) /\ words \in Seq(T) /\ post \in Seq(T)
    BY SeqMonotonic
  <2> QED
    BY <2>1, <2>2, LenProperties
<1>2. /\ \A i \in 1..a : pre[i] \in S /\ pre[i] # o /\ pre[i] # c
      /\ \A i \in 1..n : words[i] \in S /\ words[i] # o /\ words[i] # c
      /\ \A i \in 1..b : post[i] \in S /\ post[i] # o /\ post[i] # c
  BY ElementOfSeq
<1> HIDE DEF o, c, T, a, n, b, xml
<1>3. /\ xml \in Seq(T) /\ Len(xml) = a + n + 2 + b
      /\ DOMAIN xml = 1..(a + n + 2 + b)
      /\ \A i \in 1..a : xml[i] = pre[i]
      /\ xml[a + 1] = o
      /\ \A i \in 1..n : xml[a + 1 + i] = words[i]
      /\ xml[a + n + 2] = c
      /\ \A i \in 1..b : xml[a + n + 2 + i] = post[i]
  <2> DEFINE x == <<o>> \o words
             y == x \o <<c>>
             z == pre \o y
  <2>1. /\ x \in Seq(T) /\ Len(x) = 1 + n
        /\ x[1] = o /\ \A i \in 1..n : x[1 + i] = words[i]
    <3>1. Len(<<o>>) = 1 /\ <<o>>[1] = o /\ 1 \in 1..1
      OBVIOUS
    <3> QED
      BY <1>1, <3>1, Halves DEF n
  <2> HIDE DEF x
  <2>2. /\ y \in Seq(T) /\ Len(y) = 1 + n + 1
        /\ \A i \in 1..(1 + n) : y[i] = x[i]
        /\ y[1 + n + 1] = c
    <3>1. Len(<<c>>) = 1 /\ <<c>>[1] = c /\ 1 \in 1..1
      OBVIOUS
    <3> QED
      BY <1>1, <2>1, <3>1, Halves
  <2>3. /\ Len(y) = n + 2 /\ y[1] = o /\ y[n + 2] = c
        /\ \A i \in 1..n : y[i + 1] = words[i]
    <3>1. /\ 1 + n + 1 = n + 2 /\ 1 \in 1..(1 + n)
          /\ \A i \in 1..n : i + 1 \in 1..(1 + n) /\ i + 1 = 1 + i
      BY <1>1
    <3> QED
      BY <2>1, <2>2, <3>1
  <2> HIDE DEF y
  <2>4. /\ z \in Seq(T) /\ Len(z) = a + (n + 2)
        /\ \A i \in 1..a : z[i] = pre[i]
        /\ \A i \in 1..(n + 2) : z[a + i] = y[i]
    <3>1. a = Len(pre) /\ n + 2 = Len(y) /\ pre \in Seq(T) /\ y \in Seq(T)
      BY <1>1, <2>2, <2>3 DEF a
    <3> QED
      BY <3>1, Halves
  <2> HIDE DEF z
  <2>5. xml = z \o post
    BY DEF xml, z, y, x, Element, o, c
  <2>6. /\ xml \in Seq(T) /\ Len(xml) = a + (n + 2) + b
        /\ \A i \in 1..(a + (n + 2)) : xml[i] = z[i]
        /\ \A i \in 1..b : xml[a + (n + 2) + i] = post[i]
    <3>1. a + (n + 2) = Len(z) /\ b = Len(post) /\ z \in Seq(T) /\ post \in Seq(T)
      BY <1>1, <2>4 DEF b
    <3> DEFINE m == a + (n + 2)
    <3> HIDE DEF m
    <3>2. m = Len(z)
      BY <3>1 DEF m
    <3>3. /\ xml \in Seq(T) /\ Len(xml) = m + b
          /\ \A i \in 1..m : xml[i] = z[i]
          /\ \A i \in 1..b : xml[m + i] = post[i]
      BY <2>5, <3>1, <3>2, Halves
    <3> QED
      BY <3>3 DEF m
  <2>7. DOMAIN xml = 1..(a + (n + 2) + b)
    BY <2>6, LenProperties
  <2>8. \A i \in 1..a : xml[i] = pre[i]
    <3>1. \A i \in 1..a : i \in 1..(a + (n + 2))
      BY <1>1
    <3> QED
      BY <2>4, <2>6, <3>1
  <2>9. \A i \in 1..(n + 2) : xml[a + i] = y[i]
    <3>1. \A i \in 1..(n + 2) : a + i \in 1..(a + (n + 2))
      BY <1>1
    <3> QED
      BY <2>4, <2>6, <3>1
  <2>10. \A i \in 1..b : xml[a + n + 2 + i] = post[i]
    <3>1. a + (n + 2) = a + n + 2
      BY <1>1
    <3> QED
      BY <2>6, <3>1
  <2>11. xml[a + 1] = o /\ xml[a + n + 2] = c
    <3>1. 1 \in 1..(n + 2) /\ n + 2 \in 1..(n + 2) /\ a + (n + 2) = a + n + 2
      BY <1>1
    <3> QED
      BY <2>3, <2>9, <3>1
  <2>12. \A i \in 1..n : xml[a + 1 + i] = words[i]
    <3> TAKE i \in 1..n
    <3>1. i + 1 \in 1..(n + 2) /\ a + (i + 1) = a + 1 + i
      BY <1>1
    <3> QED
      BY <2>3, <2>9, <3>1
  <2>13. a + (n + 2) + b = a + n + 2 + b
    BY <1>1
  <2> QED
    BY <2>6, <2>7, <2>8, <2>10, <2>11, <2>12, <2>13
<1>4. \A i \in 1..(a + n + 2 + b) :
         /\ xml[i] = o <=> i = a + 1
         /\ xml[i] = c <=> i = a + n + 2
  <2> TAKE i \in 1..(a + n + 2 + b)
  <2>1. \/ i \in 1..a
        \/ i = a + 1
        \/ i - a - 1 \in 1..n /\ i = a + 1 + (i - a - 1)
        \/ i = a + n + 2
        \/ i - a - n - 2 \in 1..b /\ i = a + n + 2 + (i - a - n - 2)
    BY <1>1
  <2>2. CASE i \in 1..a
    <3>1. i # a + 1 /\ i # a + n + 2
      BY <1>1, <2>2
    <3> QED
      BY <1>2, <1>3, <2>2, <3>1
  <2>3. CASE i = a + 1
    BY <1>1, <1>3, <2>3
  <2>4. CASE i - a - 1 \in 1..n /\ i = a + 1 + (i - a - 1)
    <3>1. i # a + 1 /\ i # a + n + 2
      BY <1>1, <2>4
    <3>2. xml[i] = words[i - a - 1]
      BY <1>3, <2>4
    <3> QED
      BY <1>2, <2>4, <3>1, <3>2
  <2>5. CASE i = a + n + 2
    BY <1>1, <1>3, <2>5
  <2>6. CASE i - a - n - 2 \in 1..b /\ i = a + n + 2 + (i - a - n - 2)
    <3>1. i # a + 1 /\ i # a + n + 2
      BY <1>1, <2>6
    <3>2. xml[i] = post[i - a - n - 2]
      BY <1>3, <2>6
    <3> QED
      BY <1>2, <2>6, <3>1, <3>2
  <2> QED
    BY <2>1, <2>2, <2>3, <2>4, <2>5, <2>6
<1>5. starts = {a + 1} /\ Min(starts) = a + 1
  <2>1. a + 1 \in 1..(a + n + 2 + b) /\ a + 1 \in Nat
    BY <1>1
  <2>2. starts = {a + 1}
    BY <1>3, <1>4, <2>1
  <2> QED
    BY <2>1, <2>2, MinIsLeast
<1> HIDE DEF starts
<1>6. ends = {a + n + 2} /\ Min(ends) = a + n + 2
  <2>1. a + n + 2 \in 1..(a + n + 2 + b) /\ a + n + 2 \in Nat /\ a + n + 2 > a + 1
    BY <1>1
  <2>2. ends = {a + n + 2}
    BY <1>3, <1>4, <1>5, <2>1
  <2> QED
    BY <2>1, <2>2, MinIsLeast
<1> HIDE DEF ends
<1>7. xml_tag(xml, tag) = SubSeq(xml, a + 2, a + n + 1)
  <2>1. xml_tag(xml, tag) = IF starts = {} \/ ends = {} THEN None
                            ELSE SubSeq(xml, Min(starts) + 1, Min(ends) - 1)
    BY DEF xml_tag, starts, ends, o, c
  <2>2. (a + 1) + 1 = a + 2 /\ (a + n + 2) - 1 = a + n + 1
    BY <1>1
  <2> QED
    BY <1>5, <1>6, <2>1, <2>2
<1>8. SubSeq(xml, a + 2, a + n + 1) = words
  <2> DEFINE m == a + 2
             l == a + n + 1
  <2>1. \A i \in m..l : i \in 1..Len(xml)
    BY <1>1, <1>3
  <2>2. \A i \in m..l : xml[i] \in T
    BY <1>3, <2>1, ElementOfSeq
  <2>3. m \in Int /\ l \in Int /\ l - m + 1 = n /\ (IF m <= l THEN l - m + 1 ELSE 0) = n
        /\ \A i \in 1..n : m + i - 1 = a + 1 + i
    BY <1>1
  <2> HIDE DEF m, l
  <2>4. /\ SubSeq(xml, m, l) \in Seq(T)
        /\ Len(SubSeq(xml, m, l)) = n
        /\ \A i \in 1..n : SubSeq(xml, m, l)[i] = xml[m + i - 1]
    BY <2>2, <2>3, SubSeqProperties
  <2>5. \A i \in 1..n : SubSeq(xml, m, l)[i] = words[i]
    BY <1>3, <2>3, <2>4
  <2> QED
    BY <1>1, <2>4, <2>5, SeqEqual DEF n, m, l
<1> QED
  BY <1>7, <1>8 DEF xml

\* Without the opening tag nothing is found.
LEMMA TagAbsent ==
  ASSUME NEW tag, NEW S, NEW xml \in Seq(S), Open(tag) \notin S
  PROVE  xml_tag(xml, tag) = None
<1>1. \A i \in DOMAIN xml : xml[i] # Open(tag)
  BY ElementOfSeq, LenProperties
<1>2. {i \in DOMAIN xml : xml[i] = Open(tag)} = {}
  BY <1>1
<1> QED
  BY <1>2 DEF xml_tag

\* In an element by itself xml_tag finds what stands between its tags ...
LEMMA TagOfElement ==
  ASSUME NEW tag, NEW S, NEW words \in Seq(S), Open(tag) \notin S, Close(tag) \notin S
  PROVE  xml_tag(Element(tag, words), tag) = words
<1> DEFINE none == <<>>
           xml == Element(tag, words)
           T == S \cup {Open(tag), Close(tag)}
<1>1. none \in Seq(S) /\ <<Open(tag)>> \in Seq(T) /\ <<Close(tag)>> \in Seq(T)
  OBVIOUS
<1>2. xml \in Seq(T)
  <2>1. words \in Seq(T)
    BY SeqMonotonic
  <2> HIDE DEF T
  <2> QED
    BY <1>1, <2>1, ConcatProperties DEF Element
<1>3. none \o xml = xml /\ xml \o none = xml
  <2> HIDE DEF xml, T
  <2> QED
    BY <1>2, ConcatEmptySeq
<1> HIDE DEF none, T
<1>4. xml_tag(none \o Element(tag, words) \o none, tag) = words
  BY <1>1, TagBetween
<1> QED
  BY <1>3, <1>4

\* ... and nothing is found under another tag.
LEMMA OtherTag ==
  ASSUME NEW tag, NEW other, tag # other,
         NEW S, NEW words \in Seq(S), Open(other) \notin S
  PROVE  xml_tag(Element(tag, words), other) = None
<1> DEFINE T == S \cup {Open(tag), Close(tag)}
<1>1. words \in Seq(T) /\ <<Open(tag)>> \in Seq(T) /\ <<Close(tag)>> \in Seq(T)
  <2>1. words \in Seq(T)
    BY SeqMonotonic
  <2> QED
    BY <2>1
<1>2. Open(other) \notin T
  BY DEF Open, Close
<1> HIDE DEF T
<1>3. Element(tag, words) \in Seq(T)
  BY <1>1, ConcatProperties DEF Element
<1> QED
  BY <1>2, <1>3, TagAbsent

-----------------------------------------------------------------------------
(* The reply to /applist                                                   *)

\* An app of OffersAssumption.
OfferedApp == [title : Field, id : Field]

\* What stands between <App> and </App>.
TitleOf(a) == IF a.title = None THEN <<>> ELSE Element("AppTitle", a.title)
IdOf(a) == IF a.id = None THEN <<>> ELSE Element("ID", a.id)
Fields(a) == TitleOf(a) \o IdOf(a)

\* The text of a reply with no tags but those of the names.
Tags(names) == {Open(t) : t \in names} \cup {Close(t) : t \in names}
Text(names) == Words \cup Tags(names)

\* A tag of another name is none of them.
LEMMA TextHas ==
  ASSUME NEW names, NEW t, t \notin names
  PROVE  Open(t) \notin Text(names) /\ Close(t) \notin Text(names)
BY DEF Text, Tags, Words, Open, Close

\* An element of one of the names is such a text, as is what it holds ...
LEMMA ElementIsText ==
  ASSUME NEW names, NEW t \in names, NEW words \in Seq(Words)
  PROVE  /\ Element(t, words) \in Seq(Text(names))
         /\ words \in Seq(Text(names))
<1>1. words \in Seq(Text(names))
  BY SeqMonotonic DEF Text
<1>2. Open(t) \in Text(names) /\ Close(t) \in Text(names)
  BY DEF Text, Tags
<1> DEFINE T == Text(names)
<1> HIDE DEF T
<1>3. <<Open(t)>> \in Seq(T) /\ <<Close(t)>> \in Seq(T) /\ words \in Seq(T)
  BY <1>1, <1>2 DEF T
<1>4. <<Open(t)>> \o words \o <<Close(t)>> \in Seq(T)
  BY <1>3, ConcatProperties
<1> QED
  BY <1>1, <1>4 DEF Element, T

\* ... and as are the fields of an app.
LEMMA FieldsAreText ==
  ASSUME NEW a \in OfferedApp, NEW names
  PROVE  /\ "AppTitle" \in names => TitleOf(a) \in Seq(Text(names))
         /\ "ID" \in names => IdOf(a) \in Seq(Text(names))
BY ElementIsText, EmptySeq DEF OfferedApp, Field, TitleOf, IdOf

\* Whatever follows the fields of an app in its chunk, without fields of its
\* own: its title and its id are what xml_tag finds.
LEMMA FieldsFound ==
  ASSUME NEW a \in OfferedApp, NEW end \in Seq(Text({"App", "root"}))
  PROVE  /\ xml_tag(Fields(a) \o end, "AppTitle") = a.title
         /\ xml_tag(Fields(a) \o end, "ID") = a.id
<1> DEFINE S == Text({"App", "root", "ID"})
           T == Text({"App", "root", "AppTitle"})
           U == Text({"App", "root", "AppTitle", "ID"})
<1>1. /\ Open("AppTitle") \notin S /\ Close("AppTitle") \notin S
      /\ Open("ID") \notin T /\ Close("ID") \notin T
  BY TextHas
<1>2. end \in Seq(S) /\ end \in Seq(T) /\ end \in Seq(U)
  <2>1. Text({"App", "root"}) \subseteq S /\ Text({"App", "root"}) \subseteq T
        /\ Text({"App", "root"}) \subseteq U
    BY DEF Text, Tags
  <2> HIDE DEF S, T, U
  <2> QED
    BY <2>1, SeqMonotonic
<1>3. IdOf(a) \in Seq(S) /\ TitleOf(a) \in Seq(T)
      /\ IdOf(a) \in Seq(U) /\ TitleOf(a) \in Seq(U)
  BY FieldsAreText
<1>4. a.title \in Field /\ a.id \in Field
  BY DEF OfferedApp
<1>5. \A x \in Seq(Words) : x \in Seq(S) /\ x \in Seq(T)
  <2>1. Words \subseteq S /\ Words \subseteq T
    BY DEF Text
  <2> HIDE DEF S, T
  <2> QED
    BY <2>1, SeqMonotonic
<1> HIDE DEF S, T, U
<1>6. <<>> \in Seq(S) /\ <<>> \in Seq(T) /\ <<>> \in Seq(U)
  BY EmptySeq
<1>7. xml_tag(Fields(a) \o end, "AppTitle") = a.title
  <2>1. IdOf(a) \o end \in Seq(S)
    BY <1>2, <1>3, ConcatProperties
  <2>2. Fields(a) \o end = TitleOf(a) \o (IdOf(a) \o end)
    BY <1>2, <1>3, ConcatAssociative DEF Fields
  <2>3. CASE a.title = None
    <3>1. TitleOf(a) = <<>>
      BY <2>3 DEF TitleOf
    <3>2. <<>> \o (IdOf(a) \o end) = IdOf(a) \o end
      BY <2>1, ConcatEmptySeq
    <3> QED
      BY <1>1, <2>1, <2>2, <2>3, <3>1, <3>2, TagAbsent
  <2>4. CASE a.title # None
    <3>1. a.title \in Seq(S) /\ TitleOf(a) = Element("AppTitle", a.title)
      BY <1>4, <1>5, <2>4 DEF Field, TitleOf
    <3>2. <<>> \o TitleOf(a) = TitleOf(a)
      BY <1>3, ConcatEmptySeq
    <3>3. xml_tag(<<>> \o Element("AppTitle", a.title) \o (IdOf(a) \o end), "AppTitle")
            = a.title
      <4> DEFINE none == <<>>
      <4>1. none \in Seq(S)
        BY <1>6
      <4> HIDE DEF none
      <4>2. xml_tag(none \o Element("AppTitle", a.title) \o (IdOf(a) \o end), "AppTitle")
              = a.title
        BY <1>1, <2>1, <3>1, <4>1, TagBetween
      <4> QED
        BY <4>2 DEF none
    <3> QED
      BY <2>2, <3>1, <3>2, <3>3
  <2> QED
    BY <2>3, <2>4
<1>8. xml_tag(Fields(a) \o end, "ID") = a.id
  <2>1. CASE a.id = None
    <3>1. IdOf(a) = <<>> /\ TitleOf(a) \o <<>> = TitleOf(a)
      BY <1>3, <2>1, ConcatEmptySeq DEF IdOf
    <3>2. Fields(a) \o end \in Seq(T)
      BY <1>2, <1>3, <3>1, ConcatProperties DEF Fields
    <3> QED
      BY <1>1, <2>1, <3>2, TagAbsent
  <2>2. CASE a.id # None
    <3>1. a.id \in Seq(T) /\ IdOf(a) = Element("ID", a.id)
      BY <1>4, <1>5, <2>2 DEF Field, IdOf
    <3>2. xml_tag(TitleOf(a) \o Element("ID", a.id) \o end, "ID") = a.id
      BY <1>1, <1>2, <1>3, <3>1, TagBetween
    <3> QED
      BY <3>1, <3>2 DEF Fields
  <2> QED
    BY <2>1, <2>2
<1> QED
  BY <1>7, <1>8

\* An app in the body: <App>, its fields, </App>.
LEMMA RenderedAppShape ==
  ASSUME NEW a \in OfferedApp
  PROVE  /\ Fields(a) \in Seq(Text({"AppTitle", "ID"})) /\ Len(Fields(a)) \in Nat
         /\ RenderedApp(a) \in Seq(Text({"App", "AppTitle", "ID"}))
         /\ Len(RenderedApp(a)) = Len(Fields(a)) + 2
         /\ RenderedApp(a)[1] = Open("App")
         /\ \A p \in 1..Len(Fields(a)) : RenderedApp(a)[p + 1] = Fields(a)[p]
         /\ RenderedApp(a)[Len(Fields(a)) + 2] = Close("App")
         /\ \A p \in 1..(Len(Fields(a)) + 2) : RenderedApp(a)[p] = Open("App") => p = 1
<1> DEFINE T == Text({"AppTitle", "ID"})
           M == Text({"App", "AppTitle", "ID"})
           f == Fields(a)
           o == Open("App")
           c == Close("App")
           n == Len(f)
           x == <<o>> \o f
           b == x \o <<c>>
<1>1. f \in Seq(T)
  BY FieldsAreText, ConcatProperties DEF Fields
<1>2. o \in M /\ c \in M /\ o \notin T /\ o # c
  <2>1. o \notin T
    BY TextHas
  <2> QED
    BY <2>1 DEF Text, Tags, Open, Close
<1>3. T \subseteq M
  BY DEF Text, Tags
<1>4. b = RenderedApp(a)
  BY DEF RenderedApp, Element, Fields, TitleOf, IdOf
<1> HIDE DEF T, M, f, o, c
<1>5. f \in Seq(M)
  BY <1>1, <1>3, SeqMonotonic
<1>6. n \in Nat
  BY <1>1, LenProperties
<1>7. <<o>> \in Seq(M) /\ Len(<<o>>) = 1 /\ <<o>>[1] = o
      /\ <<c>> \in Seq(M) /\ Len(<<c>>) = 1 /\ <<c>>[1] = c
  BY <1>2
<1>8. n = Len(f)
  OBVIOUS
<1> HIDE DEF n
<1>9. /\ x \in Seq(M) /\ Len(x) = 1 + n
      /\ x[1] = o /\ \A p \in 1..n : x[1 + p] = f[p]
  <2>1. 1 \in 1..1
    OBVIOUS
  <2> QED
    BY <1>5, <1>7, <1>8, <2>1, Halves
<1> HIDE DEF x
<1>10. /\ b \in Seq(M) /\ Len(b) = 1 + n + 1
       /\ \A p \in 1..(1 + n) : b[p] = x[p]
       /\ b[1 + n + 1] = c
  <2> DEFINE m == 1 + n
  <2>1. 1 \in 1..1 /\ m = Len(x)
    BY <1>9
  <2> HIDE DEF m
  <2>2. /\ b \in Seq(M) /\ Len(b) = m + 1
        /\ \A p \in 1..m : b[p] = x[p]
        /\ b[m + 1] = c
    BY <1>7, <1>9, <2>1, Halves
  <2> QED
    BY <2>2 DEF m
<1> HIDE DEF b
<1>11. /\ Len(b) = n + 2 /\ b[1] = o /\ b[n + 2] = c
       /\ \A p \in 1..n : b[p + 1] = f[p]
  <2>1. 1 + n + 1 = n + 2 /\ 1 \in 1..(1 + n)
        /\ \A p \in 1..n : p + 1 \in 1..(1 + n) /\ p + 1 = 1 + p
    BY <1>6
  <2> QED
    BY <1>9, <1>10, <2>1
<1>12. \A p \in 1..(n + 2) : b[p] = o => p = 1
  <2> SUFFICES ASSUME NEW p \in 1..(n + 2), p # 1, b[p] = o PROVE FALSE
    OBVIOUS
  <2>1. CASE p = n + 2
    BY <1>2, <1>11, <2>1
  <2>2. CASE p # n + 2
    <3>1. p - 1 \in 1..n /\ (p - 1) + 1 = p
      BY <1>6, <2>2
    <3>2. f[p - 1] \in T
      BY <1>1, <1>8, <3>1, ElementOfSeq
    <3> QED
      BY <1>2, <1>11, <3>1, <3>2
  <2> QED
    BY <2>1, <2>2
<1> QED
  BY <1>1, <1>4, <1>6, <1>10, <1>11, <1>12 DEF T, M, f, o, c, n

\* A chunk is what follows its <App>, up to the next one or to the end ...
Delimited(xml, s, f, m, end, e) ==
    /\ s \in Nat /\ m = Len(f) /\ e = Len(end)
    /\ \A p \in 1..m : xml[s + p] = f[p]
    /\ \A p \in 1..e : xml[s + m + p] = end[p]
    /\ s + m + e <= Len(xml)
    /\ \A j \in DOMAIN xml : xml[j] = Open("App") /\ j > s => j > s + m + e
    /\ \/ s + m + e = Len(xml)
       \/ s + m + e + 1 \in DOMAIN xml /\ xml[s + m + e + 1] = Open("App")

\* ... which is what Chunk takes.
LEMMA ChunkIs ==
  ASSUME NEW M, NEW xml \in Seq(M), NEW f \in Seq(M), NEW end \in Seq(M),
         NEW s, NEW m, NEW e, Delimited(xml, s, f, m, end, e)
  PROVE  Chunk(xml, s) = f \o end
<1> DEFINE l == Len(xml)
           x == f \o end
           next == {j \in DOMAIN xml : xml[j] = Open("App") /\ j > s}
           to == IF next = {} THEN Len(xml) ELSE Min(next) - 1
<1>0. /\ s \in Nat /\ m = Len(f) /\ e = Len(end)
      /\ \A p \in 1..m : xml[s + p] = f[p]
      /\ \A p \in 1..e : xml[s + m + p] = end[p]
      /\ s + m + e <= Len(xml)
      /\ \A j \in DOMAIN xml : xml[j] = Open("App") /\ j > s => j > s + m + e
      /\ \/ s + m + e = Len(xml)
         \/ s + m + e + 1 \in DOMAIN xml /\ xml[s + m + e + 1] = Open("App")
  BY DEF Delimited
<1>1. m \in Nat /\ e \in Nat /\ l \in Nat /\ DOMAIN xml = 1..l
  BY <1>0, LenProperties
<1>2. /\ x \in Seq(M) /\ Len(x) = m + e
      /\ \A p \in 1..m : x[p] = f[p]
      /\ \A p \in 1..e : x[m + p] = end[p]
  BY <1>0, Halves
<1>3. Chunk(xml, s) = SubSeq(xml, s + 1, to)
  BY DEF Chunk
<1> HIDE DEF l, x
<1>4. to = s + (m + e)
  <2>1. next \in SUBSET Nat /\ \A j \in next : j >= s + m + e + 1
    BY <1>0, <1>1
  <2>2. s + m + e = s + (m + e) /\ (s + m + e + 1) - 1 = s + (m + e)
    BY <1>0, <1>1, Sums
  <2>3. CASE s + m + e = l
    <3>1. next = {}
      BY <1>0, <1>1, <2>3
    <3> HIDE DEF next
    <3> QED
      BY <2>2, <2>3, <3>1 DEF l
  <2>4. CASE s + m + e + 1 \in DOMAIN xml /\ xml[s + m + e + 1] = Open("App")
    <3>1. s + m + e + 1 \in next
      BY <1>0, <1>1, <2>4
    <3> DEFINE t == s + m + e + 1
    <3> HIDE DEF next
    <3>2. next \in SUBSET Nat /\ t \in next /\ \A j \in next : t <= j
      BY <1>0, <1>1, <2>1, <3>1
    <3> HIDE DEF t
    <3>3. Min(next) = t
      BY <3>2, MinIs
    <3> QED
      BY <2>2, <3>1, <3>3 DEF t
  <2> QED
    BY <1>0, <2>3, <2>4 DEF l
<1> HIDE DEF to, next
<1>5. \A p \in 1..(m + e) : xml[s + p] = x[p]
  <2> TAKE p \in 1..(m + e)
  <2>1. CASE p \in 1..m
    BY <1>0, <1>2, <2>1
  <2>2. ASSUME NEW i \in 1..e, p = m + i
        PROVE  xml[s + p] = x[p]
    <3>1. s + p = s + m + i
      BY <1>0, <1>1, <2>2, Sums
    <3> QED
      BY <1>0, <1>2, <2>2, <3>1
  <2>3. p \in 1..m \/ \E i \in 1..e : p = m + i
    BY <1>1, EitherHalf
  <2> QED
    BY <2>1, <2>2, <2>3
<1>6. SubSeq(xml, s + 1, s + Len(x)) = x
  <2>1. s + Len(x) <= Len(xml)
    BY <1>0, <1>1, <1>2
  <2>2. \A p \in 1..Len(x) : xml[s + p] = x[p]
    BY <1>0, <1>2, <1>5
  <2> QED
    BY <1>0, <1>2, <2>1, <2>2, SliceIs
<1> QED
  BY <1>2, <1>3, <1>4, <1>6 DEF x

\* The body of the reply to /applist: where its apps are, and their chunks.
LEMMA AppPlaces ==
  ASSUME NEW apps \in Seq(OfferedApp)
  PROVE  \E place \in [1..Len(apps) -> Nat] :
           /\ \A i, j \in 1..Len(apps) : i < j => place[i] < place[j]
           /\ \A i : i \in DOMAIN Rendered(apps) /\ Rendered(apps)[i] = Open("App")
                       <=> \E k \in 1..Len(apps) : i = place[k]
           /\ \A k \in 1..Len(apps) : \E end \in Seq(Text({"App", "root"})) :
                Chunk(Rendered(apps), place[k]) = Fields(apps[k]) \o end
<1> DEFINE n == Len(apps)
           ss == [i \in DOMAIN apps |-> RenderedApp(apps[i])]
           F == FlattenSeq(ss)
           M == Text({"App", "AppTitle", "ID", "root"})
           len(k) == Len(Fields(apps[k]))
           xml == Rendered(apps)
           o == Open("App")
           r == Close("root")
           q == Open("root")
<1>1. n \in Nat /\ DOMAIN apps = 1..n /\ \A k \in 1..n : apps[k] \in OfferedApp
  BY LenProperties, ElementOfSeq
<1>2. /\ o # q /\ o # r /\ q \in M /\ r \in M
      /\ Text({"App", "AppTitle", "ID"}) \subseteq M
      /\ Text({"AppTitle", "ID"}) \subseteq M
      /\ Close("App") \in M
  BY DEF Text, Tags, Open, Close
<1>3. xml = <<q>> \o F \o <<r>>
  BY DEF Rendered, Element
<1> HIDE DEF M, o, r, q, xml
<1>4. \A k \in 1..n :
        /\ Fields(apps[k]) \in Seq(M) /\ len(k) \in Nat
        /\ RenderedApp(apps[k]) \in Seq(M) /\ Len(RenderedApp(apps[k])) = len(k) + 2
        /\ RenderedApp(apps[k])[1] = o
        /\ \A p \in 1..len(k) : RenderedApp(apps[k])[p + 1] = Fields(apps[k])[p]
        /\ RenderedApp(apps[k])[len(k) + 2] = Close("App")
        /\ \A p \in 1..(len(k) + 2) : RenderedApp(apps[k])[p] = o => p = 1
  <2> TAKE k \in 1..n
  <2>1. apps[k] \in OfferedApp
    BY <1>1
  <2>2. Fields(apps[k]) \in Seq(M) /\ RenderedApp(apps[k]) \in Seq(M)
    BY <1>2, <2>1, RenderedAppShape, SeqMonotonic
  <2> QED
    BY <2>1, <2>2, RenderedAppShape DEF o
<1>5. ss \in Seq(Seq(M)) /\ Len(ss) = n /\ \A k \in 1..n : ss[k] = RenderedApp(apps[k])
  <2>1. ss = [i \in 1..n |-> RenderedApp(apps[i])]
    BY <1>1
  <2>2. \A i \in 1..n : RenderedApp(apps[i]) \in Seq(M)
    BY <1>4
  <2>3. ss \in [1..n -> Seq(M)]
    BY <2>1, <2>2
  <2> QED
    BY <1>1, <2>1, <2>3, SeqDef
<1> HIDE DEF ss, n, F, len
<1>6. PICK off :
         /\ off \in [1..(n + 1) -> Nat]
         /\ off[1] = 0
         /\ \A k \in 1..n : off[k + 1] = off[k] + Len(ss[k])
         /\ F \in Seq(M)
         /\ Len(F) = off[n + 1]
         /\ \A k \in 1..n : \A p \in 1..Len(ss[k]) : F[off[k] + p] = ss[k][p]
  <2>1. PICK off : Offsets(off, ss, M)
    BY <1>5, FlattenPlaces
  <2> WITNESS off
  <2> QED
    BY <1>5, <2>1 DEF F, Offsets
<1> DEFINE L == off[n + 1]
           place == [k \in 1..n |-> off[k] + 2]
<1>7. /\ L \in Nat /\ \A k \in 1..n : off[k] \in Nat /\ off[k + 1] \in Nat
      /\ \A k \in 1..n : off[k + 1] = off[k] + len(k) + 2
  <2>1. n + 1 \in 1..(n + 1) /\ \A k \in 1..n : k \in 1..(n + 1) /\ k + 1 \in 1..(n + 1)
    BY <1>1
  <2>2. \A k \in 1..n : Len(ss[k]) = len(k) + 2 /\ len(k) \in Nat
    BY <1>4, <1>5
  <2>3. L \in Nat /\ \A k \in 1..n : off[k] \in Nat /\ off[k + 1] \in Nat
    BY <1>6, <2>1
  <2>4. ASSUME NEW k \in 1..n PROVE off[k + 1] = off[k] + len(k) + 2
    <3>1. off[k + 1] = off[k] + (len(k) + 2)
      BY <1>6, <2>2
    <3>2. off[k] \in Nat /\ len(k) \in Nat
      BY <2>2, <2>3
    <3> QED
      BY <3>1, <3>2
  <2> QED
    BY <2>3, <2>4
<1> HIDE DEF L
<1>8. /\ xml \in Seq(M) /\ Len(xml) = L + 2 /\ DOMAIN xml = 1..(L + 2)
      /\ xml[1] = q /\ xml[L + 2] = r
      /\ \A j \in 1..L : xml[j + 1] = F[j]
  <2> DEFINE x == <<q>> \o F
             m == 1 + L
  <2>1. <<q>> \in Seq(M) /\ Len(<<q>>) = 1 /\ <<q>>[1] = q
        /\ <<r>> \in Seq(M) /\ Len(<<r>>) = 1 /\ <<r>>[1] = r /\ 1 \in 1..1
    BY <1>2
  <2>2. L = Len(F) /\ F \in Seq(M)
    BY <1>6 DEF L
  <2>3. /\ x \in Seq(M) /\ Len(x) = 1 + L /\ x[1] = q
        /\ \A j \in 1..L : x[1 + j] = F[j]
    BY <2>1, <2>2, Halves
  <2>4. m = Len(x)
    BY <2>3
  <2> HIDE DEF x, m
  <2>5. /\ xml \in Seq(M) /\ Len(xml) = m + 1
        /\ \A j \in 1..m : xml[j] = x[j]
        /\ xml[m + 1] = r
    BY <1>3, <2>1, <2>3, <2>4, Halves DEF x
  <2>6. m + 1 = L + 2 /\ 1 \in 1..m /\ \A j \in 1..L : 1 + j \in 1..m /\ 1 + j = j + 1
    BY <1>7 DEF m
  <2> QED
    BY <2>3, <2>5, <2>6, LenProperties
<1>9. place \in [1..n -> Nat] /\ \A i, j \in 1..n : i < j => place[i] < place[j]
  <2>1. \A k \in 1..n : off[k] < off[k + 1]
    BY <1>4, <1>7
  <2>2. \A i, j \in 1..(n + 1) : i < j => off[i] < off[j]
    BY <1>1, <1>6, <2>1, Growing
  <2>3. \A i \in 1..n : i \in 1..(n + 1)
    BY <1>1
  <2> QED
    BY <1>7, <2>2, <2>3
<1>10. \A k \in 1..n : \A p \in 1..(len(k) + 2) :
          /\ off[k] + p \in 1..L
          /\ xml[off[k] + p + 1] = RenderedApp(apps[k])[p]
  <2> TAKE k \in 1..n
  <2> TAKE p \in 1..(len(k) + 2)
  <2>1. off[k + 1] <= L
    <3>1. CASE k = n
      BY <1>7, <3>1 DEF L
    <3>2. CASE k # n
      <4>1. k + 1 \in 1..n
        BY <1>1, <3>2
      <4>2. \A i \in 1..n : off[i] < off[i + 1]
        <5> TAKE i \in 1..n
        <5>1. off[i] \in Nat /\ len(i) \in Nat /\ off[i + 1] = off[i] + len(i) + 2
          BY <1>4, <1>7
        <5> QED
          BY <5>1
      <4>3. \A i, j \in 1..(n + 1) : i < j => off[i] < off[j]
        BY <1>1, <1>6, <4>2, Growing
      <4>4. k + 1 \in 1..(n + 1) /\ n + 1 \in 1..(n + 1) /\ k + 1 < n + 1
        BY <1>1, <4>1
      <4>5. off[k + 1] < off[n + 1]
        BY <4>3, <4>4
      <4> QED
        BY <1>7, <4>5 DEF L
    <3> QED
      BY <3>1, <3>2
  <2>2. off[k] + p \in 1..L
    <3> DEFINE a == off[k]
               m == len(k)
    <3>1. a \in Nat /\ m \in Nat /\ L \in Nat /\ a + m + 2 <= L /\ p \in 1..(m + 2)
      BY <1>4, <1>7, <2>1
    <3> HIDE DEF a, m
    <3>2. a + p \in 1..L
      BY <3>1, Sums
    <3> QED
      BY <3>2 DEF a
  <2>3. p \in 1..Len(ss[k]) /\ ss[k][p] = RenderedApp(apps[k])[p]
    BY <1>4, <1>5
  <2> QED
    BY <1>6, <1>8, <2>2, <2>3
<1>11. ASSUME NEW i
       PROVE  i \in DOMAIN xml /\ xml[i] = o <=> \E k \in 1..n : i = place[k]
  <2>1. ASSUME i \in DOMAIN xml, xml[i] = o
        PROVE  \E k \in 1..n : i = place[k]
    <3>1. i # 1 /\ i # L + 2 /\ i \in 1..(L + 2)
      BY <1>2, <1>8, <2>1
    <3>2. i - 1 \in 1..L /\ (i - 1) + 1 = i
      BY <1>7, <3>1
    <3>3. PICK k \in 1..n : off[k] < i - 1 /\ i - 1 <= off[k + 1]
      BY <1>1, <1>6, <3>2, Covered DEF L
    <3>4. (i - 1) - off[k] \in 1..(len(k) + 2) /\ off[k] + ((i - 1) - off[k]) + 1 = i
      BY <1>4, <1>7, <3>2, <3>3
    <3>5. (i - 1) - off[k] = 1
      BY <1>4, <1>10, <2>1, <3>4
    <3>6. i = off[k] + 2
      BY <1>7, <3>2, <3>5
    <3> QED
      BY <3>6
  <2>2. ASSUME NEW k \in 1..n, i = place[k]
        PROVE  i \in DOMAIN xml /\ xml[i] = o
    <3>1. 1 \in 1..(len(k) + 2)
      BY <1>4
    <3>2. off[k] + 1 \in 1..L /\ xml[off[k] + 1 + 1] = o
      BY <1>4, <1>10, <3>1
    <3>3. i = off[k] + 1 + 1
      BY <1>7, <2>2
    <3> QED
      BY <1>7, <1>8, <3>2, <3>3
  <2> QED
    BY <2>1, <2>2
<1>12. ASSUME NEW k \in 1..n
       PROVE  \E end \in Seq(Text({"App", "root"})) :
                Chunk(xml, place[k]) = Fields(apps[k]) \o end
  <2> DEFINE f == Fields(apps[k])
             m == len(k)
             c == Close("App")
             s == place[k]
             E == Text({"App", "root"})
  <2>1. /\ s = off[k] + 2 /\ s \in Nat /\ off[k] \in Nat
        /\ m \in Nat /\ m = Len(f) /\ f \in Seq(M)
        /\ off[k + 1] = off[k] + m + 2
    BY <1>4, <1>7 DEF len
  <2>2. c \in E /\ r \in E /\ c \in M
    BY <1>2 DEF E, Text, Tags, r
  <2>3. \A p \in 1..(m + 2) : /\ off[k] + p \in 1..L
                              /\ xml[off[k] + p + 1] = RenderedApp(apps[k])[p]
    BY <1>10
  <2>4. /\ \A p \in 1..m : RenderedApp(apps[k])[p + 1] = f[p]
        /\ RenderedApp(apps[k])[m + 2] = c
    BY <1>4
  <2> HIDE DEF f, m, c, E
  <2>5. /\ \A p \in 1..m : xml[s + p] = f[p]
        /\ xml[s + m + 1] = c
        /\ s + m <= L
    <3>1. /\ \A p \in 1..m : p + 1 \in 1..(m + 2) /\ off[k] + (p + 1) + 1 = s + p
          /\ m + 2 \in 1..(m + 2) /\ off[k] + (m + 2) + 1 = s + m + 1
          /\ off[k] + (m + 2) = s + m
      <4> DEFINE a == off[k]
      <4>1. a \in Nat /\ m \in Nat /\ s = a + 2
        BY <2>1
      <4> HIDE DEF a, place
      <4>2. /\ \A p \in 1..m : p + 1 \in 1..(m + 2) /\ a + (p + 1) + 1 = (a + 2) + p
            /\ m + 2 \in 1..(m + 2) /\ a + (m + 2) + 1 = (a + 2) + m + 1
            /\ a + (m + 2) = (a + 2) + m
        BY <4>1, Sums
      <4> QED
        BY <4>1, <4>2 DEF a
    <3>2. \A p \in 1..m : xml[s + p] = f[p]
      BY <2>3, <2>4, <3>1
    <3>3. xml[s + m + 1] = c /\ s + m \in 1..L
      BY <2>3, <2>4, <3>1
    <3> QED
      BY <1>7, <3>2, <3>3
  <2>6. \A j \in DOMAIN xml : xml[j] = o /\ j > s => \E i \in 1..n : j = place[i] /\ i > k
    <3> SUFFICES ASSUME NEW j \in DOMAIN xml, xml[j] = o, j > s
                 PROVE  \E i \in 1..n : j = place[i] /\ i > k
      OBVIOUS
    <3>1. PICK i \in 1..n : j = place[i]
      BY <1>11
    <3>2. i < k => place[i] < place[k]
      BY <1>9
    <3>3. place[i] \in Nat /\ i \in Nat /\ k \in Nat
      BY <1>1, <1>9
    <3>4. i > k
      BY <2>1, <3>1, <3>2, <3>3
    <3> QED
      BY <3>1, <3>4
  <2> HIDE DEF s
  <2>7. CASE k = n
    <3> DEFINE end == <<c, r>>
               e == 2
    <3>1. end \in Seq(E) /\ end \in Seq(M) /\ 2 = Len(end) /\ end[1] = c /\ end[2] = r
      BY <1>2, <2>2
    <3>2. \A j \in DOMAIN xml : xml[j] = Open("App") /\ j > s => j > s + m + 2
      BY <1>1, <2>6, <2>7 DEF o
    <3>3. s + m = L /\ s + m + 2 = Len(xml)
      <4>1. off[k + 1] = L
        BY <2>7 DEF L
      <4>2. s = off[k] + 2 /\ L = off[k] + m + 2
        BY <2>1, <4>1
      <4> DEFINE a == off[k]
      <4>3. a \in Nat /\ m \in Nat /\ s = a + 2 /\ L = a + m + 2
        BY <2>1, <4>2
      <4> HIDE DEF a
      <4>4. s + m = L /\ s + m + 2 = L + 2
        BY <4>3
      <4> QED
        BY <1>8, <4>4
    <3>4. xml[s + m + 2] = r
      BY <1>8, <3>3
    <3>5. \A p \in 1..2 : xml[s + m + p] = end[p]
      BY <2>5, <3>1, <3>4
    <3> HIDE DEF end
    <3>6. s + m + 2 <= Len(xml)
      BY <1>7, <1>8, <3>3
    <3>7. Chunk(xml, s) = f \o end
      <4>1. /\ xml \in Seq(M) /\ f \in Seq(M) /\ end \in Seq(M) /\ s \in Nat
            /\ m = Len(f) /\ 2 = Len(end)
        BY <1>8, <2>1, <3>1
      <4>2. /\ \A p \in 1..m : xml[s + p] = f[p]
            /\ s + m + 2 = Len(xml)
        BY <2>5, <3>3
      <4>3. /\ e = Len(end)
            /\ \A p \in 1..e : xml[s + m + p] = end[p]
            /\ s + m + e <= Len(xml)
            /\ \A j \in DOMAIN xml : xml[j] = Open("App") /\ j > s => j > s + m + e
            /\ s + m + e = Len(xml)
        BY <3>2, <3>5, <3>6, <4>1, <4>2
      <4> HIDE DEF e
      <4>4. Delimited(xml, s, f, m, end, e)
        BY <4>1, <4>2, <4>3 DEF Delimited
      <4> QED
        BY <4>1, <4>4, ChunkIs
    <3> QED
      BY <3>1, <3>7 DEF E, f, s
  <2>8. CASE k # n
    <3> DEFINE end == <<c>>
               e == 1
    <3>1. end \in Seq(E) /\ end \in Seq(M) /\ 1 = Len(end) /\ end[1] = c
      BY <2>2
    <3>2. k + 1 \in 1..n
      BY <1>1, <2>8
    <3>3. place[k + 1] = s + m + 1 + 1 /\ s + m + 1 \in Nat
      <4> DEFINE a == off[k]
      <4>1. /\ a \in Nat /\ m \in Nat /\ s = a + 2
            /\ place[k + 1] = (a + m + 2) + 2
        BY <2>1, <3>2
      <4> HIDE DEF a, place
      <4>2. (a + m + 2) + 2 = (a + 2) + m + 1 + 1 /\ (a + 2) + m + 1 \in Nat
        BY <4>1
      <4> QED
        BY <4>1, <4>2
    <3>4. place[k + 1] \in DOMAIN xml /\ xml[place[k + 1]] = Open("App")
      BY <1>11, <3>2 DEF o
    <3>5. \A p \in 1..1 : xml[s + m + p] = end[p]
      BY <2>5, <3>1
    <3> HIDE DEF end
    <3>6. \A j \in DOMAIN xml : xml[j] = Open("App") /\ j > s => j > s + m + 1
      <4> SUFFICES ASSUME NEW j \in DOMAIN xml, xml[j] = o, j > s
                   PROVE  j > s + m + 1
        BY DEF o
      <4>1. PICK i \in 1..n : j = place[i] /\ i > k
        BY <2>6
      <4>2. i = k + 1 \/ k + 1 < i
        BY <1>1, <4>1
      <4>3. i = k + 1 \/ place[k + 1] < place[i]
        BY <1>9, <3>2, <4>2
      <4>4. place[i] \in Nat /\ place[k + 1] \in Nat
        BY <1>9, <3>2
      <4> QED
        BY <3>3, <4>1, <4>3, <4>4
    <3>7. s + m + 1 <= Len(xml)
      BY <1>7, <1>8, <2>1, <2>5
    <3>8. Chunk(xml, s) = f \o end
      <4>1. /\ xml \in Seq(M) /\ f \in Seq(M) /\ end \in Seq(M) /\ s \in Nat
            /\ m = Len(f) /\ 1 = Len(end)
        BY <1>8, <2>1, <3>1
      <4>2. /\ \A p \in 1..m : xml[s + p] = f[p]
            /\ s + m + 1 + 1 \in DOMAIN xml /\ xml[s + m + 1 + 1] = Open("App")
        BY <2>5, <3>3, <3>4
      <4>3. /\ e = Len(end)
            /\ \A p \in 1..e : xml[s + m + p] = end[p]
            /\ s + m + e <= Len(xml)
            /\ \A j \in DOMAIN xml : xml[j] = Open("App") /\ j > s => j > s + m + e
            /\ s + m + e + 1 \in DOMAIN xml /\ xml[s + m + e + 1] = Open("App")
        BY <3>5, <3>6, <3>7, <4>1, <4>2
      <4> HIDE DEF e
      <4>4. Delimited(xml, s, f, m, end, e)
        BY <4>1, <4>2, <4>3 DEF Delimited
      <4> QED
        BY <4>1, <4>4, ChunkIs
    <3> QED
      BY <3>1, <3>8 DEF E, f, s
  <2> QED
    BY <2>7, <2>8
<1> HIDE DEF place
<1> QED
  BY <1>9, <1>11, <1>12 DEF xml, o, n

\* An app that can be launched, and what the client makes of it.
IsLaunchable(a) == a.title # None /\ a.id # None /\ IsNumber(trim(a.id))
Parsed(a) == [title |-> a.title, id |-> trim(a.id)]

\* The list that app_list makes of the body (nvhttp.rs): every app of Sunshine
\* with a title and a number, with just its own, in the order of Sunshine.  No
\* field is taken from the next app, and no app is lost or doubled.
THEOREM AppListIsOffer ==
  ASSUME NEW apps \in Seq(OfferedApp)
  PROVE  \E place \in [1..Len(apps) -> Nat] :
           /\ \A i, j \in 1..Len(apps) : i < j => place[i] < place[j]
           /\ DOMAIN app_list(Rendered(apps))
                = {place[k] : k \in {k \in 1..Len(apps) : IsLaunchable(apps[k])}}
           /\ \A k \in 1..Len(apps) : IsLaunchable(apps[k]) =>
                app_list(Rendered(apps))[place[k]] = Parsed(apps[k])
<1> DEFINE n == Len(apps)
           xml == Rendered(apps)
           IsApp(c) == xml_tag(c, "AppTitle") # None /\ xml_tag(c, "ID") # None
                         /\ IsNumber(trim(xml_tag(c, "ID")))
           places == {i \in DOMAIN xml : xml[i] = Open("App") /\ IsApp(Chunk(xml, i))}
<1>1. PICK place \in [1..n -> Nat] :
         /\ \A i, j \in 1..n : i < j => place[i] < place[j]
         /\ \A i : i \in DOMAIN xml /\ xml[i] = Open("App")
                     <=> \E k \in 1..n : i = place[k]
         /\ \A k \in 1..n : \E end \in Seq(Text({"App", "root"})) :
              Chunk(xml, place[k]) = Fields(apps[k]) \o end
  BY AppPlaces
<1>2. \A k \in 1..n : /\ xml_tag(Chunk(xml, place[k]), "AppTitle") = apps[k].title
                      /\ xml_tag(Chunk(xml, place[k]), "ID") = apps[k].id
  <2> TAKE k \in 1..n
  <2>1. PICK end \in Seq(Text({"App", "root"})) :
           Chunk(xml, place[k]) = Fields(apps[k]) \o end
    BY <1>1
  <2>2. apps[k] \in OfferedApp
    BY ElementOfSeq
  <2> QED
    BY <2>1, <2>2, FieldsFound
<1>3. app_list(xml) = [i \in places |-> [title |-> xml_tag(Chunk(xml, i), "AppTitle"),
                                         id |-> trim(xml_tag(Chunk(xml, i), "ID"))]]
  BY DEF app_list
<1> HIDE DEF xml, n
<1>4. \A k \in 1..n : IsApp(Chunk(xml, place[k])) <=> IsLaunchable(apps[k])
  BY <1>2 DEF IsLaunchable
<1> HIDE DEF IsApp
<1>5. places = {place[k] : k \in {k \in 1..n : IsLaunchable(apps[k])}}
  <2>1. ASSUME NEW i
        PROVE  i \in places <=> \E k \in 1..n : i = place[k] /\ IsLaunchable(apps[k])
    BY <1>1, <1>4
  <2> HIDE DEF places
  <2> QED
    BY <2>1
<1>6. \A k \in 1..n : IsLaunchable(apps[k]) => place[k] \in places
  BY <1>1, <1>4
<1> HIDE DEF places
<1>7. \A k \in 1..n : IsLaunchable(apps[k]) =>
        app_list(xml)[place[k]] = Parsed(apps[k])
  BY <1>2, <1>3, <1>6 DEF Parsed
<1>8. DOMAIN app_list(xml) = places
  BY <1>3
<1> QED
  BY <1>1, <1>5, <1>7, <1>8 DEF n, xml

\* The app that run_moonlight takes of the list is one of Sunshine's, and
\* Desktop if there is one.
LEMMA ChosenFits ==
  ASSUME NEW apps \in Seq(OfferedApp),
         NEW a, a = Chosen(app_list(Rendered(apps))), a # None
  PROVE  /\ \E b \in ToSet(apps) : IsLaunchable(b) /\ a = Parsed(b)
         /\ (\E b \in ToSet(apps) : IsLaunchable(b) /\ IsDesktop(b)) => IsDesktop(a)
<1> DEFINE n == Len(apps)
           list == app_list(Rendered(apps))
           desktops == {i \in DOMAIN list : IsDesktop(list[i])}
           pick == IF desktops # {} THEN desktops ELSE DOMAIN list
<1>1. PICK place \in [1..n -> Nat] :
         /\ DOMAIN list = {place[k] : k \in {k \in 1..n : IsLaunchable(apps[k])}}
         /\ \A k \in 1..n : IsLaunchable(apps[k]) => list[place[k]] = Parsed(apps[k])
  BY AppListIsOffer
<1>2. ToSet(apps) = {apps[k] : k \in 1..n}
  BY LenProperties DEF ToSet
<1>3. a = IF pick = {} THEN None ELSE list[Min(pick)]
  BY DEF Chosen
<1> HIDE DEF list, n
<1>4. DOMAIN list \in SUBSET Nat /\ pick \in SUBSET DOMAIN list
  BY <1>1
<1>5. \A i \in DOMAIN list : \E k \in 1..n :
        i = place[k] /\ IsLaunchable(apps[k]) /\ list[i] = Parsed(apps[k])
  BY <1>1
<1>6. \A b : IsDesktop(Parsed(b)) <=> IsDesktop(b)
  BY DEF Parsed, IsDesktop
<1>7. pick # {} /\ Min(pick) \in pick
  <2> HIDE DEF pick
  <2>1. pick # {} /\ pick \in SUBSET Nat
    BY <1>3, <1>4
  <2> QED
    BY <2>1, MinIsLeast
<1>8. \E b \in ToSet(apps) : IsLaunchable(b) /\ a = Parsed(b)
  <2>1. Min(pick) \in DOMAIN list /\ a = list[Min(pick)]
    <3> HIDE DEF pick
    <3> QED
      BY <1>3, <1>4, <1>7
  <2> HIDE DEF pick
  <2> QED
    BY <1>2, <1>5, <2>1
<1>9. ASSUME NEW b \in ToSet(apps), IsLaunchable(b), IsDesktop(b)
      PROVE  IsDesktop(a)
  <2>1. PICK k \in 1..n : b = apps[k]
    BY <1>2
  <2>2. place[k] \in DOMAIN list /\ list[place[k]] = Parsed(b)
    BY <1>1, <1>9, <2>1
  <2>3. place[k] \in desktops
    BY <1>6, <1>9, <2>2
  <2>4. pick = desktops
    <3> HIDE DEF desktops
    <3> QED
      BY <2>3
  <2>5. Min(pick) \in desktops /\ a = list[Min(pick)]
    <3> HIDE DEF pick, desktops
    <3> QED
      BY <1>3, <1>7, <2>4
  <2> HIDE DEF pick
  <2> QED
    BY <2>5
<1> QED
  BY <1>8, <1>9

-----------------------------------------------------------------------------
(* What the replies to /launch say                                         *)

\* The least and the greatest of a set are its own.
LEMMA MinOfOne ==
  ASSUME NEW i \in Nat
  PROVE  Min({i}) = i /\ Max({i}) = i
BY DEF Min, Max

\* A fresh session and a resumed one are accepted; a session that could not
\* be started is not, whatever space is around its 0, and neither is a busy
\* host.
LEMMA WhatIsLaunched ==
  /\ Launched(Reply(200, Element("gamesession", <<Word("1")>>)))
  /\ Launched(Reply(200, Element("resume", <<Word("1")>>)))
  /\ ~Launched(Reply(200, Element("gamesession", <<Space, Word("0")>>)))
  /\ ~Launched(Reply(419, Element("resume", <<Word("0")>>)))
<1> DEFINE S == {Word("0"), Word("1"), Space}
           one == <<Word("1")>>
           zero == <<Space, Word("0")>>
<1>1. \A tag : Open(tag) \notin S /\ Close(tag) \notin S
  BY DEF Open, Close, Word, Space
<1>2. one \in Seq(S) /\ zero \in Seq(S)
  OBVIOUS
<1>3. Word("0") # Word("1") /\ Word("0") # Space /\ Word("1") # Space
  BY DEF Word, Space
<1>4. trim(one) = one
  <2> DEFINE kept == {i \in DOMAIN one : one[i] # Space}
  <2>1. kept = {1}
    BY <1>3
  <2>2. Min(kept) = 1 /\ Max(kept) = 1
    BY <2>1, MinOfOne
  <2>3. trim(one) = SubSeq(one, 1, 1)
    <3>1. trim(one) = IF kept = {} THEN <<>> ELSE SubSeq(one, Min(kept), Max(kept))
      BY DEF trim
    <3> HIDE DEF kept
    <3> QED
      BY <2>1, <2>2, <3>1
  <2> QED
    BY <1>2, <2>3, SubSeqFull
<1>5. trim(zero) = <<Word("0")>>
  <2> DEFINE kept == {i \in DOMAIN zero : zero[i] # Space}
  <2>1. kept = {2}
    BY <1>3
  <2>2. Min(kept) = 2 /\ Max(kept) = 2
    BY <2>1, MinOfOne
  <2>3. trim(zero) = SubSeq(zero, 2, 2)
    <3>1. trim(zero) = IF kept = {} THEN <<>> ELSE SubSeq(zero, Min(kept), Max(kept))
      BY DEF trim
    <3> HIDE DEF kept
    <3> QED
      BY <2>1, <2>2, <3>1
  <2>4. SubSeq(zero, 2, 2) \in Seq(S) /\ Len(SubSeq(zero, 2, 2)) = 1
        /\ SubSeq(zero, 2, 2)[1] = Word("0")
    <3>1. \A i \in 2..2 : zero[i] \in S
      OBVIOUS
    <3> QED
      BY <3>1, SubSeqProperties
  <2> QED
    BY <2>3, <2>4, SeqEqual
<1> HIDE DEF S
<1>6. ASSUME NEW tag
      PROVE  /\ xml_tag(Element(tag, one), tag) = one
             /\ xml_tag(Element(tag, zero), tag) = zero
  BY <1>1, <1>2, TagOfElement
<1>7. xml_tag(Element("gamesession", zero), "resume") = None
  BY <1>1, <1>2, OtherTag
<1>8. one # <<Word("0")>> /\ one # None
  BY <1>3, HttpAssumption
<1> QED
  BY <1>4, <1>5, <1>6, <1>7, <1>8 DEF Launched, Says, Reply

-----------------------------------------------------------------------------
(* The video session                                                       *)

\* Session s is between the end of its pairing and its own end.
Engaged(s) == stage[s] \in {"applist", "launch", "stream", "cancel"}

\* The types of the variables that the other parts of the invariant relate.
HttpShape ==
    /\ stage \in [Sessions -> Stages]
    /\ answer = [s \in Sessions |-> answer[s]]
    /\ holder \in Sessions \cup {None}

\* The calls of a session come after its pairing, one at a time.
StageInv ==
    \A s \in Sessions :
        /\ Engaged(s) => at[s] = "paired"
        /\ stage[s] \in {"paired", "applist"} => answer[s] = None

\* What Sunshine holds for a session that waits for the reply to /launch, that
\* reply tells of.
HeldInv ==
    /\ HeldIsExplained
    /\ holder # None /\ ~left /\ stage[holder] = "launch"
         => answer[holder] # None /\ Launched(answer[holder])

\* Sessions that do not overlap ...
AloneInv ==
    alone => \A r, t \in Sessions :
        at[r] # "unborn" /\ at[t] # "unborn" /\ ~Returned(r) /\ ~Returned(t) => r = t

\* ... own the video session, from the reply that tells them of it.
OwnInv ==
    alone => \A s \in Sessions :
        \/ stage[s] = "stream"
        \/ stage[s] = "launch" /\ answer[s] # None /\ Launched(answer[s])
        => holder = s

\* The inductive invariant of the video session.
HttpInv == HttpShape /\ StageInv /\ HeldInv /\ AloneInv /\ OwnInv

\* No session has begun, and Sunshine is idle.
LEMMA HttpInitInv == HttpInit => HttpInv
<1> SUFFICES ASSUME HttpInit PROVE HttpInv
  OBVIOUS
<1> USE PairingAssumption DEF HttpInit, Init
<1>1. HttpShape /\ StageInv /\ AloneInv /\ OwnInv
  BY DEF HttpShape, Stages, StageInv, Engaged, AloneInv, OwnInv
<1>2. HeldInv
  BY DEF HeldInv, HeldIsExplained
<1> QED
  BY <1>1, <1>2 DEF HttpInv

\* While it is alone, no other session is at work.
LEMMA OthersIdle ==
  ASSUME HttpInv, alone, NEW s \in Sessions, Engaged(s), NEW r \in Sessions, Engaged(r)
  PROVE  r = s
<1>1. at[s] = "paired" /\ at[r] = "paired" /\ ~Returned(s) /\ ~Returned(r)
  BY DEF HttpInv, StageInv, Engaged, Returned
<1> QED
  BY <1>1 DEF HttpInv, AloneInv

\* A step of Pairing moves one session, and none that is over.
LEMMA PairedStays ==
  ASSUME TypeOK, PairingSteps
  PROVE  \E s \in Sessions :
           /\ \A r \in Sessions : r # s => at'[r] = at[r]
           /\ at'[s] # at[s] => at[s] \notin {"paired", "failed"} /\ at'[s] # "unborn"
<1> USE DEF TypeOK, Goto
<1>1. ASSUME NEW s \in Sessions, Client(s)
      PROVE  \E label \in {"serverinfo", "paired", "failed"} \cup Phases :
               at' = [at EXCEPT ![s] = label] /\ at[s] \notin {"paired", "failed"}
  <2>1. CASE Connect(s)
    BY <2>1 DEF Connect
  <2>2. CASE ServerInfoHttps(s) \/ ServerInfoPlain(s)
    BY <2>2 DEF ServerInfoHttps, ServerInfoPlain, PairPrompt, Phases
  <2>3. CASE ServerCert(s) \/ ChallengeResponse(s)
    BY <2>3 DEF ServerCert, ChallengeResponse, Phases
  <2>4. CASE PairingSecret(s) \/ Paired(s)
    BY <2>4 DEF PairingSecret, Paired, Phases
  <2>5. CASE Fails(s)
    BY <2>5 DEF Fails, Phases
  <2> QED
    BY <1>1, <2>1, <2>2, <2>3, <2>4, <2>5 DEF Client
<1>2. ASSUME NEW s \in Sessions, SunshineHandles(s) \/ HostPersists(s)
      PROVE  at' = at \/ (at' = [at EXCEPT ![s] = "waiting"] /\ at[s] = "getservercert")
  BY <1>2 DEF SunshineHandles, GetServerCert, AnswerChallenge, ServerChallengeResp,
     ClientPairingSecret, HostPersists
<1>3. ASSUME NEW i \in Identities, NEW p \in Pins, UserTypesPin(i, p)
      PROVE  at' = at /\ slot[i].of \in Sessions
  BY <1>3 DEF UserTypesPin, Slot
<1>4. ASSUME NEW s \in Sessions, Client(s) \/ SunshineHandles(s) \/ HostPersists(s)
      PROVE  /\ \A r \in Sessions : r # s => at'[r] = at[r]
             /\ at'[s] # at[s] => at[s] \notin {"paired", "failed"} /\ at'[s] # "unborn"
  <2>1. CASE Client(s)
    <3>1. PICK label \in {"serverinfo", "paired", "failed"} \cup Phases :
             at' = [at EXCEPT ![s] = label] /\ at[s] \notin {"paired", "failed"}
      BY <1>1, <2>1
    <3> QED
      BY <3>1 DEF Phases
  <2>2. CASE SunshineHandles(s) \/ HostPersists(s)
    BY <1>2, <2>2
  <2> QED
    BY <1>4, <2>1, <2>2
<1>5. CASE \E s \in Sessions : Client(s) \/ SunshineHandles(s) \/ HostPersists(s)
  BY <1>4, <1>5
<1>6. CASE \E i \in Identities, p \in Pins : UserTypesPin(i, p)
  BY <1>3, <1>6
<1> QED
  BY <1>5, <1>6 DEF PairingSteps

\* ... so that what was engaged stays so.
LEMMA PairingStepsKeep ==
  ASSUME TypeOK, HttpInv, PairingSteps
  PROVE  HttpInv'
<1> USE DEF HttpInv
<1>1. PICK s \in Sessions :
         /\ \A r \in Sessions : r # s => at'[r] = at[r]
         /\ at'[s] # at[s] => at[s] \notin {"paired", "failed"} /\ at'[s] # "unborn"
  BY PairedStays
<1>2. UNCHANGED <<stage, app, offer, holder, answer, left>>
  BY DEF PairingSteps
<1>3. HttpShape' /\ HeldInv'
  BY <1>2 DEF HttpShape, HeldInv, HeldIsExplained
<1>4. StageInv'
  BY <1>1, <1>2 DEF StageInv, Engaged
<1>5. alone' => alone
  BY DEF PairingSteps
<1>6. OwnInv'
  BY <1>2, <1>5 DEF OwnInv
<1>7. \A r \in Sessions : Returned(r) => Returned(r)'
  BY <1>1, <1>2 DEF Returned
<1>8. AloneInv'
  <2> SUFFICES ASSUME alone', NEW r \in Sessions, NEW t \in Sessions, r # t,
                      at'[r] # "unborn", at'[t] # "unborn",
                      ~Returned(r)', ~Returned(t)'
               PROVE  FALSE
    BY DEF AloneInv
  <2>1. ~Returned(r) /\ ~Returned(t)
    BY <1>7
  <2>2. at[r] = "unborn" \/ at[t] = "unborn"
    BY <1>5, <2>1 DEF AloneInv
  <2>3. ASSUME NEW x \in Sessions, NEW y \in Sessions, x # y, at[x] = "unborn",
               at'[x] # "unborn", at'[y] # "unborn", ~Returned(y)
        PROVE  FALSE
    <3>1. at'[y] = at[y]
      BY <1>1, <2>3
    <3> QED
      BY <2>3, <3>1 DEF PairingSteps
  <2> QED
    BY <2>1, <2>2, <2>3
<1> QED
  BY <1>3, <1>4, <1>6, <1>8

\* The calls that do not reach Sunshine's video session.
LEMMA QuietKeeps ==
  ASSUME TypeOK, HttpInv, NEW s \in Sessions, CheckStop(s) \/ AppList(s) \/ LaunchReply(s)
  PROVE  HttpInv'
<1> USE PairingAssumption DEF HttpInv, HttpShape, Advance, Receives
<1>1. PICK label \in {"applist", "launch", "stream", "over"} :
         /\ stage' = [stage EXCEPT ![s] = label]
         /\ label = "launch" => stage[s] = "applist"
         /\ label = "applist" => stage[s] = "paired"
         /\ label = "stream" => stage[s] = "launch" /\ Launched(answer[s])
         /\ stage[s] = "launch" =>
              answer' = [answer EXCEPT ![s] = None] /\ answer[s] # None
                /\ (label = "over" => ~Launched(answer[s]))
         /\ stage[s] # "launch" => UNCHANGED answer
         /\ stage[s] \in {"paired", "applist", "launch"}
         /\ at[s] = "paired"
  <2>1. CASE CheckStop(s)
    BY <2>1 DEF CheckStop
  <2>2. CASE AppList(s)
    BY <2>2 DEF AppList, StageInv, Engaged
  <2>3. CASE LaunchReply(s)
    BY <2>3 DEF LaunchReply, StageInv, Engaged
  <2> QED
    BY <2>1, <2>2, <2>3
<1>2. UNCHANGED <<vars, holder, left, alone>>
  BY DEF CheckStop, AppList, LaunchReply
<1>3. HttpShape' /\ at' = at
  BY <1>1, <1>2 DEF vars, Stages
<1>4. StageInv'
  BY <1>1, <1>3 DEF StageInv, Engaged
<1>5. HeldInv'
  BY <1>1, <1>2, <1>3 DEF HeldInv, HeldIsExplained
<1>6. AloneInv'
  BY <1>1, <1>2, <1>3 DEF AloneInv, Returned
<1>7. OwnInv'
  <2> SUFFICES ASSUME alone, NEW r \in Sessions,
                      \/ stage'[r] = "stream"
                      \/ stage'[r] = "launch" /\ answer'[r] # None /\ Launched(answer'[r])
               PROVE  holder = r
    BY <1>2 DEF OwnInv
  <2>1. CASE r # s
    <3>1. stage'[r] = stage[r] /\ answer'[r] = answer[r]
      BY <1>1, <2>1
    <3> QED
      BY <3>1 DEF OwnInv
  <2>2. CASE r = s
    <3>1. label # "launch"
      BY <1>1, <2>2 DEF StageInv
    <3>2. label = "stream"
      BY <1>1, <2>2, <3>1
    <3>3. stage[s] = "launch" /\ answer[s] # None /\ Launched(answer[s])
      BY <1>1, <3>2
    <3> QED
      BY <2>2, <3>3 DEF OwnInv
  <2> QED
    BY <2>1, <2>2
<1> QED
  BY <1>3, <1>4, <1>5, <1>6, <1>7

\* /launch arrives.
LEMMA LaunchKeeps ==
  ASSUME TypeOK, HttpInv, NEW s \in Sessions, LaunchArrives(s)
  PROVE  HttpInv'
<1> USE PairingAssumption DEF HttpInv, HttpShape, Receives
<1>1. PICK x : /\ stage[s] = "launch" /\ answer[s] = None
               /\ answer' = [answer EXCEPT ![s] = x]
               /\ \/ holder' = s /\ Launched(x) /\ x # None
                  \/ UNCHANGED <<holder, left>> /\ ~Launched(x)
  <2> DEFINE fresh == Reply(200, Element("gamesession", <<Word("1")>>))
             resumed == Reply(200, Element("resume", <<Word("1")>>))
             unstarted == Reply(200, Element("gamesession", <<Space, Word("0")>>))
             refused == Reply(419, Element("resume", <<Word("0")>>))
  <2>1. /\ Launched(fresh) /\ fresh # None
        /\ Launched(resumed) /\ resumed # None
        /\ ~Launched(unstarted) /\ ~Launched(refused)
    BY WhatIsLaunched, ReplyAssumption
  <2>2. /\ stage[s] = "launch" /\ answer[s] = None
        /\ \/ answer' = [answer EXCEPT ![s] = fresh] /\ holder' = s
           \/ answer' = [answer EXCEPT ![s] = resumed] /\ holder' = s
           \/ answer' = [answer EXCEPT ![s] = unstarted] /\ UNCHANGED <<holder, left>>
           \/ answer' = [answer EXCEPT ![s] = refused] /\ UNCHANGED <<holder, left>>
    BY DEF LaunchArrives
  <2> HIDE DEF fresh, resumed, unstarted, refused
  <2> QED
    BY <2>1, <2>2
<1>2. UNCHANGED <<vars, stage, alone>>
  BY DEF LaunchArrives
<1>3. HttpShape' /\ at' = at
  BY <1>1, <1>2 DEF vars
<1>4. StageInv' /\ AloneInv'
  BY <1>1, <1>2, <1>3 DEF StageInv, Engaged, AloneInv, Returned
<1>5. HeldInv'
  <2>1. CASE holder' = s /\ Launched(x) /\ x # None
    BY <1>1, <1>2, <1>3, <2>1 DEF HeldIsExplained, HeldInv
  <2>2. CASE UNCHANGED <<holder, left>> /\ ~Launched(x)
    <3>1. holder = s /\ holder # None => left
      BY <1>1 DEF HeldInv
    <3> QED
      BY <1>1, <1>2, <1>3, <2>2 DEF HeldInv, HeldIsExplained
  <2> QED
    BY <1>1, <2>1, <2>2
<1>6. OwnInv'
  <2> SUFFICES ASSUME alone, NEW r \in Sessions,
                      \/ stage[r] = "stream"
                      \/ stage[r] = "launch" /\ answer'[r] # None /\ Launched(answer'[r])
               PROVE  holder' = r
    BY <1>2 DEF OwnInv
  <2>1. r = s
    BY <1>1, OthersIdle DEF Engaged
  <2> QED
    BY <1>1, <2>1
<1> QED
  BY <1>3, <1>4, <1>5, <1>6

\* The stream ends, /cancel arrives, or a call is lost.
LEMMA ReleaseKeeps ==
  ASSUME TypeOK, HttpInv, NEW s \in Sessions, StreamEnds(s) \/ Cancel(s) \/ CallFails(s)
  PROVE  HttpInv'
<1> USE PairingAssumption DEF HttpInv, HttpShape, Advance, Receives
<1>1. PICK label \in {"cancel", "over"} :
         /\ stage' = [stage EXCEPT ![s] = label]
         /\ Engaged(s)
         /\ answer' = answer \/ answer' = [answer EXCEPT ![s] = None]
         /\ holder' = holder \/ holder' = None
         /\ holder' # None /\ ~left' => ~left /\ (holder = s => label = "cancel")
  <2>1. CASE StreamEnds(s)
    BY <2>1 DEF StreamEnds, Releases, Engaged
  <2>2. CASE Cancel(s)
    BY <2>2 DEF Cancel, Engaged
  <2>3. CASE CallFails(s)
    BY <2>3 DEF CallFails, Engaged
  <2> QED
    BY <2>1, <2>2, <2>3
<1>2. UNCHANGED <<vars, alone>>
  BY DEF StreamEnds, Cancel, CallFails
<1>3. HttpShape' /\ at' = at /\ at[s] = "paired"
  BY <1>1, <1>2 DEF vars, Stages, StageInv
<1>4. StageInv'
  BY <1>1, <1>3 DEF StageInv, Engaged
<1>5. HeldInv'
  BY <1>1, <1>2, <1>3 DEF HeldInv, HeldIsExplained
<1>6. AloneInv'
  <2>1. \A r \in Sessions : Returned(r) => Returned(r)'
    <3> TAKE r \in Sessions
    <3>1. stage[r] = "over" => r # s
      BY <1>1 DEF Engaged
    <3> QED
      BY <1>1, <1>3, <3>1 DEF Returned
  <2> QED
    BY <1>2, <1>3, <2>1 DEF AloneInv
<1>7. OwnInv'
  <2> SUFFICES ASSUME alone, NEW r \in Sessions,
                      stage'[r] = "stream" \/ stage'[r] = "launch"
               PROVE  FALSE
    BY <1>2 DEF OwnInv
  <2>1. r # s /\ Engaged(r)
    BY <1>1 DEF Engaged
  <2> QED
    BY <1>1, <2>1, OthersIdle
<1> QED
  BY <1>3, <1>4, <1>5, <1>6, <1>7

\* The process is killed.
LEMMA KilledTooKeeps ==
  ASSUME TypeOK, HttpInv, KilledToo
  PROVE  HttpInv'
<1> USE PairingAssumption DEF HttpInv, KilledToo, Killed
<1>1. \A s \in Sessions :
         /\ stage'[s] = IF at[s] = "unborn" THEN stage[s] ELSE "over"
         /\ at[s] = "unborn" => at'[s] = "unborn"
         /\ answer'[s] = None
  OBVIOUS
<1>2. HttpShape' /\ (alone' => alone)
  BY DEF HttpShape, Stages
<1>3. \A s \in Sessions : ~Engaged(s)'
  BY <1>1 DEF Engaged, StageInv
<1>4. StageInv' /\ OwnInv'
  BY <1>1, <1>3 DEF StageInv, OwnInv, Engaged
<1>5. HeldInv'
  BY DEF HeldInv, HeldIsExplained
<1>6. AloneInv'
  <2>1. \A s \in Sessions : at'[s] # "unborn" => Returned(s)'
    BY <1>1 DEF Returned
  <2> QED
    BY <2>1 DEF AloneInv
<1> QED
  BY <1>2, <1>4, <1>5, <1>6

\* HttpInv is inductive, with the types of Pairing.
LEMMA HttpNextKeeps == TypeOK /\ HttpInv /\ [HttpNext]_allVars => HttpInv'
<1> SUFFICES ASSUME TypeOK, HttpInv, [HttpNext]_allVars PROVE HttpInv'
  OBVIOUS
<1>1. CASE PairingSteps
  BY <1>1, PairingStepsKeep
<1>2. ASSUME NEW s \in Sessions,
             \/ CheckStop(s) \/ AppList(s) \/ LaunchArrives(s) \/ LaunchReply(s)
             \/ StreamEnds(s) \/ Cancel(s) \/ CallFails(s)
      PROVE  HttpInv'
  BY <1>2, QuietKeeps, LaunchKeeps, ReleaseKeeps
<1>3. CASE KilledToo
  BY <1>3, KilledTooKeeps
<1>4. CASE UNCHANGED allVars
  <2>1. UNCHANGED <<at, stage, answer, holder, left, alone>>
    BY <1>4 DEF allVars, vars, httpVars
  <2>2. HttpShape' /\ StageInv'
    BY <2>1 DEF HttpInv, HttpShape, StageInv, Engaged
  <2>3. HeldInv'
    BY <2>1 DEF HttpInv, HeldInv, HeldIsExplained
  <2>4. AloneInv' /\ OwnInv'
    BY <2>1 DEF HttpInv, AloneInv, Returned, OwnInv
  <2> QED
    BY <2>2, <2>3, <2>4 DEF HttpInv
<1> QED
  BY <1>1, <1>2, <1>3, <1>4 DEF HttpNext, HttpRest

\* Sessions keep to HttpInv.
LEMMA HttpInvHolds == HttpSpec => []HttpInv
<1> QED
  BY HttpInitInv, HttpNextKeeps, HttpImplementsPairing, PairingTypeCorrect, PTL
     DEF HttpSpec

\* Whatever the order of the calls of however many sessions: Sunshine is left
\* with a video session that nobody will release only where a call was lost,
\* the stream broke down or the process was killed (session.rs, "any exit *we*
\* initiate ... must release it").
THEOREM HeldHolds == HttpSpec => []HeldIsExplained
<1>1. HttpInv => HeldIsExplained
  BY DEF HttpInv, HeldInv
<1> QED
  BY HttpInvHolds, <1>1, PTL

\* A session whose predecessors have all returned streams on the video session
\* that its own /launch has started or taken over (nvhttp.rs, "gamesession or
\* resume").
THEOREM OwnHolds == HttpSpec => []StreamsItsOwn
<1>1. HttpInv => StreamsItsOwn
  BY DEF HttpInv, OwnInv, StreamsItsOwn
<1> QED
  BY HttpInvHolds, <1>1, PTL

-----------------------------------------------------------------------------
(* The app that is launched                                                *)

\* What a session has chosen is a matter of what Sunshine offers alone.
OfferInv ==
    /\ offer \in Offers
    /\ app = [s \in Sessions |-> app[s]]
    /\ \A s \in Sessions : /\ app[s] # None => app[s] = Chosen(app_list(Rendered(offer)))
                           /\ stage[s] = "launch" => app[s] # None
    /\ left \in BOOLEAN /\ alone \in BOOLEAN
    /\ left => holder # None

\* Nothing is chosen, and Sunshine is idle.
LEMMA OfferInit == HttpInit => OfferInv
BY PairingAssumption DEF HttpInit, OfferInv

\* A step that chooses nothing and leaves no session behind that there is not.
LEMMA OfferStays ==
  ASSUME OfferInv, UNCHANGED <<app, offer>>,
         \A s \in Sessions : stage'[s] = "launch" => stage[s] = "launch",
         left' \in BOOLEAN, alone' \in BOOLEAN, left' => holder' # None
  PROVE  OfferInv'
BY DEF OfferInv

\* A session only goes to /launch with the app it has chosen.
LEMMA OfferKeeps == HttpInv /\ OfferInv /\ [HttpNext]_allVars => OfferInv'
<1> SUFFICES ASSUME HttpInv, OfferInv, [HttpNext]_allVars PROVE OfferInv'
  OBVIOUS
<1>1. /\ stage \in [Sessions -> Stages] /\ holder \in Sessions \cup {None}
      /\ left \in BOOLEAN /\ alone \in BOOLEAN /\ (left => holder # None)
  BY DEF HttpInv, HttpShape, OfferInv
<1>2. CASE PairingSteps
  BY <1>1, <1>2, OfferStays DEF PairingSteps
<1>3. CASE KilledToo
  <2>1. \A s \in Sessions : stage'[s] = "launch" => stage[s] = "launch"
    BY <1>1, <1>3 DEF KilledToo
  <2> QED
    BY <1>1, <1>3, <2>1, OfferStays DEF KilledToo
<1>4. CASE UNCHANGED allVars
  BY <1>1, <1>4, OfferStays DEF allVars, httpVars
<1>5. ASSUME NEW s \in Sessions, AppList(s)
      PROVE  OfferInv'
  <2> DEFINE chosen == Chosen(app_list(Rendered(offer)))
  <2>1. /\ UNCHANGED <<offer, holder, left, alone>>
        /\ app' = [app EXCEPT ![s] = chosen]
        /\ stage' = [stage EXCEPT ![s] = IF app'[s] = None THEN "over" ELSE "launch"]
    BY <1>5 DEF AppList, Advance
  <2>2. Chosen(app_list(Rendered(offer')))= chosen
    BY <2>1
  <2> HIDE DEF chosen
  <2>3. /\ app' = [r \in Sessions |-> app'[r]] /\ app'[s] = chosen
        /\ \A r \in Sessions : r # s => app'[r] = app[r] /\ stage'[r] = stage[r]
        /\ stage'[s] = "launch" => app'[s] # None
    BY <1>1, <2>1 DEF OfferInv
  <2>4. \A r \in Sessions : /\ app'[r] # None => app'[r] = chosen
                            /\ stage'[r] = "launch" => app'[r] # None
    BY <2>3 DEF OfferInv, chosen
  <2> QED
    BY <1>1, <2>1, <2>2, <2>3, <2>4 DEF OfferInv
<1>6. ASSUME NEW s \in Sessions,
             \/ CheckStop(s) \/ LaunchArrives(s) \/ LaunchReply(s)
             \/ StreamEnds(s) \/ Cancel(s) \/ CallFails(s)
      PROVE  OfferInv'
  <2> USE PairingAssumption DEF Advance
  <2>1. \A r \in Sessions : stage'[r] = "launch" => stage[r] = "launch"
    BY <1>1, <1>6 DEF CheckStop, LaunchArrives, LaunchReply, StreamEnds, Cancel, CallFails
  <2>2. left' \in BOOLEAN /\ (left' => holder' # None)
    <3>1. CASE CheckStop(s) \/ LaunchReply(s)
      BY <1>1, <3>1 DEF CheckStop, LaunchReply
    <3>2. CASE LaunchArrives(s)
      <4>1. /\ holder' \in {s, holder} /\ left' \in {left, FALSE}
            /\ holder' = s \/ left' = left
        BY <3>2 DEF LaunchArrives
      <4>2. s # None
        BY PairingAssumption
      <4>3. left' \in BOOLEAN
        BY <1>1, <4>1
      <4>4. ASSUME left' PROVE holder' # None
        <5>1. CASE holder' = s
          BY <4>2, <5>1
        <5>2. CASE left' = left /\ holder' = holder
          BY <1>1, <4>4, <5>2
        <5> QED
          BY <4>1, <5>1, <5>2
      <4> QED
        BY <4>3, <4>4
    <3>3. CASE StreamEnds(s)
      BY <1>1, <3>3 DEF StreamEnds
    <3>4. CASE Cancel(s) \/ CallFails(s)
      BY <1>1, <3>4 DEF Cancel, CallFails
    <3> QED
      BY <1>6, <3>1, <3>2, <3>3, <3>4
  <2>3. UNCHANGED <<app, offer, alone>>
    BY <1>6 DEF CheckStop, LaunchArrives, LaunchReply, StreamEnds, Cancel, CallFails
  <2> QED
    BY <1>1, <2>1, <2>2, <2>3, OfferStays
<1> QED
  BY <1>2, <1>3, <1>4, <1>5, <1>6 DEF HttpNext, HttpRest

\* What is chosen is what Sunshine offers, whatever the sessions do.
LEMMA OfferHolds == HttpSpec => [](HttpInv /\ OfferInv)
<1> QED
  BY HttpInvHolds, OfferInit, OfferKeeps, PTL DEF HttpSpec

\* What a session has chosen is an app that Sunshine offers.
LEMMA ChosenIsOffered ==
  ASSUME OfferInv, NEW s \in Sessions, app[s] # None
  PROVE  /\ \E b \in ToSet(offer) : IsLaunchable(b) /\ app[s] = Parsed(b)
         /\ (\E b \in ToSet(offer) : IsLaunchable(b) /\ IsDesktop(b)) => IsDesktop(app[s])
<1>1. offer \in Seq(OfferedApp)
  BY OffersAssumption DEF OfferInv, OfferedApp
<1>2. app[s] = Chosen(app_list(Rendered(offer)))
  BY DEF OfferInv
<1> QED
  BY <1>1, <1>2, ChosenFits

\* However many apps Sunshine offers, with whatever titles and ids: the id that
\* goes into /launch is that of one of them with a title and a number, and of
\* Desktop if there is one (session.rs, run_moonlight; nvhttp.rs, app_list).
THEOREM LaunchesDesktopHolds == HttpSpec => []LaunchesDesktop
<1>1. OfferInv => LaunchesDesktop
  <2> SUFFICES ASSUME OfferInv, NEW s \in Sessions, stage[s] = "launch"
               PROVE  /\ \E a \in Launchable : SameApp(app[s], a)
                      /\ (\E a \in Launchable : IsDesktop(a)) => IsDesktop(app[s])
    BY DEF LaunchesDesktop
  <2>1. app[s] # None
    BY DEF OfferInv
  <2>2. Launchable = {b \in ToSet(offer) : IsLaunchable(b)}
    BY DEF Launchable, IsLaunchable
  <2>3. \A b : SameApp(Parsed(b), b)
    BY DEF SameApp, Parsed
  <2> QED
    BY <2>1, <2>2, <2>3, ChosenIsOffered
<1> QED
  BY OfferHolds, <1>1, PTL

\* The variables of the calls after the pairing hold what the code can store in
\* them: an id that goes into /launch has been read as a number (nvhttp.rs,
\* app_list), and nobody leaves a video session behind that there is not.
THEOREM HttpTypeHolds == HttpSpec => []HttpTypeOK
<1>1. HttpInv /\ OfferInv => HttpTypeOK
  <2> SUFFICES ASSUME HttpInv, OfferInv PROVE HttpTypeOK
    OBVIOUS
  <2>1. \A s \in Sessions : app[s] # None => app[s].id \in Numerals
    <3> SUFFICES ASSUME NEW s \in Sessions, app[s] # None PROVE app[s].id \in Numerals
      OBVIOUS
    <3>1. PICK b : IsLaunchable(b) /\ app[s] = Parsed(b)
      BY ChosenIsOffered
    <3> QED
      BY <3>1 DEF IsLaunchable, IsNumber, Parsed
  <2> QED
    BY <2>1 DEF HttpTypeOK, HttpInv, HttpShape, OfferInv
<1> QED
  BY OfferHolds, <1>1, PTL

\* What module PairingProofs shows of pairing alone holds beside the calls that
\* follow it: the client confirms only with the right PIN, and what goes on to
\* /applist is trusted.
THEOREM PairingHoldsBesides == HttpSpec => [](ConfirmsOnlyWithPin /\ PairedIsTrusted)
<1> QED
  BY HttpImplementsPairing, ConfirmationHolds, PairedHolds, PTL
=============================================================================
