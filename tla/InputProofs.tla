---------------------------- MODULE InputProofs ----------------------------
(***************************************************************************)
(* Theorems about Input, for all keys, masks, positions and bounds.        *)
(*                                                                         *)
(* The properties of Input speak of the moments when nothing is in flight. *)
(* The invariant below says what makes up for a difference between the     *)
(* user's hands and the Sunshine host at every other moment: a message     *)
(* that is still in the inbox, or a call the handler has yet to make.      *)
(***************************************************************************)
EXTENDS Input, TLAPS

\* A press or a release that the handler has yet to make.
Presses(what, subject) ==
    \E i \in 1..Len(calls) :
        calls[i].what = what /\ calls[i].subject = subject /\ calls[i].value
Releases(what, subject) ==
    \E i \in 1..Len(calls) :
        calls[i].what = what /\ calls[i].subject = subject /\ ~calls[i].value

IsDown(msg, vk) == msg.kind = "key" /\ msg.down /\ vk_from_code(msg.code) = vk
IsUp(msg, vk) == msg.kind = "key" /\ ~msg.down /\ vk_from_code(msg.code) = vk
UpAfter(i, vk) == \E j \in (i + 1)..Len(inbox) : IsUp(inbox[j], vk)

\* Of a key that no finger holds down, every press is followed by a release.
KeysInv ==
    \A vk \in VirtualKeys \ KeysOf(held) :
        /\ \A i \in 1..Len(inbox) : IsDown(inbox[i], vk) => UpAfter(i, vk)
        /\ Presses("key", vk) => UpAfter(0, vk)
        /\ vk \in remoteKeys => Releases("key", vk) \/ UpAfter(0, vk)

\* The last pointer message on its way is where the user's pointer is; with none
\* on its way, the one handled last is.
IsLast(i) ==
    /\ inbox[i].kind = "pointer"
    /\ \A j \in (i + 1)..Len(inbox) : inbox[j].kind # "pointer"
PointerInv ==
    /\ \A i \in 1..Len(inbox) :
         IsLast(i) => inbox[i].buttons = pointer /\ inbox[i].x = position
    /\ (\A i \in 1..Len(inbox) : inbox[i].kind # "pointer")
         => last_buttons = pointer /\ target = position

\* Sunshine's buttons differ from last_buttons by the calls that are pending,
\* and by those that were made in vain.
ButtonsInv ==
    \A b \in ButtonSet :
        /\ Presses("button", b) => Has(last_buttons, b)
        /\ Releases("button", b) => ~Has(last_buttons, b)
        /\ b \in remoteButtons
             => Has(last_buttons, b) \/ Releases("button", b)
        /\ live # "after" /\ ~missed /\ Has(last_buttons, b)
             => b \in remoteButtons \/ Presses("button", b)

\* The position is the first call of its message.
Moves == calls # <<>> /\ calls[1].what = "position"
PositionInv ==
    /\ \A i \in 1..Len(calls) :
         calls[i].what = "position" => i = 1 /\ calls[i].value = c_short(target)
    /\ takenLive => live # "before"
    /\ /\ target <= ShortMax
       /\ (live # "after" /\ ~missed) \/ (live = "live" /\ takenLive)
       => Moves \/ remoteX = target

\* How far a message turns the wheel, and what the handler has yet to ask for.
Turn(msg) == IF msg.kind = "wheel" THEN msg.dy ELSE 0
ToScroll == IF calls # <<>> /\ calls[1].what = "scroll" THEN calls[1].value ELSE 0

\* Between the messages on their way lie positions of the wheel: h[i] is where
\* the user had it behind the i-th of them.
WheelPath(h) ==
    /\ h[Len(inbox)] = scrolled
    /\ \A i \in 1..Len(inbox) : h[i] = h[i - 1] - Turn(inbox[i])

\* Sunshine has scrolled, or is about to, as far as the wheel was turned before
\* the first message that is still on its way.
ScrollInv ==
    /\ \A i \in 1..Len(calls) : calls[i].what = "scroll" => Len(calls) = 1
    /\ \E h \in [0..Len(inbox) -> Int] :
         /\ WheelPath(h)
         /\ ~missed => 2 * (remoteScroll + ToScroll) - h[0] \in -slack..slack

ReleasedInv == live # "live" => remoteButtons = {} /\ remoteKeys = {}

Inv ==
    /\ TypeOK /\ KeysInv /\ PointerInv /\ ButtonsInv /\ PositionInv /\ ScrollInv
    /\ ReleasedInv

-----------------------------------------------------------------------------
(* Sequences: what is at the end of an inbox, and at the start of it.      *)

\* Append puts one element behind the others.
LEMMA AppendAt ==
  ASSUME NEW S, NEW seq \in Seq(S), NEW elt \in S
  PROVE  /\ Append(seq, elt) \in Seq(S)
         /\ Len(seq) \in Nat /\ Len(Append(seq, elt)) = Len(seq) + 1
         /\ \A i \in 1..Len(seq) : Append(seq, elt)[i] = seq[i]
         /\ Append(seq, elt)[Len(seq) + 1] = elt
OBVIOUS

\* Tail moves every element but the first one forward.
LEMMA TailAt ==
  ASSUME NEW S, NEW seq \in Seq(S), seq # <<>>
  PROVE  /\ Tail(seq) \in Seq(S) /\ Head(seq) = seq[1] /\ Head(seq) \in S
         /\ Len(seq) \in Nat \ {0} /\ Len(Tail(seq)) = Len(seq) - 1
         /\ \A i \in 1..(Len(seq) - 1) : Tail(seq)[i] = seq[i + 1]
OBVIOUS

\* At most one more element stands behind all others.
LEMMA OneMoreAt ==
  ASSUME NEW S, NEW s \in Seq(S), NEW t \in Seq(S), Len(t) \in 0..1
  PROVE  /\ s \o t \in Seq(S) /\ Len(s \o t) = Len(s) + Len(t)
         /\ \A i \in 1..Len(s) : (s \o t)[i] = s[i]
         /\ Len(t) = 1 => (s \o t)[Len(s) + 1] = t[1]
OBVIOUS
\* What is behind is moved by the length of what is before it.
LEMMA ConcatAt ==
  ASSUME NEW S, NEW s \in Seq(S), NEW t \in Seq(S)
  PROVE  /\ s \o t \in Seq(S) /\ Len(s \o t) = Len(s) + Len(t)
         /\ \A i \in 1..Len(s) : (s \o t)[i] = s[i]
         /\ \A i \in 1..Len(t) : (s \o t)[Len(s) + i] = t[i]
OBVIOUS

\* Behind some elements three times at most one more: each stands behind
\* those before it, and there is nothing else.
LEMMA FourAt ==
  ASSUME NEW S, NEW m \in Seq(S), NEW l \in Seq(S), NEW k \in Seq(S), NEW r \in Seq(S),
         Len(l) \in 0..1, Len(k) \in 0..1, Len(r) \in 0..1
  PROVE  LET all == m \o ((l \o k) \o r) IN
         /\ all \in Seq(S)
         /\ Len(all) = Len(m) + Len(l) + Len(k) + Len(r)
         /\ \A i \in 1..Len(m) : all[i] = m[i]
         /\ Len(l) = 1 => all[Len(m) + 1] = l[1]
         /\ Len(k) = 1 => all[Len(m) + (Len(l) + 1)] = k[1]
         /\ Len(r) = 1 => all[Len(m) + (Len(l) + Len(k) + 1)] = r[1]
<1> DEFINE lk == l \o k
           lkr == lk \o r
           all == m \o ((l \o k) \o r)
<1>0. Len(m) \in Nat /\ Len(l) \in Nat /\ Len(k) \in Nat /\ Len(r) \in Nat
  OBVIOUS
<1>1. /\ lk \in Seq(S) /\ Len(lk) = Len(l) + Len(k)
      /\ \A i \in 1..Len(l) : lk[i] = l[i]
      /\ Len(k) = 1 => lk[Len(l) + 1] = k[1]
  BY OneMoreAt, ZenonT(40)
<1> HIDE DEF lk
<1>2. /\ lkr \in Seq(S) /\ Len(lkr) = Len(lk) + Len(r)
      /\ \A i \in 1..Len(lk) : lkr[i] = lk[i]
      /\ Len(r) = 1 => lkr[Len(lk) + 1] = r[1]
  BY <1>1, OneMoreAt, ZenonT(40)
<1> HIDE DEF lkr
<1>3. /\ m \o lkr \in Seq(S) /\ Len(m \o lkr) = Len(m) + Len(lkr)
      /\ \A i \in 1..Len(m) : (m \o lkr)[i] = m[i]
      /\ \A i \in 1..Len(lkr) : (m \o lkr)[Len(m) + i] = lkr[i]
  <2>1. lkr \in Seq(S) /\ m \in Seq(S)
    BY <1>2
  <2>2. /\ m \o lkr \in Seq(S) /\ Len(m \o lkr) = Len(m) + Len(lkr)
        /\ \A i \in 1..Len(m) : (m \o lkr)[i] = m[i]
    BY <2>1, ConcatAt, Zenon
  <2>3. \A i \in 1..Len(lkr) : (m \o lkr)[Len(m) + i] = lkr[i]
    BY <2>1, SMTT(30)
  <2> QED
    BY <2>2, <2>3
<1>4. all = m \o lkr
  BY DEF lkr, lk
<1> HIDE DEF all
<1>5. Len(lkr) = Len(l) + Len(k) + Len(r)
  BY <1>0, <1>1, <1>2
<1>6. all \in Seq(S) /\ Len(all) = Len(m) + Len(l) + Len(k) + Len(r)
  <2>1. Len(m) + Len(lkr) = Len(m) + Len(l) + Len(k) + Len(r)
    BY <1>0, <1>5
  <2> QED
    BY <1>3, <1>4, <2>1, Zenon
<1>7. Len(l) = 1 => all[Len(m) + 1] = l[1]
  <2>1. Len(l) = 1 => 1 \in 1..Len(l) /\ 1 \in 1..Len(lk) /\ 1 \in 1..Len(lkr)
    BY <1>0, <1>1, <1>5
  <2> QED
    BY <1>1, <1>2, <1>3, <1>4, <2>1, Zenon
<1>8. Len(k) = 1 => all[Len(m) + (Len(l) + 1)] = k[1]
  <2>1. Len(k) = 1 => Len(l) + 1 \in 1..Len(lk) /\ Len(l) + 1 \in 1..Len(lkr)
    BY <1>0, <1>1, <1>5
  <2> QED
    BY <1>1, <1>2, <1>3, <1>4, <2>1, Zenon
<1>9. Len(r) = 1 => all[Len(m) + (Len(l) + Len(k) + 1)] = r[1]
  <2>1. Len(r) = 1 => Len(l) + Len(k) + 1 \in 1..Len(lkr)
    BY <1>0, <1>5
  <2> QED
    BY <1>1, <1>2, <1>3, <1>4, <2>1, Zenon
<1> QED
  BY <1>3, <1>4, <1>6, <1>7, <1>8, <1>9, Zenon DEF all

\* Where three elements are, each of which is there or not.
LEMMA Places ==
  ASSUME NEW n \in Int, NEW a \in 0..1, NEW b \in 0..1, NEW c \in 0..1,
         n = 1 + a + b + c
  PROVE  /\ n \in 1..4
         /\ a = 1 => 2 \in 1..n
         /\ b = 1 => 2 + a \in 1..n
         /\ c = 1 => 2 + a + b \in 1..n
         /\ \A i \in 2..n :
              (a = 1 /\ i = 2) \/ (b = 1 /\ i = 2 + a) \/ (c = 1 /\ i = 2 + a + b)
OBVIOUS

\* Of a mask one looks at bits, and a bit is set or not.
LEMMA HasIsBoolean == \A mask, b : Has(mask, b) \in BOOLEAN
BY DEF Has

-----------------------------------------------------------------------------
(* The calls of one pointer message                                        *)

\* A flip of one button is at most one call.
LEMMA FlipCalls ==
  ASSUME NEW mask, NEW b \in ButtonSet
  PROVE  /\ Flip(mask, b) \in Seq(Calls) /\ Len(Flip(mask, b)) \in 0..1
         /\ Len(Flip(mask, b)) = 1 <=> Has(mask, b) # Has(last_buttons, b)
         /\ Len(Flip(mask, b)) = 1
              => Flip(mask, b)[1] = Call("button", b, Has(mask, b))
<1>1. Call("button", b, Has(mask, b)) \in Calls
  BY HasIsBoolean DEF Calls
<1> DEFINE c == Call("button", b, Has(mask, b))
<1>2. Flip(mask, b) = IF Has(mask, b) # Has(last_buttons, b) THEN <<c>> ELSE <<>>
  BY DEF Flip
<1> HIDE DEF c
<1> QED
  BY <1>1, <1>2 DEF c

\* After the position come the calls of the buttons that changed, and no other.
LEMMA PointerCallsAre ==
  ASSUME NEW msg \in PointerMsgs
  PROVE  /\ PointerCalls(msg) \in Seq(Calls)
         /\ Len(PointerCalls(msg)) \in 1..4
         /\ PointerCalls(msg)[1] = Call("position", "x", c_short(msg.x))
         /\ \A i \in 2..Len(PointerCalls(msg)) : \E b \in ButtonSet :
              /\ Has(msg.buttons, b) # Has(last_buttons, b)
              /\ PointerCalls(msg)[i] = Call("button", b, Has(msg.buttons, b))
         /\ \A b \in ButtonSet : Has(msg.buttons, b) # Has(last_buttons, b) =>
              \E i \in 1..Len(PointerCalls(msg)) :
                PointerCalls(msg)[i] = Call("button", b, Has(msg.buttons, b))
<1> DEFINE m == Move(msg.x)
           l == Flip(msg.buttons, BUTTON_LEFT)
           k == Flip(msg.buttons, BUTTON_MIDDLE)
           r == Flip(msg.buttons, BUTTON_RIGHT)
           all == PointerCalls(msg)
<1>1. all = m \o ((l \o k) \o r)
  BY DEF PointerCalls, Transitions
<1>2. /\ m \in Seq(Calls) /\ Len(m) = 1
      /\ m[1] = Call("position", "x", c_short(msg.x))
  <2>1. Call("position", "x", c_short(msg.x)) \in Calls
    BY DEF PointerMsgs, Calls
  <2> QED
    BY <2>1 DEF Move
<1>3. ButtonSet = {BUTTON_LEFT, BUTTON_MIDDLE, BUTTON_RIGHT}
  BY DEF ButtonSet
<1>4. /\ l \in Seq(Calls) /\ Len(l) \in 0..1
      /\ k \in Seq(Calls) /\ Len(k) \in 0..1
      /\ r \in Seq(Calls) /\ Len(r) \in 0..1
  BY <1>3, FlipCalls
<1>5. /\ all \in Seq(Calls)
      /\ Len(all) = Len(m) + Len(l) + Len(k) + Len(r)
      /\ \A i \in 1..Len(m) : all[i] = m[i]
      /\ Len(l) = 1 => all[Len(m) + 1] = l[1]
      /\ Len(k) = 1 => all[Len(m) + (Len(l) + 1)] = k[1]
      /\ Len(r) = 1 => all[Len(m) + (Len(l) + Len(k) + 1)] = r[1]
  <2> DEFINE four == m \o ((l \o k) \o r)
  <2> HIDE DEF m, l, k, r, all
  <2>1. /\ m \in Seq(Calls) /\ l \in Seq(Calls) /\ k \in Seq(Calls) /\ r \in Seq(Calls)
        /\ Len(l) \in 0..1 /\ Len(k) \in 0..1 /\ Len(r) \in 0..1
    BY <1>2, <1>4, Zenon
  <2>2. four \in Seq(Calls) /\ Len(four) = Len(m) + Len(l) + Len(k) + Len(r)
    BY ONLY <2>1, FourAt, SMT
  <2>3. \A i \in 1..Len(m) : four[i] = m[i]
    BY ONLY <2>1, FourAt, SMT
  <2>4. Len(l) = 1 => four[Len(m) + 1] = l[1]
    BY ONLY <2>1, FourAt, SMT
  <2>5. Len(k) = 1 => four[Len(m) + (Len(l) + 1)] = k[1]
    BY ONLY <2>1, FourAt, SMT
  <2>6. Len(r) = 1 => four[Len(m) + (Len(l) + Len(k) + 1)] = r[1]
    BY ONLY <2>1, FourAt, SMT
  <2> QED
    BY <1>1, <2>2, <2>3, <2>4, <2>5, <2>6, Zenon
<1> HIDE DEF m, l, k, r, all
<1>6. Len(all) \in Int /\ Len(all) = 1 + Len(l) + Len(k) + Len(r)
  <2>1. Len(all) \in Int
    BY <1>5
  <2> QED
    BY <1>2, <1>5, <2>1, Zenon
<1>7. /\ Len(l) = 1 => 2 \in 1..Len(all) /\ all[2] = l[1]
      /\ Len(k) = 1 => 2 + Len(l) \in 1..Len(all) /\ all[2 + Len(l)] = k[1]
      /\ Len(r) = 1 => /\ 2 + Len(l) + Len(k) \in 1..Len(all)
                       /\ all[2 + Len(l) + Len(k)] = r[1]
  <2>1. /\ Len(l) = 1 => 2 \in 1..Len(all)
        /\ Len(k) = 1 => 2 + Len(l) \in 1..Len(all)
        /\ Len(r) = 1 => 2 + Len(l) + Len(k) \in 1..Len(all)
    BY <1>4, <1>6, Places, ZenonT(40)
  <2>2. /\ Len(m) + 1 = 2 /\ Len(m) + (Len(l) + 1) = 2 + Len(l)
        /\ Len(m) + (Len(l) + Len(k) + 1) = 2 + Len(l) + Len(k)
    <3> DEFINE a == Len(l)
               b == Len(k)
               u == Len(m)
    <3>1. u = 1 /\ a \in 0..1 /\ b \in 0..1
      BY <1>2, <1>4, Zenon
    <3> HIDE DEF a, b, u
    <3>2. u + 1 = 2 /\ u + (a + 1) = 2 + a /\ u + (a + b + 1) = 2 + a + b
      BY <3>1
    <3> QED
      BY <3>2, Zenon DEF a, b, u
  <2> QED
    BY <1>5, <2>1, <2>2, Zenon
<1>8. \A i \in 2..Len(all) :
        \/ Len(l) = 1 /\ i = 2
        \/ Len(k) = 1 /\ i = 2 + Len(l)
        \/ Len(r) = 1 /\ i = 2 + Len(l) + Len(k)
  BY <1>4, <1>6, Places, Zenon
<1>9. Len(all) \in 1..4
  BY <1>4, <1>6, Places, Zenon
<1>10. all[1] = m[1]
  <2>1. 1 \in 1..Len(m)
    BY <1>2
  <2> QED
    BY <1>5, <2>1, Zenon
<1> DEFINE Changed(b) == Has(msg.buttons, b) # Has(last_buttons, b)
           Call_(b) == Call("button", b, Has(msg.buttons, b))
<1>11. /\ Len(l) = 1 <=> Changed(BUTTON_LEFT)
       /\ Len(l) = 1 => l[1] = Call_(BUTTON_LEFT)
       /\ Len(k) = 1 <=> Changed(BUTTON_MIDDLE)
       /\ Len(k) = 1 => k[1] = Call_(BUTTON_MIDDLE)
       /\ Len(r) = 1 <=> Changed(BUTTON_RIGHT)
       /\ Len(r) = 1 => r[1] = Call_(BUTTON_RIGHT)
  BY <1>3, FlipCalls DEF l, k, r
<1> HIDE DEF Changed, Call_
<1>12. ASSUME NEW i \in 2..Len(all)
       PROVE  \E b \in ButtonSet : Changed(b) /\ all[i] = Call_(b)
  BY <1>3, <1>7, <1>8, <1>11, Zenon
<1>13. ASSUME NEW b \in ButtonSet, Changed(b)
       PROVE  \E i \in 1..Len(all) : all[i] = Call_(b)
  BY <1>3, <1>7, <1>11, <1>13, Zenon
<1> QED
  BY <1>2, <1>5, <1>9, <1>10, <1>12, <1>13, Zenon DEF Changed, Call_, all

-----------------------------------------------------------------------------
(* Types                                                                   *)

Msgs == PointerMsgs \cup WheelMsgs \cup KeyMsgs

\* Taking a message: it is the first one, and the others move up.
LEMMA TakesFirst ==
  ASSUME TypeOK, NEW kind, Takes(kind)
  PROVE  /\ calls = <<>> /\ inbox \in Seq(Msgs) /\ inbox # <<>>
         /\ Head(inbox) = inbox[1] /\ inbox[1] \in Msgs /\ inbox[1].kind = kind
         /\ Len(inbox) \in Nat \ {0} /\ Len(inbox') = Len(inbox) - 1
         /\ inbox' \in Seq(Msgs)
         /\ \A i \in 1..Len(inbox') : inbox'[i] = inbox[i + 1]
<1>1. inbox \in Seq(Msgs) /\ inbox # <<>> /\ inbox' = Tail(inbox) /\ calls = <<>>
      /\ Head(inbox).kind = kind
  BY DEF TypeOK, Takes, Msgs
<1> HIDE DEF Msgs
<1> QED
  BY <1>1, TailAt

\* Posting a message: it is the last one, and the others stay.
LEMMA PostsLast ==
  ASSUME TypeOK, NEW msg \in Msgs, Posts(msg)
  PROVE  /\ inbox \in Seq(Msgs) /\ inbox' \in Seq(Msgs)
         /\ Len(inbox) \in Nat /\ Len(inbox') = Len(inbox) + 1
         /\ \A i \in 1..Len(inbox) : inbox'[i] = inbox[i]
         /\ inbox'[Len(inbox) + 1] = msg
         /\ UNCHANGED <<last_buttons, calls, live, remoteVars, historyVars>>
<1>1. inbox \in Seq(Msgs) /\ inbox' = Append(inbox, msg)
      /\ UNCHANGED <<last_buttons, calls, live, remoteVars, historyVars>>
  BY DEF TypeOK, Posts, Msgs
<1> HIDE DEF Msgs
<1> QED
  BY <1>1, AppendAt

\* A call that is made is the first one, and the others move up.
LEMMA MakesFirst ==
  ASSUME TypeOK, calls # <<>>, calls' = Tail(calls)
  PROVE  /\ Head(calls) = calls[1] /\ calls[1] \in Calls
         /\ Len(calls) \in 1..4 /\ Len(calls') = Len(calls) - 1
         /\ calls' \in Seq(Calls)
         /\ \A i \in 1..Len(calls') : calls'[i] = calls[i + 1]
<1>1. calls \in Seq(Calls) /\ Len(calls) <= 4
  BY DEF TypeOK
<1>2. /\ Tail(calls) \in Seq(Calls) /\ Head(calls) = calls[1] /\ Head(calls) \in Calls
      /\ Len(calls) \in Nat \ {0} /\ Len(Tail(calls)) = Len(calls) - 1
      /\ \A i \in 1..(Len(calls) - 1) : Tail(calls)[i] = calls[i + 1]
  <2> HIDE DEF Calls
  <2> QED
    BY <1>1, TailAt
<1>3. Len(calls) \in 1..4
  BY <1>1, <1>2
<1> QED
  BY <1>2, <1>3

\* The library is asked to scroll by what a c_short holds.
LEMMA AmountFits ==
  ASSUME NEW dy \in Int, Amount(dy) # 0
  PROVE  Call("scroll", "y", Amount(dy)) \in Calls
<1>1. ShortMax \in Nat
  BY InputAssumption DEF ShortMax
<1>2. Clamp(-dy) \in -2 * ShortMax..2 * ShortMax
  BY <1>1 DEF Clamp
<1>3. Amount(dy) \in -ShortMax..ShortMax
  BY <1>1, <1>2 DEF Amount, Cast
<1> QED
  BY <1>3 DEF Calls

\* What the user does keeps the types.
LEMMA UserType ==
  ASSUME TypeOK, NEW msg \in Msgs, Posts(msg),
         pointer' \in ButtonMasks \cup {0}, position' \in Xs \cup {0},
         scrolled' \in Int, held' \subseteq Codes
  PROVE  TypeOK'
<1>1. inbox' \in Seq(Msgs) /\ Len(inbox') <= MaxInFlight
  BY PostsLast, InputAssumption DEF Posts
<1>2. messages' \in 0..MaxMessages
  BY InputAssumption DEF Posts, TypeOK
<1> QED
  BY <1>1, <1>2 DEF Posts, TypeOK, Msgs, remoteVars, historyVars

\* Every step keeps the types.
LEMMA TypeStep == TypeOK /\ [Next]_vars => TypeOK'
<1> SUFFICES ASSUME TypeOK, [Next]_vars PROVE TypeOK'
  OBVIOUS
<1>1. ASSUME NEW x \in Xs, NEW mask \in ButtonMasks, UserPointer(x, mask)
      PROVE  TypeOK'
  <2>1. [kind |-> "pointer", x |-> x, buttons |-> mask] \in Msgs
    BY DEF Msgs, PointerMsgs
  <2> QED
    BY <1>1, <2>1, UserType DEF UserPointer, TypeOK
<1>2. ASSUME NEW dy \in WheelDeltas, UserWheel(dy)
      PROVE  TypeOK'
  <2>1. [kind |-> "wheel", dy |-> dy] \in Msgs
    BY DEF Msgs, WheelMsgs
  <2>2. scrolled' \in Int
    BY <1>2, InputAssumption DEF UserWheel, TypeOK
  <2> QED
    BY <1>2, <2>1, <2>2, UserType DEF UserWheel, TypeOK
<1>3. ASSUME NEW code \in Codes, NEW down \in BOOLEAN, UserKey(code, down)
      PROVE  TypeOK'
  <2>1. [kind |-> "key", code |-> code, down |-> down] \in Msgs
    BY DEF Msgs, KeyMsgs
  <2>2. held' \subseteq Codes
    BY <1>3 DEF UserKey, TypeOK
  <2> QED
    BY <1>3, <2>1, <2>2, UserType DEF UserKey, TypeOK
<1>4. CASE SendPointer
  <2>1. /\ Head(inbox) \in PointerMsgs /\ inbox' \in Seq(Msgs)
        /\ Len(inbox') <= MaxInFlight
    BY <1>4, TakesFirst, InputAssumption, SMTT(30)
       DEF SendPointer, TypeOK, Msgs, WheelMsgs, KeyMsgs
  <2>2. calls' \in Seq(Calls) /\ Len(calls') <= 4
    <3>1. PointerCalls(Head(inbox)) \in Seq(Calls)
          /\ Len(PointerCalls(Head(inbox))) <= 4
      <4> DEFINE n == Len(PointerCalls(Head(inbox)))
      <4>1. PointerCalls(Head(inbox)) \in Seq(Calls) /\ n \in 1..4
        BY <2>1, PointerCallsAre
      <4> HIDE DEF n
      <4>2. n <= 4
        BY <4>1
      <4> QED
        BY <4>1, <4>2, Zenon DEF n
    <3>2. calls' = PointerCalls(Head(inbox))
      BY <1>4 DEF SendPointer
    <3> QED
      BY <3>1, <3>2, Zenon
  <2>3. last_buttons' \in ButtonMasks \cup {0} /\ target' \in Xs \cup {0}
    BY <1>4, <2>1 DEF SendPointer, PointerMsgs, Swapped
  <2>4. UNCHANGED <<userVars, live, remoteVars, slack, missed>>
        /\ takenLive' \in BOOLEAN
    BY <1>4 DEF SendPointer
  <2> QED
    BY <2>1, <2>2, <2>3, <2>4 DEF TypeOK, Msgs, userVars, remoteVars
<1>5. CASE SendWheel
  <2>1. /\ Head(inbox) \in WheelMsgs /\ inbox' \in Seq(Msgs)
        /\ Len(inbox') <= MaxInFlight
    BY <1>5, TakesFirst, InputAssumption, SMTT(30)
       DEF SendWheel, TypeOK, Msgs, PointerMsgs, KeyMsgs
  <2> DEFINE dy == Head(inbox).dy
  <2>2. dy \in Int
    BY <2>1, InputAssumption DEF WheelMsgs
  <2> HIDE DEF dy
  <2>3. calls' \in Seq(Calls) /\ Len(calls') <= 4
    <3>1. calls' = IF Amount(dy) = 0 THEN <<>> ELSE <<Call("scroll", "y", Amount(dy))>>
      BY <1>5 DEF SendWheel, dy
    <3>2. CASE Amount(dy) = 0
      BY <3>1, <3>2
    <3>3. CASE Amount(dy) # 0
      <4>1. Call("scroll", "y", Amount(dy)) \in Calls
        BY <2>2, <3>3, AmountFits
      <4> QED
        BY <3>1, <3>3, <4>1
    <3> QED
      BY <3>2, <3>3
  <2>4. slack' \in Nat
    <3>1. Slack(dy) \in Nat /\ slack' = slack + Slack(dy)
      BY <1>5, <2>2, InputAssumption DEF SendWheel, Slack, ShortMax, dy
    <3> QED
      BY <3>1 DEF TypeOK
  <2>5. UNCHANGED <<userVars, last_buttons, live, remoteVars, target, missed, takenLive>>
    BY <1>5 DEF SendWheel
  <2> QED
    BY <2>1, <2>3, <2>4, <2>5 DEF TypeOK, Msgs, userVars, remoteVars
<1>6. CASE SendKey
  <2>1. /\ Head(inbox) \in KeyMsgs /\ inbox' \in Seq(Msgs)
        /\ Len(inbox') <= MaxInFlight
    BY <1>6, TakesFirst, InputAssumption, SMTT(30)
       DEF SendKey, TypeOK, Msgs, PointerMsgs, WheelMsgs
  <2> DEFINE msg == Head(inbox)
  <2>2. calls' \in Seq(Calls) /\ Len(calls') <= 4
    <3>1. CASE Unmapped(msg.code)
      BY <1>6, <3>1 DEF SendKey
    <3>2. CASE ~Unmapped(msg.code)
      <4>1. KeyCall(msg) \in Calls
        BY <2>1, <3>2 DEF KeyMsgs, KeyCall, Calls, VirtualKeys, Unmapped
      <4>2. calls' = <<KeyCall(msg)>>
        BY <1>6, <3>2 DEF SendKey
      <4> QED
        BY <4>1, <4>2
    <3> QED
      BY <3>1, <3>2
  <2>3. UNCHANGED <<userVars, last_buttons, live, remoteVars, historyVars>>
    BY <1>6 DEF SendKey
  <2> QED
    BY <2>1, <2>2, <2>3 DEF TypeOK, Msgs, userVars, remoteVars, historyVars
<1>7. CASE LiSend
  <2>1. /\ Head(calls) \in Calls /\ calls' \in Seq(Calls) /\ Len(calls') <= 4
    BY <1>7, MakesFirst DEF LiSend
  <2>2. remoteButtons' \subseteq ButtonSet /\ remoteKeys' \subseteq VirtualKeys
        /\ remoteX' \in Int /\ remoteScroll' \in Int /\ missed' \in BOOLEAN
    <3>1. CASE UNCHANGED remoteVars /\ missed' = TRUE
      BY <3>1 DEF TypeOK, remoteVars
    <3>2. CASE Arrives(Head(calls)) /\ UNCHANGED missed
      <4> DEFINE c == Head(calls)
      <4>1. /\ c.what = "button" => c.subject \in ButtonSet
            /\ c.what = "key" => c.subject \in VirtualKeys
            /\ c.what = "position" => c.value \in Int
            /\ c.what = "scroll" => c.value \in Int
        BY <2>1, InputAssumption DEF Calls, Call, c_short, ShortMax
      <4> HIDE DEF c
      <4>2. Arrives(c) /\ UNCHANGED missed
        BY <3>2 DEF c
      <4> QED
        BY <4>1, <4>2 DEF Arrives, Pressed, TypeOK
    <3> QED
      BY <1>7, <3>1, <3>2 DEF LiSend
  <2>3. UNCHANGED <<userVars, inbox, last_buttons, live, target, slack, takenLive>>
    BY <1>7 DEF LiSend
  <2> QED
    BY <2>1, <2>2, <2>3 DEF TypeOK, userVars
<1>8. CASE StreamUp \/ StreamDown
  BY <1>8 DEF StreamUp, StreamDown, TypeOK, userVars, remoteVars, historyVars
<1>9. CASE UNCHANGED vars
  BY <1>9 DEF vars, userVars, remoteVars, historyVars, TypeOK
<1> QED
  BY <1>1, <1>2, <1>3, <1>4, <1>5, <1>6, <1>7, <1>8, <1>9 DEF Next, Rest

\* The initial state has its types.
LEMMA TypeInit == Init => TypeOK
<1> SUFFICES ASSUME Init PROVE TypeOK
  OBVIOUS
<1>1. /\ inbox \in Seq(PointerMsgs \cup WheelMsgs \cup KeyMsgs)
      /\ Len(inbox) <= MaxInFlight
      /\ calls \in Seq(Calls) /\ Len(calls) <= 4
  BY InputAssumption DEF Init
<1>2. /\ pointer \in ButtonMasks \cup {0} /\ position \in Xs \cup {0}
      /\ scrolled \in Int /\ held \subseteq Codes
      /\ messages \in 0..MaxMessages
      /\ last_buttons \in ButtonMasks \cup {0}
      /\ live \in {"before", "live", "after"}
      /\ remoteButtons \subseteq ButtonSet /\ remoteKeys \subseteq VirtualKeys
      /\ remoteX \in Int /\ remoteScroll \in Int
      /\ target \in Xs \cup {0} /\ slack \in Nat
  BY InputAssumption DEF Init
<1>3. missed \in BOOLEAN /\ takenLive \in BOOLEAN
  BY DEF Init
<1> QED
  BY <1>1, <1>2, <1>3 DEF TypeOK

\* Every variable of the input path keeps its type, no handler makes more than
\* four calls, and the library is never asked to scroll by nothing.
THEOREM TypeCorrect == Spec => []TypeOK
BY TypeInit, TypeStep, PTL DEF Spec

-----------------------------------------------------------------------------
(* What a handler is about to do                                           *)

\* The call that presses or releases a button.
LEMMA ButtonCall ==
  ASSUME NEW mask, NEW b, NEW c, c = Call("button", b, Has(mask, b))
  PROVE  c.what = "button" /\ c.subject = b /\ (c.value <=> Has(mask, b))
BY HasIsBoolean DEF Call

\* The calls of a pointer message, in the terms of the next state.
LEMMA SentPointer ==
  ASSUME TypeOK, SendPointer
  PROVE  /\ inbox[1].kind = "pointer"
         /\ last_buttons' = inbox[1].buttons /\ target' = inbox[1].x
         /\ Len(calls') \in 1..4
         /\ calls'[1].what = "position" /\ calls'[1].value = c_short(target')
         /\ \A i \in 2..Len(calls') :
              /\ calls'[i].what = "button" /\ calls'[i].subject \in ButtonSet
              /\ calls'[i].value <=> Has(last_buttons', calls'[i].subject)
         /\ \A b \in ButtonSet : ~(Has(last_buttons', b) <=> Has(last_buttons, b)) =>
              \E i \in 1..Len(calls') :
                /\ calls'[i].what = "button" /\ calls'[i].subject = b
                /\ calls'[i].value <=> Has(last_buttons', b)
<1> DEFINE msg == Head(inbox)
<1>1. /\ msg = inbox[1] /\ msg \in PointerMsgs /\ inbox[1].kind = "pointer"
  BY TakesFirst DEF SendPointer, Msgs, WheelMsgs, KeyMsgs
<1>2. /\ calls' = PointerCalls(msg)
      /\ last_buttons' = msg.buttons /\ target' = msg.x
  BY DEF SendPointer, Swapped
<1> HIDE DEF msg
<1>3. Len(calls') \in 1..4 /\ calls'[1] = Call("position", "x", c_short(target'))
  BY <1>1, <1>2, PointerCallsAre, Zenon
<1>4. \A i \in 2..Len(calls') : \E b \in ButtonSet :
        calls'[i] = Call("button", b, Has(last_buttons', b))
  BY <1>1, <1>2, PointerCallsAre, Zenon
<1>5. \A b \in ButtonSet : Has(last_buttons', b) # Has(last_buttons, b) =>
        \E i \in 1..Len(calls') :
          calls'[i] = Call("button", b, Has(last_buttons', b))
  BY <1>1, <1>2, PointerCallsAre, Zenon
<1>6. calls'[1].what = "position" /\ calls'[1].value = c_short(target')
  BY <1>3 DEF Call
<1>7. ASSUME NEW i \in 2..Len(calls')
      PROVE  /\ calls'[i].what = "button" /\ calls'[i].subject \in ButtonSet
             /\ calls'[i].value <=> Has(last_buttons', calls'[i].subject)
  <2>1. PICK b \in ButtonSet : calls'[i] = Call("button", b, Has(last_buttons', b))
    BY <1>4
  <2>2. calls'[i].what = "button" /\ calls'[i].subject = b
        /\ (calls'[i].value <=> Has(last_buttons', b))
    BY <2>1, ButtonCall, Zenon
  <2> QED
    BY <2>2
<1>8. ASSUME NEW b \in ButtonSet, ~(Has(last_buttons', b) <=> Has(last_buttons, b))
      PROVE  \E i \in 1..Len(calls') :
               /\ calls'[i].what = "button" /\ calls'[i].subject = b
               /\ calls'[i].value <=> Has(last_buttons', b)
  <2>1. Has(last_buttons', b) # Has(last_buttons, b)
    BY <1>8, HasIsBoolean, Zenon
  <2>2. PICK i \in 1..Len(calls') : calls'[i] = Call("button", b, Has(last_buttons', b))
    BY <1>5, <2>1, Zenon
  <2>3. calls'[i].what = "button" /\ calls'[i].subject = b
        /\ (calls'[i].value <=> Has(last_buttons', b))
    BY <2>2, ButtonCall, Zenon
  <2> QED
    BY <2>3, Zenon
<1> QED
  BY <1>1, <1>2, <1>3, <1>6, <1>7, <1>8, Zenon

-----------------------------------------------------------------------------
(* Outside the stream                                                      *)

\* Outside the stream Sunshine holds nothing.
LEMMA ReleasedStep == TypeOK /\ ReleasedInv /\ [Next]_vars => ReleasedInv'
<1> SUFFICES ASSUME TypeOK, ReleasedInv, [Next]_vars PROVE ReleasedInv'
  OBVIOUS
<1> USE DEF ReleasedInv
<1>1. CASE StreamUp \/ StreamDown
  BY <1>1 DEF StreamUp, StreamDown
<1>2. CASE LiSend
  BY <1>2 DEF LiSend, remoteVars
<1>3. CASE UNCHANGED <<remoteVars, live>>
  BY <1>3 DEF remoteVars
<1> QED
  BY <1>1, <1>2, <1>3
     DEF Next, UserPointer, UserWheel, UserKey, Posts, SendPointer, SendWheel, SendKey,
         Rest, vars

-----------------------------------------------------------------------------
(* Keys                                                                    *)

\* Of a key that no finger holds down, every press is followed by a release.
LEMMA KeysStep == TypeOK /\ ReleasedInv /\ KeysInv /\ [Next]_vars => KeysInv'
<1> SUFFICES ASSUME TypeOK, ReleasedInv, KeysInv, [Next]_vars,
                    NEW vk \in VirtualKeys, vk \notin KeysOf(held)'
             PROVE  /\ \A i \in 1..Len(inbox') :
                         IsDown(inbox'[i], vk) => UpAfter(i, vk)'
                    /\ Presses("key", vk)' => UpAfter(0, vk)'
                    /\ vk \in remoteKeys'
                         => Releases("key", vk)' \/ UpAfter(0, vk)'
  BY DEF KeysInv
<1>Q. ASSUME vk \notin KeysOf(held)
      PROVE  /\ \A i \in 1..Len(inbox) : IsDown(inbox[i], vk) => UpAfter(i, vk)
             /\ Presses("key", vk) => UpAfter(0, vk)
             /\ vk \in remoteKeys => Releases("key", vk) \/ UpAfter(0, vk)
  BY <1>Q DEF KeysInv
\* Posting
<1>1. ASSUME NEW msg \in Msgs, Posts(msg), vk \notin KeysOf(held),
             ~IsDown(msg, vk)
      PROVE  /\ \A i \in 1..Len(inbox') :
                  IsDown(inbox'[i], vk) => UpAfter(i, vk)'
             /\ Presses("key", vk)' => UpAfter(0, vk)'
             /\ vk \in remoteKeys'
                  => Releases("key", vk)' \/ UpAfter(0, vk)'
  <2>1. /\ Len(inbox) \in Nat /\ Len(inbox') = Len(inbox) + 1
        /\ \A i \in 1..Len(inbox) : inbox'[i] = inbox[i]
        /\ inbox'[Len(inbox) + 1] = msg
        /\ calls' = calls /\ remoteKeys' = remoteKeys
    BY <1>1, PostsLast DEF remoteVars
  <2>2. \A i \in 0..Len(inbox) : UpAfter(i, vk) => UpAfter(i, vk)'
    BY <2>1 DEF UpAfter
  <2>3. \A i \in 1..Len(inbox') : IsDown(inbox'[i], vk) => i \in 1..Len(inbox)
    BY <1>1, <2>1
  <2>4. 0 \in 0..Len(inbox) /\ \A i \in 1..Len(inbox) : i \in 0..Len(inbox)
    BY <2>1
  <2>5. Presses("key", vk)' = Presses("key", vk) /\ Releases("key", vk)' = Releases("key", vk)
    BY <2>1 DEF Presses, Releases
  <2> QED
    BY <1>1, <1>Q, <2>1, <2>2, <2>3, <2>4, <2>5, Zenon
<1>2. CASE \/ \E x \in Xs, mask \in ButtonMasks : UserPointer(x, mask)
           \/ \E dy \in WheelDeltas : UserWheel(dy)
  <2>1. PICK msg \in Msgs : Posts(msg) /\ msg.kind # "key"
    <3>1. ASSUME NEW x \in Xs, NEW mask \in ButtonMasks
          PROVE  [kind |-> "pointer", x |-> x, buttons |-> mask] \in Msgs
      BY DEF Msgs, PointerMsgs
    <3>2. ASSUME NEW dy \in WheelDeltas
          PROVE  [kind |-> "wheel", dy |-> dy] \in Msgs
      BY DEF Msgs, WheelMsgs
    <3> QED
      BY <1>2, <3>1, <3>2 DEF UserPointer, UserWheel
  <2>2. held' = held
    BY <1>2 DEF UserPointer, UserWheel
  <2> QED
    BY <2>1, <2>2, <1>1 DEF IsDown, IsUp
<1>3. ASSUME NEW code \in Codes, NEW down \in BOOLEAN, UserKey(code, down)
      PROVE  /\ \A i \in 1..Len(inbox') :
                  IsDown(inbox'[i], vk) => UpAfter(i, vk)'
             /\ Presses("key", vk)' => UpAfter(0, vk)'
             /\ vk \in remoteKeys'
                  => Releases("key", vk)' \/ UpAfter(0, vk)'
  <2> DEFINE msg == [kind |-> "key", code |-> code, down |-> down]
  <2>1. msg \in Msgs /\ Posts(msg)
    BY <1>3 DEF UserKey, Msgs, KeyMsgs
  <2>2. CASE down
    <3>1. held' = held \cup {code}
      BY <1>3, <2>2 DEF UserKey
    <3>2. vk \notin KeysOf(held) /\ vk_from_code(code) # vk
      BY <3>1 DEF KeysOf, VirtualKeys
    <3> QED
      BY <2>1, <3>2, <1>1 DEF IsDown, IsUp
  <2>3. CASE ~down /\ vk_from_code(code) # vk
    <3>1. held' = held \ {code}
      BY <1>3, <2>3 DEF UserKey
    <3>2. vk \notin KeysOf(held)
      BY <3>1, <2>3 DEF KeysOf
    <3> QED
      BY <2>1, <2>3, <3>2, <1>1 DEF IsDown, IsUp
  <2>4. CASE ~down /\ vk_from_code(code) = vk
    <3>1. /\ Len(inbox) \in Nat /\ Len(inbox') = Len(inbox) + 1
          /\ inbox'[Len(inbox) + 1] = msg
      BY <2>1, PostsLast
    <3>2. IsUp(msg, vk) /\ ~IsDown(msg, vk)
      BY <2>4 DEF IsDown, IsUp
    <3> HIDE DEF msg
    <3>3. \A i \in 0..Len(inbox) : UpAfter(i, vk)'
      BY <3>1, <3>2 DEF UpAfter
    <3>4. \A i \in 1..Len(inbox') : IsDown(inbox'[i], vk) => i \in 0..Len(inbox)
      BY <3>1, <3>2
    <3> QED
      BY <3>1, <3>3, <3>4
  <2> QED
    BY <2>2, <2>3, <2>4
\* Taking: what becomes of the message is among the calls.
<1>4. ASSUME NEW kind, Takes(kind), UNCHANGED <<held, remoteKeys>>,
             Presses("key", vk)' => IsDown(inbox[1], vk),
             IsUp(inbox[1], vk) => Releases("key", vk)'
      PROVE  /\ \A i \in 1..Len(inbox') :
                  IsDown(inbox'[i], vk) => UpAfter(i, vk)'
             /\ Presses("key", vk)' => UpAfter(0, vk)'
             /\ vk \in remoteKeys'
                  => Releases("key", vk)' \/ UpAfter(0, vk)'
  <2>1. /\ calls = <<>>
        /\ Len(inbox) \in Nat \ {0} /\ Len(inbox') = Len(inbox) - 1
        /\ \A i \in 1..Len(inbox') : inbox'[i] = inbox[i + 1]
    BY <1>4, TakesFirst
  <2>2. ASSUME NEW i \in 0..Len(inbox'), UpAfter(i + 1, vk)
        PROVE  UpAfter(i, vk)'
    <3>1. PICK j \in (i + 1 + 1)..Len(inbox) : IsUp(inbox[j], vk)
      BY <2>2 DEF UpAfter
    <3>2. j - 1 \in (i + 1)..Len(inbox') /\ inbox'[j - 1] = inbox[j]
      BY <2>1, <3>1
    <3> QED
      BY <3>1, <3>2 DEF UpAfter
  <2>3. vk \notin KeysOf(held)
    BY <1>4 DEF KeysOf
  <2>4. ~Releases("key", vk)
    BY <2>1 DEF Releases
  <2>5. \A i \in 1..Len(inbox') : i + 1 \in 1..Len(inbox) /\ i \in 0..Len(inbox')
    BY <2>1
  <2>6. 1 \in 1..Len(inbox) /\ 0 \in 0..Len(inbox') /\ 0 + 1 = 1
    BY <2>1
  <2>7. UpAfter(0, vk) => IsUp(inbox[1], vk) \/ UpAfter(1, vk)
    <3>1. ASSUME NEW j \in (0 + 1)..Len(inbox), IsUp(inbox[j], vk), j # 1
          PROVE  UpAfter(1, vk)
      <4>1. j \in (1 + 1)..Len(inbox)
        BY <2>1, <3>1
      <4> QED
        BY <3>1, <4>1 DEF UpAfter
    <3> QED
      BY <3>1 DEF UpAfter
  <2>8. UpAfter(1, vk) => UpAfter(0, vk)'
    BY <2>2, <2>6
  <2>9. ASSUME NEW i \in 1..Len(inbox'), IsDown(inbox'[i], vk)
        PROVE  UpAfter(i, vk)'
    BY <1>Q, <2>1, <2>2, <2>3, <2>5, <2>9
  <2>10. Presses("key", vk)' => UpAfter(0, vk)'
    BY <1>4, <1>Q, <2>3, <2>6, <2>8
  <2>11. vk \in remoteKeys' => Releases("key", vk)' \/ UpAfter(0, vk)'
    BY <1>4, <1>Q, <2>3, <2>4, <2>7, <2>8
  <2> QED
    BY <2>9, <2>10, <2>11
<1>5. CASE SendPointer
  <2>1. inbox[1].kind = "pointer" /\ Takes("pointer") /\ UNCHANGED <<held, remoteKeys>>
    BY <1>5, SentPointer DEF SendPointer, userVars, remoteVars
  <2>2. \A i \in 1..Len(calls') : calls'[i].what # "key"
    <3>1. Len(calls') \in 1..4 /\ calls'[1].what = "position"
          /\ \A i \in 2..Len(calls') : calls'[i].what = "button"
      BY <1>5, SentPointer
    <3>2. \A i \in 1..Len(calls') : i = 1 \/ i \in 2..Len(calls')
      BY <3>1
    <3> QED
      BY <3>1, <3>2
  <2>3. ~Presses("key", vk)'
    BY <2>2 DEF Presses
  <2> QED
    BY <2>1, <2>3, <1>4 DEF IsDown, IsUp
<1>6. CASE SendWheel
  <2>1. inbox[1].kind = "wheel" /\ Takes("wheel") /\ UNCHANGED <<held, remoteKeys>>
    BY <1>6, TakesFirst DEF SendWheel, userVars, remoteVars
  <2>2. ~Presses("key", vk)'
    <3>1. calls' = <<>> \/ calls' = <<Call("scroll", "y", Amount(Head(inbox).dy))>>
      BY <1>6 DEF SendWheel
    <3> QED
      BY <3>1 DEF Presses, Call
  <2> QED
    BY <2>1, <2>2, <1>4 DEF IsDown, IsUp
<1>7. CASE SendKey
  <2>1. /\ inbox[1].kind = "key" /\ inbox[1] \in KeyMsgs
        /\ Takes("key") /\ UNCHANGED <<held, remoteKeys>>
    BY <1>7, TakesFirst DEF SendKey, userVars, remoteVars, Msgs, PointerMsgs, WheelMsgs
  <2> DEFINE msg == inbox[1]
             c == KeyCall(msg)
  <2>2. calls' = IF Unmapped(msg.code) THEN <<>> ELSE <<c>>
    BY <1>7, <2>1, TakesFirst DEF SendKey
  <2>3. /\ c.what = "key" /\ c.subject = vk_from_code(msg.code)
        /\ c.value <=> msg.down
    BY <2>1 DEF KeyCall, Call, KeyMsgs
  <2>4. /\ c.subject = vk /\ c.value => IsDown(msg, vk)
        /\ IsUp(msg, vk) => c.subject = vk /\ ~c.value /\ ~Unmapped(msg.code)
    BY <2>1, <2>3 DEF IsDown, IsUp, Unmapped, VirtualKeys
  <2> HIDE DEF c, msg
  <2>5. Presses("key", vk)' => IsDown(msg, vk)
    BY <2>2, <2>4 DEF Presses
  <2>6. IsUp(msg, vk) => Releases("key", vk)'
    BY <2>2, <2>3, <2>4 DEF Releases
  <2> QED
    BY <2>1, <2>5, <2>6, <1>4 DEF msg
\* Calling
<1>8. CASE LiSend
  <2>1. /\ Len(calls) \in 1..4 /\ Len(calls') = Len(calls) - 1
        /\ \A i \in 1..Len(calls') : calls'[i] = calls[i + 1]
        /\ Head(calls) = calls[1]
    BY <1>8, MakesFirst DEF LiSend
  <2>2. UNCHANGED <<inbox, held>> /\ vk \notin KeysOf(held)
    BY <1>8 DEF LiSend, userVars, KeysOf
  <2>3. \A i : UpAfter(i, vk)' <=> UpAfter(i, vk)
    BY <2>2 DEF UpAfter
  <2>4. Presses("key", vk)' => Presses("key", vk)
    BY <2>1 DEF Presses
  <2>5. Releases("key", vk) =>
          \/ Releases("key", vk)'
          \/ calls[1].what = "key" /\ calls[1].subject = vk /\ ~calls[1].value
    <3> SUFFICES ASSUME NEW i \in 1..Len(calls), calls[i].what = "key",
                        calls[i].subject = vk, ~calls[i].value, i # 1
                 PROVE  Releases("key", vk)'
      BY DEF Releases
    <3>1. i - 1 \in 1..Len(calls') /\ calls'[i - 1] = calls[i]
      BY <2>1
    <3> QED
      BY <3>1 DEF Releases
  <2>6. CASE remoteKeys' = remoteKeys /\ remoteKeys = {}
    BY <2>2, <2>3, <2>4, <2>6, <1>Q
  <2>7. CASE Arrives(calls[1])
    <3>1. vk \in remoteKeys' =>
            \/ vk \in remoteKeys
                 /\ ~(calls[1].what = "key" /\ calls[1].subject = vk /\ ~calls[1].value)
            \/ calls[1].what = "key" /\ calls[1].subject = vk /\ calls[1].value
      BY <2>7 DEF Arrives, Pressed
    <3>2. calls[1].what = "key" /\ calls[1].subject = vk /\ calls[1].value
            => Presses("key", vk)
      BY <2>1 DEF Presses
    <3> QED
      BY <2>2, <2>3, <2>4, <2>5, <3>1, <3>2, <1>Q
  <2> QED
    BY <1>8, <2>1, <2>6, <2>7 DEF LiSend, remoteVars, ReleasedInv
<1>9. CASE UNCHANGED <<inbox, calls, held>> /\ (remoteKeys' = remoteKeys \/ remoteKeys' = {})
  <2>1. vk \notin KeysOf(held)
    BY <1>9 DEF KeysOf
  <2>2. \A i : UpAfter(i, vk)' <=> UpAfter(i, vk)
    BY <1>9 DEF UpAfter
  <2>3. Presses("key", vk)' = Presses("key", vk) /\ Releases("key", vk)' = Releases("key", vk)
    BY <1>9 DEF Presses, Releases
  <2> QED
    BY <1>9, <1>Q, <2>1, <2>2, <2>3
<1> QED
  BY <1>2, <1>3, <1>5, <1>6, <1>7, <1>8, <1>9
     DEF Next, StreamUp, StreamDown, Rest, vars, userVars, remoteVars

-----------------------------------------------------------------------------
(* The pointer                                                             *)

\* The last pointer message on its way is where the user's pointer is.
LEMMA PointerStep == TypeOK /\ PointerInv /\ [Next]_vars => PointerInv'
<1> SUFFICES ASSUME TypeOK, PointerInv, [Next]_vars PROVE PointerInv'
  OBVIOUS
<1>1. ASSUME NEW msg \in Msgs, Posts(msg),
             IF msg.kind = "pointer" THEN msg.buttons = pointer' /\ msg.x = position'
                                     ELSE pointer' = pointer /\ position' = position
      PROVE  PointerInv'
  <2>1. /\ Len(inbox) \in Nat /\ Len(inbox') = Len(inbox) + 1
        /\ \A i \in 1..Len(inbox) : inbox'[i] = inbox[i]
        /\ inbox'[Len(inbox) + 1] = msg
        /\ last_buttons' = last_buttons /\ target' = target
    BY <1>1, PostsLast DEF historyVars
  <2>2. \A i \in 1..Len(inbox) : i \in 1..Len(inbox')
    BY <2>1
  <2>3. \A i \in 1..Len(inbox') : i \in 1..Len(inbox) \/ i = Len(inbox) + 1
    BY <2>1
  <2>4. ASSUME NEW i \in 1..Len(inbox), IsLast(i)'
        PROVE  msg.kind # "pointer" /\ IsLast(i)
    <3>1. Len(inbox) + 1 \in (i + 1)..Len(inbox')
      BY <2>1
    <3>2. msg.kind # "pointer"
      BY <2>1, <2>4, <3>1 DEF IsLast
    <3>3. ASSUME NEW j \in (i + 1)..Len(inbox)
          PROVE  inbox[j].kind # "pointer"
      <4>1. j \in (i + 1)..Len(inbox') /\ j \in 1..Len(inbox)
        BY <2>1
      <4> QED
        BY <2>1, <2>4, <4>1 DEF IsLast
    <3> QED
      BY <2>1, <2>4, <3>2, <3>3 DEF IsLast
  <2>5. ASSUME NEW i \in 1..Len(inbox'), IsLast(i)', i = Len(inbox) + 1
        PROVE  msg.kind = "pointer" /\ inbox'[i] = msg
    BY <2>1, <2>5 DEF IsLast
  <2>6. Len(inbox) + 1 \in 1..Len(inbox')
    BY <2>1
  <2> QED
    BY <1>1, <2>1, <2>2, <2>3, <2>4, <2>5, <2>6 DEF PointerInv
<1>2. ASSUME NEW x \in Xs, NEW mask \in ButtonMasks, UserPointer(x, mask)
      PROVE  PointerInv'
  <2>1. [kind |-> "pointer", x |-> x, buttons |-> mask] \in Msgs
    BY DEF Msgs, PointerMsgs
  <2> QED
    BY <1>1, <1>2, <2>1 DEF UserPointer
<1>3. ASSUME NEW dy \in WheelDeltas, UserWheel(dy)
      PROVE  PointerInv'
  <2>1. [kind |-> "wheel", dy |-> dy] \in Msgs
    BY DEF Msgs, WheelMsgs
  <2> QED
    BY <1>1, <1>3, <2>1 DEF UserWheel
<1>4. ASSUME NEW code \in Codes, NEW down \in BOOLEAN, UserKey(code, down)
      PROVE  PointerInv'
  <2>1. [kind |-> "key", code |-> code, down |-> down] \in Msgs
    BY DEF Msgs, KeyMsgs
  <2> QED
    BY <1>1, <1>4, <2>1 DEF UserKey
<1>5. ASSUME NEW kind, Takes(kind), UNCHANGED <<pointer, position>>,
             IF inbox[1].kind = "pointer"
             THEN last_buttons' = inbox[1].buttons /\ target' = inbox[1].x
             ELSE UNCHANGED <<last_buttons, target>>
      PROVE  PointerInv'
  <2>1. /\ Len(inbox) \in Nat \ {0} /\ Len(inbox') = Len(inbox) - 1
        /\ \A i \in 1..Len(inbox') : inbox'[i] = inbox[i + 1]
    BY <1>5, TakesFirst
  <2>2. \A i \in 1..Len(inbox') : i + 1 \in 1..Len(inbox)
    BY <2>1
  <2>3. ASSUME NEW i \in 1..Len(inbox'), IsLast(i)'
        PROVE  IsLast(i + 1)
    <3>1. ASSUME NEW j \in (i + 1 + 1)..Len(inbox)
          PROVE  inbox[j].kind # "pointer"
      <4>1. j - 1 \in (i + 1)..Len(inbox') /\ j - 1 \in 1..Len(inbox') /\ j - 1 + 1 = j
        BY <2>1
      <4> QED
        BY <2>1, <2>3, <4>1 DEF IsLast
    <3> QED
      BY <2>1, <2>3, <3>1 DEF IsLast
  <2>4. ASSUME \A i \in 1..Len(inbox') : inbox'[i].kind # "pointer"
        PROVE  last_buttons' = pointer /\ target' = position
    <3>1. ASSUME NEW j \in (1 + 1)..Len(inbox)
          PROVE  inbox[j].kind # "pointer"
      <4>1. j - 1 \in 1..Len(inbox') /\ j - 1 + 1 = j
        BY <2>1
      <4> QED
        BY <2>1, <2>4, <4>1
    <3>2. 1 \in 1..Len(inbox)
          /\ \A j \in 1..Len(inbox) : j = 1 \/ j \in (1 + 1)..Len(inbox)
      BY <2>1
    <3>3. CASE inbox[1].kind = "pointer"
      BY <1>5, <3>1, <3>2, <3>3 DEF PointerInv, IsLast
    <3>4. CASE inbox[1].kind # "pointer"
      BY <1>5, <3>1, <3>2, <3>4 DEF PointerInv
    <3> QED
      BY <3>3, <3>4
  <2> QED
    BY <1>5, <2>1, <2>2, <2>3, <2>4 DEF PointerInv
<1>6. CASE SendPointer
  BY <1>5, <1>6, SentPointer DEF SendPointer, userVars
<1>7. CASE SendWheel
  BY <1>5, <1>7, TakesFirst DEF SendWheel, userVars
<1>8. CASE SendKey
  BY <1>5, <1>8, TakesFirst DEF SendKey, userVars, historyVars
<1>9. CASE UNCHANGED <<inbox, pointer, position, last_buttons, target>>
  BY <1>9 DEF PointerInv, IsLast
<1> QED
  BY <1>2, <1>3, <1>4, <1>6, <1>7, <1>8, <1>9
     DEF Next, LiSend, StreamUp, StreamDown, Rest, vars, userVars, historyVars

-----------------------------------------------------------------------------
(* The handler's other calls: about no button, and no position.            *)

\* The wheel and the keys make calls of their own kind.
LEMMA OtherCalls ==
  ASSUME TypeOK, SendWheel \/ SendKey
  PROVE  /\ calls = <<>>
         /\ \A i \in 1..Len(calls') : calls'[i].what \in {"scroll", "key"}
         /\ UNCHANGED <<last_buttons, live, missed, target, takenLive, remoteVars>>
<1>1. CASE SendWheel
  <2>1. calls' = <<>> \/ calls' = <<Call("scroll", "y", Amount(Head(inbox).dy))>>
    BY <1>1 DEF SendWheel
  <2>2. \A i \in 1..Len(calls') : calls'[i].what = "scroll"
    BY <2>1 DEF Call
  <2> QED
    BY <1>1, <2>2 DEF SendWheel, Takes
<1>2. CASE SendKey
  <2>1. calls' = <<>> \/ calls' = <<KeyCall(Head(inbox))>>
    BY <1>2 DEF SendKey
  <2>2. KeyCall(Head(inbox)).what = "key"
    BY DEF KeyCall, Call
  <2>3. \A i \in 1..Len(calls') : calls'[i].what = "key"
    BY <2>1, <2>2
  <2> QED
    BY <1>2, <2>3 DEF SendKey, Takes, historyVars
<1> QED
  BY <1>1, <1>2

-----------------------------------------------------------------------------
(* Buttons                                                                 *)

\* Sunshine's buttons differ from last_buttons by the calls that are pending.
LEMMA ButtonsStep == TypeOK /\ ReleasedInv /\ ButtonsInv /\ [Next]_vars => ButtonsInv'
<1> SUFFICES ASSUME TypeOK, ReleasedInv, ButtonsInv, [Next]_vars, NEW b \in ButtonSet
             PROVE  /\ Presses("button", b)' => Has(last_buttons', b)
                    /\ Releases("button", b)' => ~Has(last_buttons', b)
                    /\ b \in remoteButtons'
                         => Has(last_buttons', b) \/ Releases("button", b)'
                    /\ live' # "after" /\ ~missed' /\ Has(last_buttons', b)
                         => b \in remoteButtons' \/ Presses("button", b)'
  BY DEF ButtonsInv
<1>0. /\ Presses("button", b) => Has(last_buttons, b)
      /\ Releases("button", b) => ~Has(last_buttons, b)
      /\ b \in remoteButtons => Has(last_buttons, b) \/ Releases("button", b)
      /\ live # "after" /\ ~missed /\ Has(last_buttons, b)
           => b \in remoteButtons \/ Presses("button", b)
  BY DEF ButtonsInv
<1>1. CASE SendPointer
  <2>1. calls = <<>> /\ UNCHANGED <<live, missed, remoteButtons>>
    BY <1>1 DEF SendPointer, Takes, remoteVars
  <2>2. ~Presses("button", b) /\ ~Releases("button", b)
    BY <2>1 DEF Presses, Releases
  <2>3. \A i \in 1..Len(calls') : i = 1 \/ i \in 2..Len(calls')
    BY <1>1, SentPointer
  <2>4. ASSUME NEW i \in 1..Len(calls'), calls'[i].what = "button", calls'[i].subject = b
        PROVE  calls'[i].value <=> Has(last_buttons', b)
    <3>1. calls'[1].what = "position"
      BY <1>1, SentPointer
    <3>2. i \in 2..Len(calls')
      BY <2>3, <2>4, <3>1
    <3> QED
      BY <1>1, <2>4, <3>2, SentPointer
  <2>5. Presses("button", b)' => Has(last_buttons', b)
    BY <2>4 DEF Presses
  <2>6. Releases("button", b)' => ~Has(last_buttons', b)
    BY <2>4 DEF Releases
  <2>7. ~(Has(last_buttons', b) <=> Has(last_buttons, b)) =>
          \E i \in 1..Len(calls') :
            /\ calls'[i].what = "button" /\ calls'[i].subject = b
            /\ calls'[i].value <=> Has(last_buttons', b)
    BY <1>1, SentPointer, Zenon
  <2>8. ~Has(last_buttons', b) /\ Has(last_buttons, b) => Releases("button", b)'
    BY <2>7 DEF Releases
  <2>9. Has(last_buttons', b) /\ ~Has(last_buttons, b) => Presses("button", b)'
    BY <2>7 DEF Presses
  <2> QED
    BY <1>0, <2>1, <2>2, <2>5, <2>6, <2>8, <2>9
<1>2. CASE SendWheel \/ SendKey
  <2>1. ~Presses("button", b) /\ ~Releases("button", b)
    BY <1>2, OtherCalls DEF Presses, Releases
  <2>2. ~Presses("button", b)' /\ ~Releases("button", b)'
    BY <1>2, OtherCalls DEF Presses, Releases
  <2>3. UNCHANGED <<last_buttons, live, missed, remoteButtons>>
    BY <1>2, OtherCalls DEF remoteVars
  <2> QED
    BY <1>0, <2>1, <2>2, <2>3
<1>3. CASE LiSend
  <2>1. /\ Len(calls) \in 1..4 /\ Len(calls') = Len(calls) - 1
        /\ \A i \in 1..Len(calls') : calls'[i] = calls[i + 1]
        /\ Head(calls) = calls[1]
    BY <1>3, MakesFirst DEF LiSend
  <2> DEFINE c == calls[1]
             About == c.what = "button" /\ c.subject = b
  <2>2. /\ Presses("button", b)' => Presses("button", b)
        /\ Releases("button", b)' => Releases("button", b)
    BY <2>1 DEF Presses, Releases
  <2>3. \A i \in 1..Len(calls) : i = 1 \/ (i - 1 \in 1..Len(calls') /\ calls'[i - 1] = calls[i])
    BY <2>1
  <2>4. Presses("button", b) => Presses("button", b)' \/ (About /\ c.value)
    BY <2>3 DEF Presses
  <2>5. Releases("button", b) => Releases("button", b)' \/ (About /\ ~c.value)
    BY <2>3 DEF Releases
  <2>6. (About /\ c.value => Presses("button", b))
        /\ (About /\ ~c.value => Releases("button", b))
    BY <2>1 DEF Presses, Releases
  <2>7. UNCHANGED <<last_buttons, live>>
    BY <1>3 DEF LiSend
  <2>8. CASE Arrives(c) /\ UNCHANGED missed
    <3>1. /\ About /\ c.value => b \in remoteButtons'
          /\ About /\ ~c.value => b \notin remoteButtons'
          /\ ~About => (b \in remoteButtons' <=> b \in remoteButtons)
      BY <2>8 DEF Arrives, Pressed
    <3> HIDE DEF About, c
    <3> QED
      BY <1>0, <2>2, <2>4, <2>5, <2>6, <2>7, <2>8, <3>1
  <2>9. CASE live # "live" /\ missed' = TRUE /\ UNCHANGED remoteVars
    <3>1. remoteButtons' = {} /\ missed'
      BY <2>9 DEF ReleasedInv, remoteVars
    <3> QED
      BY <1>0, <2>2, <2>7, <3>1
  <2> QED
    BY <1>3, <2>1, <2>8, <2>9 DEF LiSend
<1>4. CASE /\ UNCHANGED <<calls, last_buttons>>
           /\ \/ UNCHANGED <<live, missed, remoteButtons>>
              \/ live = "before" /\ UNCHANGED <<missed, remoteButtons>>
              \/ live' = "after" /\ remoteButtons' = {}
  <2>1. Presses("button", b)' = Presses("button", b)
        /\ Releases("button", b)' = Releases("button", b)
    BY <1>4 DEF Presses, Releases
  <2> QED
    BY <1>0, <1>4, <2>1
<1> QED
  BY <1>1, <1>2, <1>3, <1>4
     DEF Next, UserPointer, UserWheel, UserKey, Posts, StreamUp, StreamDown, Rest, vars,
         userVars, remoteVars, historyVars

-----------------------------------------------------------------------------
(* The position                                                            *)

\* The position is the first call of its message, and stays until the next.
LEMMA PositionStep == TypeOK /\ PositionInv /\ [Next]_vars => PositionInv'
<1> SUFFICES ASSUME TypeOK, PositionInv, [Next]_vars PROVE PositionInv'
  OBVIOUS
<1> DEFINE Follows == /\ target <= ShortMax
                      /\ (live # "after" /\ ~missed) \/ (live = "live" /\ takenLive)
<1>1. CASE SendPointer
  <2>1. /\ Len(calls') \in 1..4 /\ calls'[1].what = "position"
        /\ calls'[1].value = c_short(target')
        /\ \A i \in 2..Len(calls') : calls'[i].what = "button"
    BY <1>1, SentPointer
  <2>2. \A i \in 1..Len(calls') : i = 1 \/ i \in 2..Len(calls')
    BY <2>1
  <2>3. Moves'
    BY <2>1 DEF Moves
  <2>4. takenLive' => live' # "before"
    BY <1>1 DEF SendPointer
  <2> QED
    BY <2>1, <2>2, <2>3, <2>4 DEF PositionInv
<1>2. CASE SendWheel \/ SendKey
  <2>1. ~Moves /\ UNCHANGED <<live, missed, target, takenLive, remoteX>>
    BY <1>2, OtherCalls DEF Moves, remoteVars
  <2>2. \A i \in 1..Len(calls') : calls'[i].what # "position"
    BY <1>2, OtherCalls
  <2> QED
    BY <2>1, <2>2 DEF PositionInv
<1>3. CASE LiSend
  <2>1. /\ Len(calls) \in 1..4 /\ Len(calls') = Len(calls) - 1
        /\ \A i \in 1..Len(calls') : calls'[i] = calls[i + 1]
        /\ Head(calls) = calls[1] /\ calls # <<>>
    BY <1>3, MakesFirst DEF LiSend
  <2>2. UNCHANGED <<live, target, takenLive>>
    BY <1>3 DEF LiSend
  <2>3. \A i \in 1..Len(calls') : calls'[i].what # "position"
    <3>1. \A i \in 1..Len(calls') : i + 1 \in 1..Len(calls) /\ i + 1 # 1
      BY <2>1
    <3> QED
      BY <2>1, <3>1 DEF PositionInv
  <2>4. CASE Arrives(calls[1]) /\ UNCHANGED missed
    <3>1. calls[1].what = "position" => calls[1].value = c_short(target)
      BY <2>1 DEF PositionInv
    <3>2. target <= ShortMax => c_short(target) = target
      BY InputAssumption DEF TypeOK, ShortMax, c_short
    <3>3. Follows => remoteX' = target
      BY <2>4, <3>1, <3>2 DEF Arrives, PositionInv, Moves
    <3> QED
      BY <2>2, <2>3, <2>4, <3>3 DEF PositionInv
  <2>5. CASE live # "live" /\ missed' = TRUE
    BY <2>2, <2>3, <2>5 DEF PositionInv
  <2> QED
    BY <1>3, <2>1, <2>4, <2>5 DEF LiSend
<1>4. CASE StreamUp \/ StreamDown
  BY <1>4 DEF StreamUp, StreamDown, PositionInv, Moves, historyVars, remoteVars
<1>5. CASE UNCHANGED <<calls, live, target, missed, takenLive, remoteX>>
  BY <1>5 DEF PositionInv, Moves
<1> QED
  BY <1>1, <1>2, <1>3, <1>4, <1>5
     DEF Next, UserPointer, UserWheel, UserKey, Posts, Rest, vars,
         userVars, remoteVars, historyVars

-----------------------------------------------------------------------------
(* The wheel                                                               *)

\* Rounding a turn of the wheel to whole units, within the range of a c_short,
\* costs what Slack says.
LEMMA AmountIsNear ==
  ASSUME NEW dy \in Int
  PROVE  /\ Amount(dy) \in Int /\ Slack(dy) \in Nat
         /\ 2 * Amount(dy) + dy \in -Slack(dy)..Slack(dy)
<1>1. ShortMax \in Nat
  BY InputAssumption DEF ShortMax
<1>2. /\ Clamp(-dy) \in Int
      /\ \/ Clamp(-dy) = -dy /\ Slack(dy) = 1
         \/ Clamp(-dy) = 2 * ShortMax /\ Clamp(-dy) + dy = -Slack(dy)
         \/ Clamp(-dy) = -2 * ShortMax /\ Clamp(-dy) + dy = Slack(dy)
  BY <1>1 DEF Clamp, Slack
<1>3. ASSUME NEW n \in Int
      PROVE  Cast(n) \in Int /\ 2 * Cast(n) - n \in -1..1
  BY DEF Cast
<1>4. Cast(2 * ShortMax) = ShortMax /\ Cast(-2 * ShortMax) = -ShortMax
  BY <1>1 DEF Cast
<1>5. Slack(dy) \in Nat \ {0}
  BY <1>1 DEF Slack
<1> HIDE DEF Slack
<1> QED
  BY <1>1, <1>2, <1>3, <1>4, <1>5 DEF Amount

\* A message turns the wheel by a whole number of halves.
LEMMA TurnIsInt == \A msg \in Msgs : Turn(msg) \in Int
<1> TAKE msg \in Msgs
<1>1. CASE msg.kind = "wheel"
  <2>1. msg \in WheelMsgs
    BY <1>1 DEF Msgs, PointerMsgs, KeyMsgs
  <2> QED
    BY <2>1, InputAssumption DEF WheelMsgs, Turn
<1>2. CASE msg.kind # "wheel"
  BY <1>2 DEF Turn
<1> QED
  BY <1>1, <1>2

\* A message that is posted turns the wheel behind all others.
LEMMA PostTurns ==
  ASSUME TypeOK, ScrollInv, NEW msg \in Msgs, Posts(msg),
         scrolled' = scrolled - Turn(msg)
  PROVE  ScrollInv'
<1> DEFINE n == Len(inbox)
<1>1. /\ n \in Nat /\ Len(inbox') = n + 1
      /\ \A i \in 1..n : inbox'[i] = inbox[i]
      /\ inbox'[n + 1] = msg
      /\ UNCHANGED <<calls, remoteScroll, missed, slack>>
  BY PostsLast DEF remoteVars, historyVars
<1>2. PICK h \in [0..n -> Int] :
         /\ WheelPath(h)
         /\ ~missed => 2 * (remoteScroll + ToScroll) - h[0] \in -slack..slack
  BY DEF ScrollInv
<1>3. scrolled' \in Int
  <2>1. scrolled \in Int /\ Turn(msg) \in Int
    BY TurnIsInt DEF TypeOK
  <2> QED
    BY <2>1
<1> HIDE DEF n
<1>4. PICK g : /\ g \in [0..(n + 1) -> Int] /\ g[n + 1] = scrolled'
               /\ \A i \in 0..n : g[i] = h[i]
  <2> DEFINE longer == [i \in 0..(n + 1) |-> IF i = n + 1 THEN scrolled' ELSE h[i]]
  <2>1. /\ longer \in [0..(n + 1) -> Int] /\ longer[n + 1] = scrolled'
        /\ \A i \in 0..n : longer[i] = h[i]
    BY <1>1, <1>3
  <2> QED
    BY <2>1, Zenon
<1>5. h[n] = scrolled /\ \A i \in 1..n : h[i] = h[i - 1] - Turn(inbox[i])
  BY <1>2 DEF WheelPath, n
<1>6. ASSUME NEW i \in 1..(n + 1)
      PROVE  g[i] = g[i - 1] - Turn(inbox'[i])
  <2>1. CASE i = n + 1
    BY <1>1, <1>4, <1>5, <2>1
  <2>2. CASE i # n + 1
    <3>1. i \in 1..n /\ i - 1 \in 0..n /\ i \in 0..n
      BY <1>1, <2>2
    <3> QED
      BY <1>1, <1>4, <1>5, <3>1
  <2> QED
    BY <2>1, <2>2
<1>7. WheelPath(g)'
  BY <1>1, <1>4, <1>6 DEF WheelPath
<1>8. g[0] = h[0] /\ ToScroll' = ToScroll
  BY <1>1, <1>4 DEF ToScroll
<1>9. g \in [0..Len(inbox') -> Int]
  BY <1>1, <1>4
<1>10. ~missed' => 2 * (remoteScroll' + ToScroll') - g[0] \in -slack'..slack'
  BY <1>1, <1>2, <1>8
<1>11. \A i \in 1..Len(calls') : calls'[i].what = "scroll" => Len(calls') = 1
  BY <1>1 DEF ScrollInv
<1> QED
  BY <1>7, <1>9, <1>10, <1>11, Zenon DEF ScrollInv

\* A message that is taken becomes a call, if there is something to scroll.
LEMMA TakeTurns ==
  ASSUME TypeOK, ScrollInv, NEW kind, Takes(kind),
         UNCHANGED <<scrolled, remoteScroll, missed>>,
         NEW cost \in Nat, slack' = slack + cost, ToScroll' \in Int,
         2 * ToScroll' + Turn(inbox[1]) \in -cost..cost,
         \A i \in 1..Len(calls') : calls'[i].what = "scroll" => Len(calls') = 1
  PROVE  ScrollInv'
<1> DEFINE n == Len(inbox)
<1>1. /\ calls = <<>> /\ n \in Nat \ {0} /\ Len(inbox') = n - 1
      /\ inbox[1] \in Msgs
      /\ \A i \in 1..(n - 1) : inbox'[i] = inbox[i + 1]
  BY TakesFirst
<1>2. PICK h \in [0..n -> Int] :
         /\ WheelPath(h)
         /\ ~missed => 2 * (remoteScroll + ToScroll) - h[0] \in -slack..slack
  BY DEF ScrollInv
<1>3. h[n] = scrolled /\ \A i \in 1..n : h[i] = h[i - 1] - Turn(inbox[i])
  BY <1>2 DEF WheelPath
<1> HIDE DEF n
<1>4. PICK g : g \in [0..(n - 1) -> Int] /\ \A i \in 0..(n - 1) : g[i] = h[i + 1]
  <2> DEFINE rest == [i \in 0..(n - 1) |-> h[i + 1]]
  <2>1. rest \in [0..(n - 1) -> Int] /\ \A i \in 0..(n - 1) : rest[i] = h[i + 1]
    BY <1>1
  <2> QED
    BY <2>1, Zenon
<1>5. ASSUME NEW i \in 1..(n - 1)
      PROVE  g[i] = g[i - 1] - Turn(inbox'[i])
  <2>1. /\ i \in 0..(n - 1) /\ i - 1 \in 0..(n - 1) /\ i - 1 + 1 = i
        /\ i + 1 \in 1..n /\ i + 1 - 1 = i
    BY <1>1
  <2> QED
    BY <1>1, <1>3, <1>4, <2>1
<1>6. WheelPath(g)'
  <2>1. g[n - 1] = scrolled
    BY <1>1, <1>3, <1>4
  <2> QED
    BY <1>1, <1>5, <2>1 DEF WheelPath
<1>7. ~missed' => 2 * (remoteScroll' + ToScroll') - g[0] \in -slack'..slack'
  <2>1. ToScroll = 0
    BY <1>1 DEF ToScroll
  <2>2. h[0] \in Int /\ h[1] \in Int /\ g[0] = h[1] /\ h[1] = h[0] - Turn(inbox[1])
    BY <1>1, <1>3, <1>4
  <2>3. Turn(inbox[1]) \in Int
    BY <1>1, TurnIsInt
  <2>4. remoteScroll \in Int /\ slack \in Nat
    BY DEF TypeOK
  <2> DEFINE t == Turn(inbox[1])
             a == ToScroll'
  <2> HIDE DEF t, a
  <2>5. t \in Int /\ a \in Int /\ 2 * a + t \in -cost..cost
        /\ (~missed => 2 * remoteScroll - h[0] \in -slack..slack)
        /\ g[0] = h[0] - t /\ UNCHANGED <<remoteScroll, missed>> /\ slack' = slack + cost
    BY <1>2, <2>1, <2>2, <2>3, <2>4 DEF t, a
  <2>6. ~missed => 2 * (remoteScroll + a) - (h[0] - t) \in -(slack + cost)..(slack + cost)
    <3> DEFINE k == h[0]
    <3>1. k \in Int
      BY <2>2
    <3> HIDE DEF k
    <3>2. 2 * (remoteScroll + a) - (k - t) = (2 * remoteScroll - k) + (2 * a + t)
      BY <2>4, <2>5, <3>1
    <3>3. 2 * remoteScroll - k \in Int /\ 2 * a + t \in Int
      BY <2>4, <2>5, <3>1
    <3>4. ASSUME NEW u \in -slack..slack, NEW v \in -cost..cost
          PROVE  u + v \in -(slack + cost)..(slack + cost)
      BY <2>4
    <3> QED
      BY <2>5, <3>2, <3>4 DEF k
  <2> QED
    BY <2>5, <2>6 DEF a
<1>8. g \in [0..Len(inbox') -> Int]
  BY <1>1, <1>4
<1> QED
  BY <1>6, <1>7, <1>8, Zenon DEF ScrollInv

\* Sunshine scrolls as far as the wheel was turned: every step keeps it so.
LEMMA ScrollStep == TypeOK /\ ScrollInv /\ [Next]_vars => ScrollInv'
<1> SUFFICES ASSUME TypeOK, ScrollInv, [Next]_vars PROVE ScrollInv'
  OBVIOUS
<1>1. ASSUME NEW x \in Xs, NEW mask \in ButtonMasks, UserPointer(x, mask)
      PROVE  ScrollInv'
  <2> DEFINE msg == [kind |-> "pointer", x |-> x, buttons |-> mask]
  <2>1. msg \in Msgs /\ Turn(msg) = 0
    BY DEF Msgs, PointerMsgs, Turn
  <2>2. Posts(msg) /\ scrolled' = scrolled /\ scrolled \in Int
    BY <1>1 DEF UserPointer, TypeOK
  <2> HIDE DEF msg
  <2> QED
    BY <2>1, <2>2, PostTurns
<1>2. ASSUME NEW dy \in WheelDeltas, UserWheel(dy)
      PROVE  ScrollInv'
  <2> DEFINE msg == [kind |-> "wheel", dy |-> dy]
  <2>1. msg \in Msgs /\ Turn(msg) = dy
    BY DEF Msgs, WheelMsgs, Turn
  <2>2. Posts(msg) /\ scrolled' = scrolled - dy
    BY <1>2 DEF UserWheel
  <2> HIDE DEF msg
  <2> QED
    BY <2>1, <2>2, PostTurns
<1>3. ASSUME NEW code \in Codes, NEW down \in BOOLEAN, UserKey(code, down)
      PROVE  ScrollInv'
  <2> DEFINE msg == [kind |-> "key", code |-> code, down |-> down]
  <2>1. msg \in Msgs /\ Turn(msg) = 0
    BY DEF Msgs, KeyMsgs, Turn
  <2>2. Posts(msg) /\ scrolled' = scrolled /\ scrolled \in Int
    BY <1>3 DEF UserKey, TypeOK
  <2> HIDE DEF msg
  <2> QED
    BY <2>1, <2>2, PostTurns
<1>4. ASSUME SendPointer \/ SendKey
      PROVE  ScrollInv'
  <2>1. /\ \A i \in 1..Len(calls') : calls'[i].what # "scroll"
        /\ UNCHANGED <<scrolled, remoteScroll, missed>>
        /\ \E kind \in {"pointer", "key"} : Takes(kind)
        /\ slack' = slack
    <3>1. CASE SendPointer
      <4>1. \A i \in 1..Len(calls') : i = 1 \/ i \in 2..Len(calls')
        BY <3>1, SentPointer
      <4>2. \A i \in 1..Len(calls') : calls'[i].what # "scroll"
        BY <3>1, <4>1, SentPointer
      <4> QED
        BY <3>1, <4>2 DEF SendPointer, userVars, remoteVars
    <3>2. CASE SendKey
      <4>1. calls' = <<>> \/ calls' = <<KeyCall(Head(inbox))>>
        BY <3>2 DEF SendKey
      <4>2. KeyCall(Head(inbox)).what = "key"
        BY DEF KeyCall, Call
      <4>3. \A i \in 1..Len(calls') : calls'[i].what # "scroll"
        BY <4>1, <4>2
      <4> QED
        BY <3>2, <4>3 DEF SendKey, userVars, remoteVars, historyVars
    <3> QED
      BY <1>4, <3>1, <3>2
  <2>2. PICK kind \in {"pointer", "key"} : Takes(kind)
    BY <2>1
  <2>3. Turn(inbox[1]) = 0
    BY <2>2, TakesFirst DEF Turn
  <2>4. ToScroll' = 0
    <3>1. calls' # <<>> => 1 \in 1..Len(calls')
      <4>1. calls' \in Seq(Calls)
        BY TypeStep DEF TypeOK
      <4> HIDE DEF Calls
      <4> QED
        BY <4>1
    <3> QED
      BY <2>1, <3>1 DEF ToScroll
  <2>5. slack' = slack + 0
    BY <2>1 DEF TypeOK
  <2>6. 2 * ToScroll' + Turn(inbox[1]) \in -0..0
    BY <2>3, <2>4
  <2> QED
    BY <2>1, <2>2, <2>4, <2>5, <2>6, TakeTurns
<1>5. CASE SendWheel
  <2> DEFINE dy == inbox[1].dy
  <2>1. /\ Takes("wheel") /\ UNCHANGED <<scrolled, remoteScroll, missed>>
        /\ calls' = IF Amount(dy) = 0 THEN <<>> ELSE <<Call("scroll", "y", Amount(dy))>>
        /\ slack' = slack + Slack(dy)
    BY <1>5, TakesFirst DEF SendWheel, userVars, remoteVars
  <2>2. dy \in Int /\ Turn(inbox[1]) = dy
    <3>1. inbox[1] \in Msgs /\ inbox[1].kind = "wheel"
      BY <2>1, TakesFirst
    <3> QED
      BY <3>1, InputAssumption DEF Msgs, PointerMsgs, WheelMsgs, KeyMsgs, Turn
  <2> HIDE DEF dy
  <2>3. ToScroll' = Amount(dy)
    BY <2>1 DEF ToScroll, Call
  <2>4. \A i \in 1..Len(calls') : calls'[i].what = "scroll" => Len(calls') = 1
    BY <2>1
  <2> QED
    BY <2>1, <2>2, <2>3, <2>4, AmountIsNear, TakeTurns
<1>6. CASE LiSend
  <2>1. /\ Len(calls) \in 1..4 /\ Len(calls') = Len(calls) - 1
        /\ \A i \in 1..Len(calls') : calls'[i] = calls[i + 1]
        /\ Head(calls) = calls[1] /\ calls # <<>> /\ calls[1] \in Calls
        /\ calls' \in Seq(Calls)
    BY <1>6, MakesFirst DEF LiSend
  <2>2. UNCHANGED <<inbox, scrolled, slack>>
    BY <1>6 DEF LiSend, userVars
  <2>3. \A i \in 1..Len(calls') : calls'[i].what # "scroll"
    <3>1. \A i \in 1..Len(calls') : i + 1 \in 1..Len(calls) /\ Len(calls) # 1
      BY <2>1
    <3> QED
      BY <2>1, <3>1 DEF ScrollInv
  <2>4. ToScroll' = 0
    <3>1. calls' # <<>> => 1 \in 1..Len(calls')
      <4> HIDE DEF Calls
      <4> QED
        BY <2>1
    <3> QED
      BY <2>3, <3>1 DEF ToScroll
  <2>5. ToScroll \in Int
    BY <2>1, InputAssumption DEF ToScroll, Calls, Call, ShortMax
  <2>6. ~missed' => ~missed /\ remoteScroll' + ToScroll' = remoteScroll + ToScroll
    <3>1. ~missed' => ~missed /\ Arrives(calls[1])
      BY <1>6, <2>1 DEF LiSend
    <3>2. Arrives(calls[1]) => remoteScroll' = remoteScroll + ToScroll
      BY <2>1 DEF Arrives, ToScroll
    <3>3. remoteScroll \in Int
      BY DEF TypeOK
    <3> QED
      BY <2>4, <2>5, <3>1, <3>2, <3>3
  <2>7. PICK h \in [0..Len(inbox) -> Int] :
           /\ WheelPath(h)
           /\ ~missed => 2 * (remoteScroll + ToScroll) - h[0] \in -slack..slack
    BY DEF ScrollInv
  <2>8. WheelPath(h)' /\ h \in [0..Len(inbox') -> Int]
    BY <2>2, <2>7 DEF WheelPath
  <2>9. ~missed' => 2 * (remoteScroll' + ToScroll') - h[0] \in -slack'..slack'
    BY <2>2, <2>6, <2>7
  <2> QED
    BY <2>3, <2>8, <2>9, Zenon DEF ScrollInv
<1>7. CASE UNCHANGED <<inbox, scrolled, calls, missed, remoteScroll, slack>>
  <2>1. ToScroll' = ToScroll /\ \A h : WheelPath(h)' <=> WheelPath(h)
    BY <1>7 DEF ToScroll, WheelPath
  <2> QED
    BY <1>7, <2>1 DEF ScrollInv
<1> QED
  BY <1>1, <1>2, <1>3, <1>4, <1>5, <1>6, <1>7
     DEF Next, StreamUp, StreamDown, Rest, vars, userVars, remoteVars, historyVars

-----------------------------------------------------------------------------
(* Theorems                                                                *)

\* Inv is inductive.
LEMMA InvInduction == (Init => Inv) /\ (Inv /\ [Next]_vars => Inv')
<1>1. Init => Inv
  <2> SUFFICES ASSUME Init PROVE Inv
    OBVIOUS
  <2>1. TypeOK
    BY TypeInit
  <2>2. KeysInv /\ PointerInv /\ ReleasedInv
    BY DEF Init, KeysInv, Presses, UpAfter, PointerInv, ReleasedInv
  <2>3. \A b \in ButtonSet : ~Has(0, b)
    BY DEF Has, ButtonSet, BUTTON_LEFT, BUTTON_MIDDLE, BUTTON_RIGHT
  <2>4. ButtonsInv
    BY <2>3 DEF Init, ButtonsInv, Presses, Releases
  <2>5. PositionInv
    BY DEF Init, PositionInv
  <2>6. ScrollInv
    <3> DEFINE h == [i \in 0..0 |-> 0]
    <3>1. h \in [0..0 -> Int] /\ h[0] = 0
      OBVIOUS
    <3>2. /\ Len(inbox) = 0 /\ Len(calls) = 0 /\ ToScroll = 0
          /\ scrolled = 0 /\ remoteScroll = 0 /\ slack = 0
      BY DEF Init, ToScroll
    <3> HIDE DEF h
    <3>3. WheelPath(h) /\ 2 * (remoteScroll + ToScroll) - h[0] \in -slack..slack
      BY <3>1, <3>2 DEF WheelPath
    <3> QED
      BY <3>1, <3>2, <3>3 DEF ScrollInv
  <2> QED
    BY <2>1, <2>2, <2>4, <2>5, <2>6 DEF Inv
<1>2. Inv /\ [Next]_vars => Inv'
  BY TypeStep, KeysStep, PointerStep, ButtonsStep, PositionStep, ScrollStep,
     ReleasedStep DEF Inv
<1> QED
  BY <1>1, <1>2

LEMMA InvHolds == Spec => []Inv
BY InvInduction, PTL DEF Spec

\* With nothing in flight, last_buttons is the user's mask.
LEMMA AtRest ==
  ASSUME Inv, Quiet
  PROVE  /\ last_buttons = pointer /\ target = position
         /\ \A what, subject : ~Presses(what, subject) /\ ~Releases(what, subject)
         /\ \A vk : \A i \in Nat : ~UpAfter(i, vk)
<1>1. inbox = <<>> /\ calls = <<>>
  BY DEF Quiet
<1>2. Len(inbox) = 0 /\ Len(calls) = 0
  BY <1>1
<1>3. \A i \in 1..Len(inbox) : inbox[i].kind # "pointer"
  BY <1>2
<1> QED
  BY <1>2, <1>3 DEF Inv, PointerInv, Presses, Releases, UpAfter

\* Nothing stays pressed on the Sunshine host that the user has let go of,
\* whenever the stream comes up or breaks, for all keys and masks.
THEOREM NothingIsStuck == Spec => []NothingStuck
<1>1. Inv => NothingStuck
  <2> SUFFICES ASSUME Inv, Quiet
               PROVE  remoteButtons \subseteq Down(pointer) /\ remoteKeys \subseteq KeysOf(held)
    BY DEF NothingStuck
  <2>1. remoteButtons \subseteq ButtonSet /\ remoteKeys \subseteq VirtualKeys
    BY DEF Inv, TypeOK
  <2>2. remoteButtons \subseteq Down(pointer)
    BY <2>1, AtRest DEF Inv, ButtonsInv, Down
  <2>3. remoteKeys \subseteq KeysOf(held)
    BY <2>1, AtRest, 0 \in Nat DEF Inv, KeysInv
  <2> QED
    BY <2>2, <2>3
<1> QED
  BY <1>1, InvHolds, PTL

\* If no call fell outside the stream, Sunshine's buttons are the user's.
THEOREM ButtonsDoFollow == Spec => []ButtonsFollow
<1>1. Inv => ButtonsFollow
  <2> SUFFICES ASSUME Inv, Quiet, live = "live", ~missed
               PROVE  remoteButtons = Down(pointer)
    BY DEF ButtonsFollow
  <2>1. remoteButtons \subseteq ButtonSet
    BY DEF Inv, TypeOK
  <2>2. \A b \in ButtonSet : b \in remoteButtons <=> Has(pointer, b)
    BY AtRest DEF Inv, ButtonsInv
  <2> QED
    BY <2>1, <2>2 DEF Down
<1> QED
  BY <1>1, InvHolds, PTL

\* A pointer message that is taken while the stream is live puts Sunshine's
\* pointer where the user's is, whatever was lost before.
THEOREM PointerDoesCatchUp == Spec => []PointerCatchesUp
<1>1. Inv => PointerCatchesUp
  BY AtRest DEF Inv, PositionInv, Moves, PointerCatchesUp, Quiet
<1> QED
  BY <1>1, InvHolds, PTL

\* However the wheel is turned to and fro, and however far at once: with nothing
\* in flight and no call made outside the stream, Sunshine has scrolled as far as
\* the user, up to what the clamp and the cast to c_short cost (session.rs, the
\* wheel arm of send_input).
THEOREM ScrollDoesFollow == Spec => []ScrollFollows
<1>1. Inv => ScrollFollows
  <2> SUFFICES ASSUME Inv, Quiet, ~missed
               PROVE  2 * remoteScroll - scrolled \in -slack..slack
    BY DEF ScrollFollows
  <2>1. Len(inbox) = 0 /\ ToScroll = 0
    BY DEF Quiet, ToScroll
  <2>2. PICK h : /\ WheelPath(h)
                 /\ 2 * (remoteScroll + ToScroll) - h[0] \in -slack..slack
    BY DEF Inv, ScrollInv
  <2>3. h[0] = scrolled
    BY <2>1, <2>2 DEF WheelPath
  <2>4. remoteScroll \in Int
    BY DEF Inv, TypeOK
  <2> QED
    BY <2>1, <2>2, <2>3, <2>4
<1> QED
  BY <1>1, InvHolds, PTL

\* A button goes down or up on Sunshine where the message that moves it had the
\* pointer, whatever calls fell outside the stream before, if the message was
\* taken while the stream was live or nothing had been missed yet, and if the
\* position has a c_short (session.rs, the pointer arm of send_input).
THEOREM ClicksDoLand == Spec => ClicksLand
<1>1. Inv /\ [Next]_vars =>
        [/\ remoteButtons' # remoteButtons /\ live' = "live"
         /\ takenLive \/ ~missed
         /\ target <= ShortMax
         => remoteX = target]_vars
  <2> SUFFICES ASSUME Inv, [Next]_vars, remoteButtons' # remoteButtons, live' = "live",
                      takenLive \/ ~missed, target <= ShortMax
               PROVE  remoteX = target
    OBVIOUS
  <2>1. LiSend
    BY DEF Next, UserPointer, UserWheel, UserKey, Posts, SendPointer, SendWheel, SendKey,
           StreamUp, StreamDown, Rest, vars, remoteVars
  <2>2. live = "live" /\ calls # <<>> /\ Arrives(Head(calls)) /\ Head(calls) = calls[1]
    BY <2>1, MakesFirst DEF LiSend, remoteVars, Inv
  <2>3. calls[1].what # "position"
    BY <2>2 DEF Arrives
  <2> QED
    BY <2>2, <2>3 DEF Inv, PositionInv, Moves
<1> QED
  BY <1>1, InvHolds, PTL DEF Spec, ClicksLand
=============================================================================
