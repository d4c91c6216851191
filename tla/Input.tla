------------------------------- MODULE Input -------------------------------
(***************************************************************************)
(* Keyboard and pointer input of one session: from the user's hands over   *)
(* the `input` messages of the Tempest host to MoonlightSession::send_input*)
(* (session.rs) and the LiSend* calls of the C library, and what the       *)
(* Sunshine host then holds pressed.  A handler makes several LiSend*      *)
(* calls, and the connection may come up or break between any two of them. *)
(*                                                                         *)
(* A position is its x alone; y is treated alike.  The wheel is in halves  *)
(* of a unit, so that there are fractions.  Clipboard messages are dropped *)
(* by send_input, and left out here.                                       *)
(***************************************************************************)
EXTENDS Integers, Sequences

CONSTANTS
    Codes,        \* the physical keys (KeyboardEvent.code) the user presses
    ButtonMasks,  \* the button masks (u8) the Tempest host sends
    Xs,           \* the pointer positions (u16) it sends
    WheelDeltas,  \* the movements of the wheel (dy), in halves
    Word,         \* 2^16
    None,
    MaxInFlight,  \* bound: input messages between the user and send_input
    MaxMessages   \* bound: input messages in all

ASSUME InputAssumption ==
    /\ ButtonMasks \subseteq 0..255
    /\ Word \in Nat /\ Word > 1 /\ Xs \subseteq 0..(Word - 1)
    /\ WheelDeltas \subseteq Int
    /\ MaxInFlight \in Nat \ {0}
    /\ MaxMessages \in Nat

\* The virtual key of a physical one.  The four pairs of modifier keys and the
\* two Enter keys share one; a key without an entry has none; every other has
\* one of its own, named here after the key.
vk_from_code(code) ==
    CASE code \in {"Enter", "NumpadEnter"} -> "VK_RETURN"
      [] code \in {"ShiftLeft", "ShiftRight"} -> "VK_SHIFT"
      [] code \in {"ControlLeft", "ControlRight"} -> "VK_CONTROL"
      [] code \in {"AltLeft", "AltRight"} -> "VK_MENU"
      [] code \in {"MetaLeft", "MetaRight"} -> "VK_LWIN"
      [] code \in {"NumLock", "ContextMenu", "IntlBackslash"} -> None
      [] OTHER -> code

VirtualKeys == {vk_from_code(code) : code \in Codes} \ {None}
KeysOf(codes) == {vk_from_code(code) : code \in codes} \ {None}

BUTTON_LEFT == 1
BUTTON_MIDDLE == 2
BUTTON_RIGHT == 4
ButtonSet == {BUTTON_LEFT, BUTTON_MIDDLE, BUTTON_RIGHT}

\* mask & button != 0; the other five bits are never looked at.
Has(mask, button) == (mask \div button) % 2 = 1
Down(mask) == {b \in ButtonSet : Has(mask, b)}

\* `x as c_short`; and the largest of them, 32767.
c_short(x) == IF x < Word \div 2 THEN x ELSE x - Word
ShortMax == Word \div 2 - 1

VARIABLES
    pointer,        \* the button mask of the user's mouse
    position,       \* where it is
    scrolled,       \* how far the user has turned the wheel, upwards
    held,           \* the physical keys the user holds down
    inbox,          \* input messages on their way
    messages,       \* how many the user has caused
    last_buttons,   \* MoonlightSession.last_buttons
    calls,          \* the LiSend* calls the running handler still makes
    live,           \* the input stream: "before", "live" or "after"
    remoteButtons,  \* what Sunshine holds pressed
    remoteKeys,
    remoteX,        \* where the pointer is there
    remoteScroll,   \* how far it has scrolled, in whole units
    target,         \* history: the position of the message being handled
    slack,          \* history: what rounding may have cost the wheel
    missed,         \* history: a call was made while the stream was not live
    takenLive       \* history: the last pointer message was taken while live

userVars == <<pointer, position, scrolled, held, messages>>
remoteVars == <<remoteButtons, remoteKeys, remoteX, remoteScroll>>
historyVars == <<target, slack, missed, takenLive>>
vars == <<userVars, inbox, last_buttons, calls, live, remoteVars, historyVars>>

\* InputMsg, as to_core_input hands it on.
PointerMsgs == [kind : {"pointer"}, x : Xs, buttons : ButtonMasks]
WheelMsgs == [kind : {"wheel"}, dy : WheelDeltas]
KeyMsgs == [kind : {"key"}, code : Codes, down : BOOLEAN]

\* A LiSend* call: of which kind, about what, and with which value.
Call(what, subject, value) == [what |-> what, subject |-> subject, value |-> value]
Calls ==
    {Call("button", b, press) : b \in ButtonSet, press \in BOOLEAN}
      \cup {Call("key", vk, press) : vk \in VirtualKeys, press \in BOOLEAN}
      \cup {Call("position", "x", n) : n \in {c_short(x) : x \in Xs}}
      \cup {Call("scroll", "y", n) : n \in (-ShortMax..ShortMax) \ {0}}

\* A handler makes at most four LiSend* calls; the library is never asked to
\* scroll by nothing, or by an amount a c_short has no negative of.
TypeOK ==
    /\ pointer \in ButtonMasks \cup {0} /\ position \in Xs \cup {0}
    /\ scrolled \in Int /\ held \subseteq Codes
    /\ inbox \in Seq(PointerMsgs \cup WheelMsgs \cup KeyMsgs)
    /\ Len(inbox) <= MaxInFlight
    /\ messages \in 0..MaxMessages
    /\ last_buttons \in ButtonMasks \cup {0}
    /\ calls \in Seq(Calls) /\ Len(calls) <= 4
    /\ live \in {"before", "live", "after"}
    /\ remoteButtons \subseteq ButtonSet /\ remoteKeys \subseteq VirtualKeys
    /\ remoteX \in Int /\ remoteScroll \in Int
    /\ target \in Xs \cup {0} /\ slack \in Nat
    /\ missed \in BOOLEAN /\ takenLive \in BOOLEAN

Init ==
    /\ pointer = 0 /\ position = 0 /\ scrolled = 0 /\ held = {}
    /\ inbox = <<>> /\ messages = 0
    /\ last_buttons = 0
    /\ calls = <<>>
    /\ live = "before"
    /\ remoteButtons = {} /\ remoteKeys = {} /\ remoteX = 0 /\ remoteScroll = 0
    /\ target = 0 /\ slack = 0
    /\ missed = FALSE /\ takenLive = FALSE

-----------------------------------------------------------------------------
(* The user and the Tempest host                                           *)

Posts(msg) ==
    /\ messages < MaxMessages
    /\ messages' = messages + 1
    /\ Len(inbox) < MaxInFlight
    /\ inbox' = Append(inbox, msg)
    /\ UNCHANGED <<last_buttons, calls, live, remoteVars, historyVars>>

\* A pointer message carries the position and the whole mask: also a mere
\* movement does.
UserPointer(x, mask) ==
    /\ pointer' = mask /\ position' = x
    /\ UNCHANGED <<held, scrolled>>
    /\ Posts([kind |-> "pointer", x |-> x, buttons |-> mask])

\* Browser deltaY > 0 is downwards.
UserWheel(dy) ==
    /\ scrolled' = scrolled - dy
    /\ UNCHANGED <<held, pointer, position>>
    /\ Posts([kind |-> "wheel", dy |-> dy])

\* A key goes down, repeats, or goes up.
UserKey(code, down) ==
    /\ down \/ code \in held
    /\ held' = IF down THEN held \cup {code} ELSE held \ {code}
    /\ UNCHANGED <<pointer, position, scrolled>>
    /\ Posts([kind |-> "key", code |-> code, down |-> down])

-----------------------------------------------------------------------------
(* send_input, on the main thread.  The next message is only taken when    *)
(* the calls for this one have been made.                                  *)

Takes(kind) ==
    /\ calls = <<>>
    /\ inbox # <<>>
    /\ Head(inbox).kind = kind
    /\ inbox' = Tail(inbox)

\* Mutant: last_buttons is read, and never written back.
BugSwapped(mask) == last_buttons

Swapped(mask) == mask

\* A press or release for every button that changed.
Flip(mask, b) ==
    IF Has(mask, b) # Has(last_buttons, b) THEN <<Call("button", b, Has(mask, b))>>
                                           ELSE <<>>
Transitions(mask) ==
    Flip(mask, BUTTON_LEFT) \o Flip(mask, BUTTON_MIDDLE) \o Flip(mask, BUTTON_RIGHT)

\* Mutant: no call for a pointer that has not moved since the last message.
BugMove(x) == IF x = target THEN <<>> ELSE <<Call("position", "x", c_short(x))>>

Move(x) == <<Call("position", "x", c_short(x))>>

\* Mutant: the buttons before the position.
BugPointerCalls(msg) == Transitions(msg.buttons) \o Move(msg.x)

PointerCalls(msg) == Move(msg.x) \o Transitions(msg.buttons)

SendPointer ==
    /\ Takes("pointer")
    /\ LET msg == Head(inbox) IN
       /\ calls' = PointerCalls(msg)
       /\ last_buttons' = Swapped(msg.buttons)
       /\ target' = msg.x
    /\ takenLive' = (live = "live")
    /\ UNCHANGED <<userVars, live, remoteVars, slack, missed>>

\* .clamp(-32767.0, 32767.0), and `as c_short`, which cuts the fraction off.
Clamp(n) == IF n > 2 * ShortMax THEN 2 * ShortMax
            ELSE IF n < -2 * ShortMax THEN -2 * ShortMax ELSE n
Cast(n) == IF n < 0 THEN -(-n \div 2) ELSE n \div 2

\* Mutant: the browser's direction is taken for moonlight's.
BugAmount(dy) == Cast(Clamp(dy))

Amount(dy) == Cast(Clamp(-dy))

\* At most half a unit, or what is beyond the range of a c_short.
Slack(dy) == LET n == IF dy < 0 THEN -dy ELSE dy
             IN IF n > 2 * ShortMax THEN n - 2 * ShortMax ELSE 1

SendWheel ==
    /\ Takes("wheel")
    /\ LET dy == Head(inbox).dy IN
       /\ calls' = IF Amount(dy) = 0 THEN <<>> ELSE <<Call("scroll", "y", Amount(dy))>>
       /\ slack' = slack + Slack(dy)
    /\ UNCHANGED <<userVars, last_buttons, live, remoteVars, target, missed, takenLive>>

\* Mutant: key-up has no action of its own.
BugKeyCall(msg) == Call("key", vk_from_code(msg.code), TRUE)

KeyCall(msg) == Call("key", vk_from_code(msg.code), msg.down)

\* Mutant: a key without a virtual key is sent all the same.
BugUnmapped(code) == FALSE

Unmapped(code) == vk_from_code(code) = None

SendKey ==
    /\ Takes("key")
    /\ LET msg == Head(inbox) IN
       calls' = IF Unmapped(msg.code) THEN <<>> ELSE <<KeyCall(msg)>>
    /\ UNCHANGED <<userVars, last_buttons, live, remoteVars, historyVars>>

\* The LiSend* functions: "no-ops until the connection is live", and after it.
Pressed(set, call) == IF call.value THEN set \cup {call.subject} ELSE set \ {call.subject}
Arrives(call) ==
    /\ remoteButtons' = IF call.what = "button" THEN Pressed(remoteButtons, call)
                                                ELSE remoteButtons
    /\ remoteKeys' = IF call.what = "key" THEN Pressed(remoteKeys, call) ELSE remoteKeys
    /\ remoteX' = IF call.what = "position" THEN call.value ELSE remoteX
    /\ remoteScroll' = remoteScroll + IF call.what = "scroll" THEN call.value ELSE 0

LiSend ==
    /\ calls # <<>>
    /\ calls' = Tail(calls)
    /\ \/ live = "live" /\ Arrives(Head(calls)) /\ UNCHANGED missed
       \/ live # "live" /\ missed' = TRUE /\ UNCHANGED remoteVars
    /\ UNCHANGED <<userVars, inbox, last_buttons, live, target, slack, takenLive>>

-----------------------------------------------------------------------------
(* The connection                                                          *)

StreamUp ==
    /\ live = "before"
    /\ live' = "live"
    /\ UNCHANGED <<userVars, inbox, last_buttons, calls, remoteVars, historyVars>>

\* Lost or stopped; Sunshine releases what the session held.
StreamDown ==
    /\ live = "live"
    /\ live' = "after"
    /\ remoteButtons' = {} /\ remoteKeys' = {}
    /\ UNCHANGED <<remoteX, remoteScroll>>
    /\ UNCHANGED <<userVars, inbox, last_buttons, calls, historyVars>>

-----------------------------------------------------------------------------
\* The session is over, and so is the user's input.
Rest == live = "after" /\ messages = MaxMessages /\ UNCHANGED vars

Next ==
    \/ \E x \in Xs, mask \in ButtonMasks : UserPointer(x, mask)
    \/ \E dy \in WheelDeltas : UserWheel(dy)
    \/ \E code \in Codes, down \in BOOLEAN : UserKey(code, down)
    \/ SendPointer \/ SendWheel \/ SendKey \/ LiSend
    \/ StreamUp \/ StreamDown
    \/ Rest

Spec == Init /\ [][Next]_vars

-----------------------------------------------------------------------------
(* Properties                                                              *)

\* Everything the user did has been handed to the library.
Quiet == inbox = <<>> /\ calls = <<>>

\* Nothing stays pressed on the Sunshine host that the user has let go of,
\* whenever the stream came up between a press, the calls of one message and
\* the release.
NothingStuck ==
    Quiet => remoteButtons \subseteq Down(pointer) /\ remoteKeys \subseteq KeysOf(held)

\* If no call fell outside the stream, the buttons of the Sunshine host are
\* the user's.
ButtonsFollow ==
    Quiet /\ live = "live" /\ ~missed => remoteButtons = Down(pointer)

\* A button goes down or up on Sunshine where the message that moves it had the
\* pointer, also after calls that fell outside the stream: the position has
\* arrived before it.  Excepted is a message that was taken before the stream was
\* live, after some call was missed: its position may be among them.  And a
\* position from 32768 on has no c_short.
ClicksLand ==
    [][/\ remoteButtons' # remoteButtons /\ live' = "live"
       /\ takenLive \/ ~missed
       /\ target <= ShortMax
       => remoteX = target]_vars

\* What was lost before the stream was live costs the pointer nothing: the
\* first movement that is taken while it is live puts it where the user's is.
PointerCatchesUp ==
    Quiet /\ live = "live" /\ takenLive /\ position <= ShortMax => remoteX = position

\* However the wheel is turned to and fro, Sunshine has scrolled as far as the
\* user, in the same direction, up to half a unit for each message.
ScrollFollows ==
    Quiet /\ live = "live" /\ ~missed
      => 2 * remoteScroll - scrolled \in -slack..slack

\* "LiSend* are no-ops until the connection is live, so it's safe to call them
\* unconditionally" (session.rs): what is dropped before the connection is
\* live costs nothing later - a pointer message that is taken while it is live
\* leaves its own buttons pressed.
PointerIsSafe ==
    Quiet /\ live = "live" /\ takenLive => remoteButtons = Down(pointer)
=============================================================================
