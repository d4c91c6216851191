-------------------------- MODULE SessionProtocol --------------------------
(***************************************************************************)
(* What the sidecar promises its host about the messages of one session    *)
(* (PROTOCOL.md, host.rs): the order in which session events may arrive.   *)
(* The identity comes first if at all; pairPrompt is taken down by         *)
(* pairFinished or by the end of the session; frames come only between     *)
(* sessionReady and the one sessionClosed; nothing comes after that; and a *)
(* session that is still prompting never ends cleanly.                     *)
(***************************************************************************)
EXTENDS Naturals, Sequences

CONSTANTS Engines, Units

VARIABLES events,    \* events[e]: control messages of engine e so far
          frames     \* frames[e]: frame messages of engine e so far

Last(e) == IF events[e] = <<>> THEN "connect" ELSE events[e][Len(events[e])]

Init == events = [e \in Engines |-> <<>>] /\ frames = [e \in Engines |-> <<>>]

Says(e, msg) ==
    /\ events' = [events EXCEPT ![e] = Append(@, msg)]
    /\ UNCHANGED frames

Identity(e) == Last(e) = "connect" /\ Says(e, "identity")
Prompt(e) == Last(e) \in {"connect", "identity"} /\ Says(e, "pairPrompt")
Finished(e) == Last(e) = "pairPrompt" /\ Says(e, "pairFinished")

Ready(e) ==
    /\ Last(e) \in {"connect", "identity", "pairFinished"}
    /\ Says(e, "sessionReady")

Frame(e) ==
    /\ Last(e) = "sessionReady"
    /\ \E u \in Units : frames' = [frames EXCEPT ![e] = Append(@, u)]
    /\ UNCHANGED events

Closed(e) ==
    \/ /\ Last(e) \notin {"pairPrompt", "sessionClosed", "sessionClosedError"}
       /\ Says(e, "sessionClosed")
    \/ /\ Last(e) \notin {"sessionClosed", "sessionClosedError"}
       /\ Says(e, "sessionClosedError")

Next ==
    \E e \in Engines :
        Identity(e) \/ Prompt(e) \/ Finished(e) \/ Ready(e) \/ Frame(e)
          \/ Closed(e)

Spec == Init /\ [][Next]_<<events, frames>>
=============================================================================
