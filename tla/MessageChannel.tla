--------------------------- MODULE MessageChannel ---------------------------
(***************************************************************************)
(* What the framing of proto.rs promises: a FIFO of whole messages.  The   *)
(* reader gets a prefix of what the writers were granted, in that order,   *)
(* and then the end of the stream.                                         *)
(***************************************************************************)
EXTENDS Naturals, Sequences

CONSTANT Messages

VARIABLES sent,       \* the messages, in the order the writers got the pipe
          got,        \* what the reader has been given
          outcome     \* "reading", or how the stream ended

Init == sent = <<>> /\ got = <<>> /\ outcome = "reading"

Send ==
    /\ \E m \in Messages : sent' = Append(sent, m)
    /\ UNCHANGED <<got, outcome>>

Deliver ==
    /\ outcome = "reading"
    /\ Len(got) < Len(sent)
    /\ got' = Append(got, sent[Len(got) + 1])
    /\ UNCHANGED <<sent, outcome>>

\* Process exits lose at most the message that was being written.
End ==
    /\ outcome = "reading"
    /\ Len(sent) <= Len(got) + 1
    /\ outcome' \in {"eof", "error"}
    /\ UNCHANGED <<sent, got>>

Next == Send \/ Deliver \/ End

Spec == Init /\ [][Next]_<<sent, got, outcome>>
=============================================================================
