------------------------------ MODULE MCInput ------------------------------
(***************************************************************************)
(* Input, with the movements of the wheel that a .cfg cannot write: half a *)
(* unit up, one and a half down, and more than the range of a c_short.     *)
(***************************************************************************)
EXTENDS Input

MCWheel == {-1, 3, 9}
=============================================================================
