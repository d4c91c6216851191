----------------------------- MODULE MCNvhttp -----------------------------
(***************************************************************************)
(* Model values and symmetry for Nvhttp, a few numbers, and what Sunshine  *)
(* may offer: nothing, no Desktop, a Desktop behind another app, one       *)
(* behind an app without an id, and one whose own id is not a number.      *)
(***************************************************************************)
EXTENDS Nvhttp, TLC

MCNumerals == {<<Word("0")>>, <<Word("1")>>, <<Word("2")>>}
MCApp(title, id) == [title |-> <<Word(title)>>, id |-> id]
MCSteam == MCApp("Steam", <<Space, Word("1")>>)
MCOffers ==
    {<<>>,
     <<MCSteam>>,
     <<MCSteam, MCApp("desktop", <<Word("2")>>)>>,
     <<[title |-> <<Word("Steam")>>, id |-> None], MCApp("Desktop", <<Word("2")>>)>>,
     <<[title |-> None, id |-> <<Word("2")>>], MCSteam,
       MCApp("Desktop", <<Word("x")>>)>>}

PairingSymmetry ==
    Permutations(Sessions) \cup Permutations(Identities) \cup Permutations(Pins)
=============================================================================
