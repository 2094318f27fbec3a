-------------------------- MODULE MCHotkeyService --------------------------
(***************************************************************************)
(* Small instances of HotkeyService for TLC.                               *)
(***************************************************************************)
EXTENDS HotkeyService, TLC

\* Bound: a behaviour has several sessions, which hear nothing, or one, which hears much.
HearsAlone ==
  \/ Cardinality({s \in Starts : startPc[s] # "idle"}) <= 1
  \/ \A s \in Starts : WithFate(fate[s], "unheard") = Chunks

\* Sessions are interchangeable, and so are stop requests.
Symmetry == Permutations(Starts) \cup Permutations(Stops)
=============================================================================
