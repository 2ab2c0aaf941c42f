---------------------------- MODULE MCEventGate -----------------------------
(***************************************************************************)
(* A small instance of EventGate for TLC.                                  *)
(***************************************************************************)
EXTENDS EventGate

CONSTANTS send, d1, g1, g2, v1, v2, h

OneSend == {send}
OneDelete == {d1}
TwoGates == {g1, g2}
TwoVetoes == {v1, v2}
OneHook == {h}

\* Two rows of each pair of kinds.
PairsOfRows == {{g1, g2}, {g1, v1}, {v1, v2}, {g1, h}, {v1, h}}

=============================================================================
