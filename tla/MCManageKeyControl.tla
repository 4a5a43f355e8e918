------------------------- MODULE MCManageKeyControl -------------------------
(* Values of the constants of ManageKeyControl for TLC. *)
EXTENDS ManageKeyControl, TLC

CONSTANTS c1, k1, k2, b1, b2, w1, s1

Symmetry ==
  Permutations(Client) \cup Permutations(Key) \cup Permutations(Browser) \cup Permutations(Call)
=============================================================================
