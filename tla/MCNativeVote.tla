---------------------------- MODULE MCNativeVote ----------------------------
(* Small instances of the signing journal and the vote page for TLC. *)
EXTENDS NativeVote, TLC

Symmetry == Permutations(Tabs)

=============================================================================
