------------------------- MODULE MCCheckpointRevert -------------------------
(***************************************************************************)
(* Small instances of CheckpointRevert for TLC.                            *)
(***************************************************************************)
EXTENDS CheckpointRevert, TLC

TwoPaths == {1, 2}
OnePath == {1}
MCSymmetry == Permutations(Commands) \union Permutations(Versions)

=============================================================================
