-------------------------- MODULE MCSkillInstaller --------------------------
(***************************************************************************)
(* A small instance of SkillStatus for TLC: two targets, two commands,     *)
(* which are interchangeable, and beside them one change by someone else   *)
(* or one run of status.                                                   *)
(***************************************************************************)
EXTENDS SkillStatus, TLC

CONSTANTS p1, p2

MCCommands == {p1, p2}
MCTargets == <<"codex", "claude">>
AnyCommand == Permutations(MCCommands)

=============================================================================
