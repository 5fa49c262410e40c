------------------------- MODULE MCEditorExtension -------------------------
(***************************************************************************)
(* A small instance of EditorExtension for TLC: four collectors started    *)
(* one after the other and one reload of the window.                       *)
(***************************************************************************)
EXTENDS EditorExtension

FourChildren == 1..4

=============================================================================
