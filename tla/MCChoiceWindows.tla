-------------------------- MODULE MCChoiceWindows --------------------------
(* The instances are in the configurations. *)
EXTENDS ChoiceWindows
=============================================================================
