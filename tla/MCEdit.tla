------------------------------- MODULE MCEdit -------------------------------
(* The offline editor with a batch of a few commands.                      *)
EXTENDS CyanfsEdit
=============================================================================
