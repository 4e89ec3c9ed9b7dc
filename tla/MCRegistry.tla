------------------------------ MODULE MCRegistry ------------------------------
(***************************************************************************)
(* Instances of CyanfsRegistry for TLC.                                    *)
(***************************************************************************)
EXTENDS CyanfsRegistry

\* The passing run ends where a reference has been taken from its holder.  Its
\* properties say nothing of the states after that, and no fair action leads
\* there.
NotStolen == ~stolen
===============================================================================
