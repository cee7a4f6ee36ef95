-------------------------- MODULE MCInvestigations --------------------------
(***************************************************************************)
(* Instances of Investigations for TLC.                                     *)
(***************************************************************************)
EXTENDS Investigations

CONSTANTS a1, a2, s1, c1, stranger, t1, t2

=============================================================================
