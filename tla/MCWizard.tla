------------------------------ MODULE MCWizard ------------------------------
(* TLC instance of Wizard: two server names.                               *)
EXTENDS Wizard, TLC

CONSTANTS n1, n2

MCNames == {n1, n2}
=============================================================================
