------------------------------ MODULE MCStress ------------------------------
(***************************************************************************)
(* Four runs of a test by two workers, with two error messages.            *)
(***************************************************************************)
EXTENDS Stress

CONSTANTS timeout, mismatch, none

MCMessages == {timeout, mismatch}
=============================================================================
