------------------------------ MODULE MCProbes ------------------------------
(* Every assertion that talks to another process, on small bounds.         *)
EXTENDS Probes

MCKinds == DOMAIN Script
=============================================================================
