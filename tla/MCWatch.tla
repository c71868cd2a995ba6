------------------------------- MODULE MCWatch ------------------------------
(***************************************************************************)
(* Watch with two edits, hence up to three runs, of which the last two may *)
(* overlap, and one chmod-only event between them.                         *)
(***************************************************************************)
EXTENDS Watch
=============================================================================
