------------------------------ MODULE MCRmFile ------------------------------
(* Values for TLC. *)
EXTENDS RmFile

CONSTANTS t1, t2

TwoSessions == {t1, t2}
=============================================================================
