-------------------------- MODULE MCClientSession --------------------------
(* Values for TLC: BEGIN, an end and one statement more need three. *)
EXTENDS ClientSession, TLC

CONSTANTS c1, c2

MCConn == {c1, c2}
MCMaxStatements == c1 :> 3 @@ c2 :> 1
=============================================================================
