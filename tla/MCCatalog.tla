----------------------------- MODULE MCCatalog -----------------------------
(* Values for TLC. *)
EXTENDS Catalog

CONSTANTS t1, t2, a, b

MCTable == {t1, t2}
MCIndex == {a, b}
=============================================================================
