----------------------------- MODULE MCIngestion -----------------------------
(* Ingestion on a small instance: see Ingestion.cfg. *)
EXTENDS Ingestion

CONSTANTS caller1, item1

\* Version 1 is claimed by one scanner, version 2 by two others.
OneThenTwo(v) == IF v = 1 THEN {"movie"} ELSE {"tv", "book"}
=============================================================================
