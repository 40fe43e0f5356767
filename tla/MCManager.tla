------------------------------ MODULE MCManager ------------------------------
(* Manager for TLC: two names; every combination of the parts.             *)
EXTENDS Manager

CONSTANTS n1, n2

MCNames   == {n1, n2}
AllBuilds == SUBSET Parts
=============================================================================
