------------------------------ MODULE MCHarLog ------------------------------
(***************************************************************************)
(* An instance of HarLog for TLC: a trip of any kind and a plain one that  *)
(* runs at the same time.                                                  *)
(***************************************************************************)
EXTENDS HarLog

CONSTANTS first, second

BothTrips == {first, second}
Plain == [https |-> FALSE, recordable |-> TRUE]
OfAnyKind == [t \in BothTrips |-> IF t = first THEN [https : BOOLEAN, recordable : BOOLEAN] ELSE {Plain}]
IdleForFirst == [t \in BothTrips |-> IF t = first THEN 1 ELSE 0]
=============================================================================
