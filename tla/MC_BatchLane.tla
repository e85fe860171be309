---------------------------- MODULE MC_BatchLane ----------------------------
(***************************************************************************)
(* BatchLane with four calls: three small ones for one model and a large   *)
(* one for another.                                                        *)
(***************************************************************************)
EXTENDS BatchLane

CONSTANTS a1, a2, a3, b1

MCModelOf == [c \in Calls |-> IF c = b1 THEN "b" ELSE "a"]

MCBytesOf == [c \in Calls |-> IF c = b1 THEN 5 ELSE 2]
=============================================================================
