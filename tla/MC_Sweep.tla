------------------------------ MODULE MC_Sweep ------------------------------
(***************************************************************************)
(* Sweep on a folder of two files.  The first has one row and is written   *)
(* once; the second has two, and is changed into a version that looks like *)
(* the one before and names the keyed fragment, into one older than the    *)
(* cutoff, or deleted.                                                     *)
(***************************************************************************)
EXTENDS Sweep

MCVersionMax == <<1, 3>>

\* Three looks: none, recent, old.
MCLooks == [f \in 1..2 |-> [v \in 0..MCVersionMax[f] |-> IF v < 2 THEN v ELSE v - 1]]

MCRecent == {1}

MCAnchoring == {<<2, 2>>}

MCRowCount == [s \in Items |-> IF s = 2 THEN 2 ELSE 1]

MCDials == {[rebuild |-> FALSE, budget |-> 1], [rebuild |-> TRUE, budget |-> 2]}
=============================================================================
