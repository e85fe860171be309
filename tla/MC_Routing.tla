----------------------------- MODULE MC_Routing -----------------------------
(***************************************************************************)
(* Routing with five nodes: the requester r, the steward s, and b, c and d *)
(* between them, of which c is named a steward too, in the roster alone    *)
(* or in fact.  With a budget of two relays the walk r b c d s is too      *)
(* long, the others are not.                                               *)
(***************************************************************************)
EXTENDS Routing

CONSTANTS r, b, c, d, s

Pairs == {{r, b}, {r, c}, {b, c}, {c, d}, {d, s}, {b, s}}

\* Two links may be missing; all three relay and have their sessions, or b
\* neither relays nor has a session with s yet.
MCNetworks ==
    {[link |-> l, session |-> l, relays |-> {b, c, d}] : l \in {x \in SUBSET Pairs : Cardinality(x) >= 4}}
      \cup {[link |-> l, session |-> l \ {{b, s}}, relays |-> {c, d}] :
              l \in {x \in SUBSET Pairs : Cardinality(x) >= 4}}

\* The requester has no record of s.
MCRoster == [n \in Nodes |-> IF n = r THEN Nodes \ {s} ELSE Nodes]

\* What FoundIfReachable presupposes is so here.
ASSUME MCPremises == NothingIsCut /\ NoShortcuts
=============================================================================
