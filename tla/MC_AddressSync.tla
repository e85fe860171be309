--------------------------- MODULE MC_AddressSync ---------------------------
(***************************************************************************)
(* AddressSync on small networks: what the configurations share.           *)
(***************************************************************************)
EXTENDS AddressSync, TLC

\* Envelopes are interchangeable.
MCSymmetry == Permutations(Envelopes)

\* How often each node may write in an epoch, or how many epochs its log may
\* have: the first node the most.
Once       == [n \in Nodes |-> 1]
FirstTwo   == [n \in Nodes |-> IF n = 1 THEN 2 ELSE 1]
FourAndTwo == [n \in Nodes |-> IF n = 1 THEN 4 ELSE 2]

\* Two laptops (1 and 3) dial out to a backbone (2) and never reach each
\* other; or one node dials the other.
Backbone == {<<1, 2>>, <<3, 2>>}
DialOut  == {<<1, 2>>}
=============================================================================
