----------------------------- MODULE MC_Sessions -----------------------------
(* Two nodes that dial each other, a third that dials the first, which has *)
(* room for one session; the first expels the second.                      *)
EXTENDS Sessions

MCDials      == {<<1, 2>>, <<2, 1>>, <<3, 1>>}
MCExpellable == {<<1, 2>>}
=============================================================================
