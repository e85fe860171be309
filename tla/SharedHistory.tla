---------------------------- MODULE SharedHistory ----------------------------
(***************************************************************************)
(* What replicating the address log promises, whatever exchanges, batches, *)
(* rounds, timeouts and late requests it takes: every node writes a log of *)
(* its own; everyone else takes entries over one at a time, each only once *)
(* no earlier one of its log is missing; what a later entry voids, what a  *)
(* new epoch replaces and what an expelled node wrote goes in the same     *)
(* step.  There are no vectors, no messages and no batches here.           *)
(***************************************************************************)
EXTENDS Naturals

CONSTANTS Nodes,
          Entries,      \* what can be written: .origin, .epoch and .seq say where
          First(_),     \* the entry a node's log begins with
          Voids(_, _),  \* an entry makes an earlier one of its log void
          Expels(_)     \* the nodes an entry expels

VARIABLES history,  \* every entry ever written
          held      \* the entries each node holds

vars == <<history, held>>

SameLog(e, f) == e.origin = f.origin /\ e.epoch = f.epoch

Precedes(f, e) == /\ f.origin = e.origin
                  /\ f.epoch < e.epoch \/ (f.epoch = e.epoch /\ f.seq < e.seq)

Void(f) == \E e \in history : Voids(e, f)

Outcasts == UNION {Expels(e) : e \in history}

\* What a node holds once it has taken an entry over.
With(n, e) ==
    {f \in held[n] : /\ ~Voids(e, f)
                     /\ f.origin = e.origin => f.epoch = e.epoch
                     /\ f.origin \notin Expels(e) \ {n, e.origin}}
      \cup {e}

Init ==
    /\ history = {First(n) : n \in Nodes}
    /\ held = [n \in Nodes |-> {First(n)}]

\* The next entry of the node's own log.
Write(n) ==
    \E e \in held'[n] \ held[n] :
        /\ e \in Entries /\ e.origin = n
        /\ \A f \in history : f.origin = n => Precedes(f, e)
        /\ \E f \in held[n] : SameLog(f, e) /\ e.seq = f.seq + 1
        /\ history' = history \cup {e}
        /\ held' = [held EXCEPT ![n] = With(n, e)]

\* The node lost its store: it holds the first entry of a new epoch.
StartOver(n) ==
    \E e \in held'[n] \ held[n] :
        /\ e \in Entries /\ e.origin = n /\ e.seq = 1
        /\ \A f \in history : f.origin = n => f.epoch < e.epoch
        /\ history' = history \cup {e}
        /\ held' = [held EXCEPT ![n] = {e}]

\* Nothing that was written before an entry is missing, unless it is void.
\* (Of a node that was ever expelled anything may be.)
NoGapBefore(n, e) ==
    e.origin \in Outcasts \/ \A f \in history :
        SameLog(f, e) /\ Precedes(f, e) => f \in held[n] \/ Void(f)

\* The node takes over an entry past everything it holds of that origin.
Learn(n) ==
    \E e \in held'[n] \ held[n] :
        /\ e \in history /\ e.origin # n
        /\ \A f \in held[n] : f.origin = e.origin => Precedes(f, e)
        /\ NoGapBefore(n, e)
        /\ held' = [held EXCEPT ![n] = With(n, e)]
        /\ UNCHANGED history

Next == \E n \in Nodes : Write(n) \/ StartOver(n) \/ Learn(n)

Spec == Init /\ [][Next]_vars
=============================================================================
