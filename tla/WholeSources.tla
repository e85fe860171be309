---------------------------- MODULE WholeSources ----------------------------
(***************************************************************************)
(* What indexing promises the rest of the node, one source at a time and   *)
(* whatever batches, stages, runs and crashes it takes: a source is        *)
(* replaced in one step, becomes searchable row by row, and is marked      *)
(* indexed only when all of it is; a search is refused rather than         *)
(* answered from tables that are being built anew.                         *)
(***************************************************************************)
CONSTANTS Items,         \* the sources
          Subtree(_, _)  \* the searchable rows of a source with a content

VARIABLES content,   \* what each source's landed subtree was made from
          shown,     \* the rows the search tables hold
          marked,    \* the sources marked indexed, with a subtree
          refusing   \* searches are refused

vars == <<content, shown, marked, refusing>>

Of(s) == Subtree(s, content[s])

Whole(s) == Of(s) \subseteq shown

Init ==
    /\ content  = [s \in Items |-> {}]
    /\ shown    = {}
    /\ marked   = {}
    /\ refusing = FALSE

\* A source gets another subtree, or none: nothing of the old one is left.
Replace(s) ==
    /\ \E c \in {content'[s]} : content' = [content EXCEPT ![s] = c]
    /\ shown' = shown \ Of(s)
    /\ marked' = marked \ {s}
    /\ UNCHANGED refusing

\* Sources lose their mark, and nothing else.
Unmark ==
    /\ marked' \subseteq marked
    /\ UNCHANGED <<content, shown, refusing>>

\* More of some sources is searchable, and some are marked, each of them
\* whole.
Show ==
    /\ shown \subseteq shown'
    /\ \A r \in shown' \ shown : \E s \in Items : r \in Of(s)
    /\ marked \subseteq marked'
    /\ \A s \in marked' \ marked : Of(s) \subseteq shown'
    /\ UNCHANGED <<content, refusing>>

\* The tables are to be built anew, are emptied, and are complete.
Refuse == refusing' /\ UNCHANGED <<content, shown, marked>>

Empty == refusing /\ shown' = {} /\ UNCHANGED <<content, marked, refusing>>

Answer ==
    /\ ~refusing'
    /\ \A s \in marked : Whole(s)
    /\ UNCHANGED <<content, shown, marked>>

Next == \/ \E s \in Items : Replace(s)
        \/ Unmark \/ Show \/ Refuse \/ Empty \/ Answer

Spec == Init /\ [][Next]_vars
=============================================================================
