---------------------------- MODULE RosterAdmission ----------------------------
(***************************************************************************)
(* Who may connect to one node: the roster plugin's admission view over    *)
(* the roster tables of the store (inseam-plugins/src/roster/mod.rs).      *)
(*                                                                         *)
(* The store changes underneath, as sync lands peers' records              *)
(* (AddressSync).  The view is refreshed by the reconciler, by every expel *)
(* and every republish call, each with two queries and a replacement, so   *)
(* refreshes overlap and the later one to finish wins.  Handshakes ask the *)
(* view at any time; redeeming an invitation takes one lock and            *)
(* remembering the newcomer another.                                       *)
(***************************************************************************)
EXTENDS Integers, FiniteSets, Sequences

CONSTANTS Local,       \* this node
          Peers,       \* every other node
          Tokens,      \* bound: the invitations it ever mints, by number
          Callers,     \* expel and republish calls that can run at once
          Joining,     \* the peers whose node record may arrive
          Expellable,  \* the nodes an expulsion may name
          OpenMax,     \* INVITATIONS_OPEN_MAX
          InvitedMax,  \* INVITED_PENDING_MAX
          HandshakesMax \* HANDSHAKES_IN_FLIGHT_MAX

Reconciler == "reconciler"
Tasks      == Callers \cup {Reconciler}
None       == "none"

ASSUME AdmissionAssumption ==
    /\ Local \notin Peers
    /\ Joining \subseteq Peers
    /\ Expellable \subseteq Peers \cup {Local}
    /\ Reconciler \notin Callers
    /\ None \notin Peers \cup {Local}
    /\ Tokens \subseteq Nat
    /\ OpenMax \in Nat \ {0} /\ InvitedMax \in Nat \ {0} /\ HandshakesMax \in Nat \ {0}

VARIABLES rows,      \* roster_nodes: the peers with a node record
          expelled,  \* roster_expulsions
          view,      \* the AdmissionCache
          minted,    \* the tokens ever minted
          open,      \* OpenInvitations: the tokens neither redeemed nor expired
          redeeming, \* handshakes about to redeem: <<peer, token>>
          newcomers, \* handshakes that redeemed and have not remembered the peer
          task,      \* where each refresh stands and what it has read
          heard,     \* history variable: peers whose record was ever in the store
          spent,     \* history variable: who redeemed which token
          barred     \* history variable: expulsions nobody else's refresh overlapped

store  == <<rows, expelled>>
ledger == <<minted, open, redeeming, newcomers, spent>>
vars   == <<store, view, ledger, task, heard, barred>>

Nodes == Peers \cup {Local}

\* roster_nodes hides the expelled.
Listed == rows \ expelled

Resting == [at |-> "idle", target |-> None, alone |-> FALSE, known |-> {}, expelled |-> {}]

\* The first pass runs before the policy is installed.
FirstView == [known |-> Listed \cup {Local}, expelled |-> expelled, invited |-> <<>>]

Init ==
    /\ rows = {} /\ expelled = {}
    /\ view = FirstView
    /\ minted = {} /\ open = {} /\ redeeming = {} /\ newcomers = {}
    /\ task = [t \in Tasks |-> Resting]
    /\ heard = {} /\ spent = {} /\ barred = {}

-----------------------------------------------------------------------------
(* The store, as sync writes it *)

\* A node record lands; after an expulsion too, if some peer still ships it.
Hear(p) ==
    /\ rows' = rows \cup {p}
    /\ heard' = heard \cup {p}
    /\ UNCHANGED <<expelled, view, ledger, task, barred>>

\* A new epoch of the peer's log purges its rows; its node record need not
\* be the first entry that follows.
Supersede(p) ==
    /\ p \in rows
    /\ rows' = rows \ {p}
    /\ UNCHANGED <<expelled, view, ledger, task, heard, barred>>

Expulsion(x) ==
    /\ rows' = rows \ {x}
    /\ expelled' = expelled \cup {x}

HearExpulsion(x) ==
    /\ x \in Expellable
    /\ Expulsion(x)
    /\ UNCHANGED <<view, ledger, task, heard, barred>>

-----------------------------------------------------------------------------
(* Invitations and handshakes *)

\* Which token it is does not matter: the least that is left.
Mint(k) ==
    /\ k \notin minted /\ \A j \in Tokens \ minted : k <= j
    /\ Cardinality(open) < OpenMax
    /\ minted' = minted \cup {k}
    /\ open' = open \cup {k}
    /\ UNCHANGED <<store, view, redeeming, newcomers, spent, task, heard, barred>>

\* Mint and redeem prune before they look, so an expired token is as good as
\* gone.
Expire(k) ==
    /\ k \in open
    /\ open' = open \ {k}
    /\ UNCHANGED <<store, view, minted, redeeming, newcomers, spent, task, heard, barred>>

IsInvited(p) == \E i \in DOMAIN view.invited : view.invited[i] = p

\* WRONG: members and invited peers first.
VerdictMembersFirst(p) ==
    CASE p \in view.known \/ IsInvited(p) -> "admitted"
      [] p \in view.expelled -> "refused"
      [] OTHER -> "stranger"

\* admit: the expelled first, then members and invited peers.
Verdict(p) ==
    CASE p \in view.expelled -> "refused"
      [] p \notin view.expelled /\ (p \in view.known \/ IsInvited(p)) -> "admitted"
      [] OTHER -> "stranger"

\* A handshake is judged by the view of its moment; one that is admitted or
\* refused on sight leaves no trace here, nor does one with a token that is
\* closed, since it stays closed.  The acceptor refuses a handshake too many.
Present(p, k) ==
    /\ Verdict(p) = "stranger"
    /\ k \in open
    /\ Cardinality(redeeming) + Cardinality(newcomers) < HandshakesMax
    /\ redeeming' = redeeming \cup {<<p, k>>}
    /\ UNCHANGED <<store, view, minted, open, newcomers, spent, task, heard, barred>>

\* WRONG: a token stays open until it expires.
RedeemReusably(p, k) ==
    /\ <<p, k>> \in redeeming
    /\ redeeming' = redeeming \ {<<p, k>>}
    /\ open' = open
    /\ IF k \in open
       THEN newcomers' = newcomers \cup {p} /\ spent' = spent \cup {<<p, k>>}
       ELSE UNCHANGED <<newcomers, spent>>
    /\ UNCHANGED <<store, view, minted, task, heard, barred>>

Redeem(p, k) ==
    /\ <<p, k>> \in redeeming
    /\ redeeming' = redeeming \ {<<p, k>>}
    /\ open' = open \ {k}
    /\ IF k \in open
       THEN newcomers' = newcomers \cup {p} /\ spent' = spent \cup {<<p, k>>}
       ELSE UNCHANGED <<newcomers, spent>>
    /\ UNCHANGED <<store, view, minted, task, heard, barred>>

\* remember_invited: a full list forgets the oldest.
Remember(p) ==
    /\ p \in newcomers
    /\ newcomers' = newcomers \ {p}
    /\ view' = IF IsInvited(p) THEN view
               ELSE [view EXCEPT !.invited =
                       Append(IF Len(@) >= InvitedMax THEN Tail(@) ELSE @, p)]
    /\ UNCHANGED <<store, minted, open, redeeming, spent, task, heard, barred>>

-----------------------------------------------------------------------------
(* Refreshing the view: refresh_cache *)

ReadsNow(t) == task[t].at \in {"members", "expelled", "replace"}

\* The reconciler was woken or its poll elapsed; or a republish call has
\* written the node's own record, which the view does not depend on.
StartRefresh(t) ==
    /\ task[t].at = "idle"
    /\ task' = [task EXCEPT ![t] = [Resting EXCEPT !.at = "members"]]
    /\ UNCHANGED <<store, view, ledger, heard, barred>>

\* expel publishes, disconnects and refreshes.
StartExpel(c, x) ==
    /\ x \in Expellable \ {Local}
    /\ task[c].at = "idle"
    /\ Expulsion(x)
    /\ task' = [task EXCEPT ![c] = [Resting EXCEPT !.at = "members", !.target = x,
                                                   !.alone = \A t \in Tasks : ~ReadsNow(t)]]
    /\ UNCHANGED <<view, ledger, heard, barred>>

ReadMembers(t) ==
    /\ task[t].at = "members"
    /\ task' = [task EXCEPT ![t].at = "expelled", ![t].known = Listed \cup {Local}]
    /\ UNCHANGED <<store, view, ledger, heard, barred>>

ReadExpelled(t) ==
    /\ task[t].at = "expelled"
    /\ task' = [task EXCEPT ![t].at = "replace", ![t].expelled = expelled]
    /\ UNCHANGED <<store, view, ledger, heard, barred>>

\* WRONG: an error in a pass ends the reconciler's loop.
FailReadForGood(t) ==
    /\ task[t].at \in {"members", "expelled"}
    /\ task' = [task EXCEPT ![t] = [Resting EXCEPT !.at = IF t = Reconciler THEN "ended" ELSE "idle"]]
    /\ UNCHANGED <<store, view, ledger, heard, barred>>

\* A query fails: the pass is given up and logged, the call returns the error.
FailRead(t) ==
    /\ task[t].at \in {"members", "expelled"}
    /\ task' = [task EXCEPT ![t] = Resting]
    /\ UNCHANGED <<store, view, ledger, heard, barred>>

NeverBoth(t) == task[t].known \cap task[t].expelled = {}

\* Only an expel call has something left to do.
Refreshed(t) == IF task[t].target = None THEN Resting ELSE [task[t] EXCEPT !.at = "confirm"]

\* WRONG: the invited are forgotten with every refresh.
ReplaceForgetting(t) ==
    /\ task[t].at = "replace" /\ NeverBoth(t)
    /\ view' = [known |-> task[t].known, expelled |-> task[t].expelled, invited |-> <<>>]
    /\ task' = [task EXCEPT ![t] = Refreshed(t)]
    /\ UNCHANGED <<store, ledger, heard, barred>>

\* What Vec::retain leaves of a list: all that is not among the settled, in
\* order.
Retained(list, settled) ==
    LET first[i \in 0..Len(list)] ==
          IF i = 0 THEN <<>>
          ELSE IF list[i] \in settled THEN first[i - 1] ELSE Append(first[i - 1], list[i])
    IN  first[Len(list)]

\* AdmissionCache::replace.
Replace(t) ==
    /\ task[t].at = "replace" /\ NeverBoth(t)
    /\ view' = [known |-> task[t].known, expelled |-> task[t].expelled,
                invited |-> Retained(view.invited, task[t].known \cup task[t].expelled)]
    /\ task' = [task EXCEPT ![t] = Refreshed(t)]
    /\ UNCHANGED <<store, ledger, heard, barred>>

\* Its assertion fails: a call fails alone, but the reconciler's task is
\* gone for as long as the process lives.
FailAssertion(t) ==
    /\ task[t].at = "replace" /\ ~NeverBoth(t)
    /\ task' = [task EXCEPT ![t] = IF t = Reconciler THEN [Resting EXCEPT !.at = "dead"] ELSE Resting]
    /\ UNCHANGED <<store, view, ledger, heard, barred>>

\* expel asserts that what it published is in the view, and returns; a
\* refresh that overtook it fails the call.
Confirm(c) ==
    LET x == task[c].target IN
    /\ task[c].at = "confirm"
    /\ barred' = IF task[c].alone /\ x \in view.expelled \ view.known
                 THEN barred \cup {x} ELSE barred
    /\ task' = [task EXCEPT ![c] = Resting]
    /\ UNCHANGED <<store, view, ledger, heard>>

-----------------------------------------------------------------------------
(* Restarts *)

\* The memory is lost, invitations and invited peers with it.  A node that
\* knows itself expelled does not come up: the first pass fails the
\* assertion.
Restart ==
    /\ Local \notin expelled
    /\ view' = FirstView
    /\ open' = {} /\ redeeming' = {} /\ newcomers' = {}
    /\ task' = [t \in Tasks |-> Resting]
    /\ UNCHANGED <<store, minted, spent, heard, barred>>

-----------------------------------------------------------------------------
StoreChanges == \/ \E p \in Joining : Hear(p) \/ Supersede(p)
                \/ \E x \in Nodes : HearExpulsion(x)

Handshakes == \E p \in Peers : \/ Remember(p)
                               \/ \E k \in Tokens : Present(p, k) \/ Redeem(p, k)

Refreshes(t) == ReadMembers(t) \/ ReadExpelled(t) \/ FailRead(t) \/ Replace(t) \/ FailAssertion(t)

Next == \/ StoreChanges
        \/ \E k \in Tokens : Mint(k) \/ Expire(k)
        \/ Handshakes
        \/ \E c \in Callers : Confirm(c) \/ \E x \in Nodes : StartExpel(c, x)
        \/ \E t \in Tasks : StartRefresh(t) \/ Refreshes(t)
        \/ Restart

Spec == Init /\ [][Next]_vars

\* The poll starts a pass whatever becomes of the wakes; queries do not fail
\* for ever.  Nothing is assumed of anybody else.
Fairness ==
    /\ WF_vars(StartRefresh(Reconciler))
    /\ SF_vars(ReadMembers(Reconciler))
    /\ SF_vars(ReadExpelled(Reconciler))
    /\ WF_vars(Replace(Reconciler) \/ FailAssertion(Reconciler))

FairSpec == Spec /\ Fairness

-----------------------------------------------------------------------------
(* What must hold *)

\* Once an expel call has returned that no other refresh overlapped when it
\* published, the node is refused for good: through every later refresh, a
\* record that comes back, an invitation redeemed meanwhile and restarts.
BarredAreRefused == \A x \in barred : Verdict(x) = "refused"

\* A token is redeemed by one peer, however many handshakes present it and
\* whatever was forgotten in between.
TokenAdmitsOne == \A s, u \in spent : s[2] = u[2] => s = u

\* A newcomer is remembered until the store has shown its record or its
\* expulsion, or another newcomer takes the place of the oldest in a full
\* list; only a restart forgets the list.
NewcomersAreKept ==
    [][\/ Restart
       \/ \A i \in DOMAIN view.invited :
            LET p == view.invited[i] IN
            \/ \E j \in DOMAIN view'.invited : view'.invited[j] = p
            \/ p \in heard \cup expelled
            \/ i = 1 /\ Len(view.invited) = InvitedMax /\ Len(view'.invited) = InvitedMax]_vars

Dead == task[Reconciler].at = "dead"

\* What the store says reaches the view, whatever stale refreshes replace it
\* meanwhile: the expelled are refused for good, and members are known once
\* membership stands still.  A reconciler that keeps failing its assertion is
\* the only way out.
ViewCatchesUp ==
    \/ []<>Dead
    \/ /\ <>[](expelled \subseteq view.expelled)
       /\ <>[][FALSE]_rows => <>[](Listed \subseteq view.known)
=============================================================================
