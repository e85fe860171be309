------------------------------- MODULE Routing -------------------------------
(***************************************************************************)
(* One routed read (inseam-plugins/src/routing: mod.rs route, serve.rs     *)
(* serve_checked, relay, forward_to, try_peer) of a host that the          *)
(* requester does not steward.  Every node that forwards it holds a frame, *)
(* named by the path the request took to it, itself included; a frame asks *)
(* one candidate at a time and hands the first answer back.  An exchange   *)
(* that times out leaves the frames below it at work: nobody tells them.   *)
(*                                                                         *)
(* Candidates are asked in any order (the code has the roster's, then the  *)
(* transport's), which of them `take` keeps included.                      *)
(***************************************************************************)
EXTENDS Integers, Sequences, FiniteSets, Functions

CONSTANTS Nodes,
          Requester,
          Stewards,          \* the nodes the roster names stewards of the host
          Roster,            \* the nodes each node has a roster record of
          HopsMax,           \* HOPS_MAX
          StewardsTriedMax,  \* STEWARDS_TRIED_MAX
          RelayPeersMax,     \* RELAY_PEERS_MAX
          Networks,          \* how the nodes may be set up: their links, their
                             \* sessions at the start, and which of them relay
          FaultsMax,         \* bound: exchanges cut short, sessions closed,
                             \* connections withdrawn
          None

ASSUME RoutingAssumption ==
    /\ Requester \in Nodes
    /\ Stewards \subseteq Nodes /\ Stewards \ {Requester} # {}
    /\ Roster \in [Nodes -> SUBSET Nodes]
    /\ HopsMax \in Nat /\ StewardsTriedMax \in Nat /\ RelayPeersMax \in Nat
    /\ FaultsMax \in Nat
    /\ Networks \subseteq [link : SUBSET (SUBSET Nodes), session : SUBSET (SUBSET Nodes),
                         relays : SUBSET Nodes]
    /\ None \notin Nodes

VARIABLES wired,    \* how they are: a dial succeeds over a link
          serving,  \* the nodes with a connection to the host
          session,  \* the sessions there are
          request,  \* requests sent and not yet handled
          frame,    \* by path: what a forwarding node is at
          outcome,  \* what the requester was told
          faults    \* how many faults there have been

vars == <<wired, serving, session, request, frame, outcome, faults>>

network == <<wired, serving>>

VisitedMax == HopsMax + 1

Linked(n, m) == {n, m} \in wired.link

SessionPeers(n) == {m \in Nodes \ {n} : {n, m} \in session}

Take(nodes, n) ==
    IF Cardinality(nodes) <= n THEN {nodes} ELSE {s \in SUBSET nodes : Cardinality(s) = n}

At(path) == path[Len(path)]

\* forward_to at its start: nobody asked, the stewards to be asked.
Forwarding(hops, candidates) ==
    [hops |-> hops, left |-> candidates, tried |-> {}, relaying |-> FALSE,
     asking |-> None, heard |-> "nothing"]

\* WRONG: the visited list is not consulted.
CandidatesAnywhere(nodes, path) == nodes \ {At(path)}

\* Neither this node nor one the request has crossed.
Candidates(nodes, path) == nodes \ Range(path)

\* A reply to whoever forwarded the request, if it still waits.
Replied(fs, path, to, what) ==
    IF path \in DOMAIN fs /\ fs[path].asking = to /\ fs[path].heard = "nothing"
    THEN [fs EXCEPT ![path].heard = what] ELSE fs

-----------------------------------------------------------------------------
(* A forwarding node: forward_to, try_peer *)

Idle(path) == path \in DOMAIN frame /\ frame[path].asking = None

\* The next candidate is asked, which opens a session; one that is not in the
\* roster or cannot be dialed is passed over.
Ask(path) ==
    /\ Idle(path)
    /\ \E peer \in frame[path].left :
         LET me == At(path) IN
         IF peer \in Roster[me] /\ Linked(me, peer)
         THEN /\ frame' = [frame EXCEPT ![path].left = @ \ {peer}, ![path].tried = @ \cup {peer},
                                        ![path].asking = peer]
              /\ request' = request \cup {[visited |-> path, to |-> peer, hops |-> frame[path].hops]}
              /\ session' = session \cup {{me, peer}}
         ELSE /\ frame' = [frame EXCEPT ![path].left = @ \ {peer}, ![path].tried = @ \cup {peer}]
              /\ UNCHANGED <<request, session>>
    /\ UNCHANGED <<network, outcome, faults>>

\* No steward answered: the peers with a session, as they are now.
TurnToPeers(path) ==
    /\ Idle(path)
    /\ frame[path].left = {} /\ ~frame[path].relaying
    /\ \E peers \in Take(Candidates(SessionPeers(At(path)), path) \ frame[path].tried, RelayPeersMax) :
          frame' = [frame EXCEPT ![path].left = peers, ![path].relaying = TRUE]
    /\ UNCHANGED <<network, session, request, outcome, faults>>

\* The frame ends: the reply goes to the node before it on the path, or to the
\* requester's caller.
End(path, what) ==
    LET rest  == Restrict(frame, DOMAIN frame \ {path})
        above == SubSeq(path, 1, Len(path) - 1)
    IN
    /\ frame' = Replied(rest, above, At(path), what)
    /\ outcome' = IF Len(path) = 1 THEN what ELSE outcome

\* Nobody that was tried answered.
GiveUp(path) ==
    /\ Idle(path)
    /\ frame[path].left = {} /\ frame[path].relaying
    /\ End(path, "unreachable")
    /\ UNCHANGED <<network, session, request, faults>>

Heard(path) ==
    /\ path \in DOMAIN frame
    /\ frame[path].heard # "nothing"
    /\ UNCHANGED <<network, session, request, faults>>

\* WRONG: a candidate that did not answer is asked again.
AskedAgain(path) ==
    frame' = [frame EXCEPT ![path].asking = None, ![path].heard = "nothing",
                           ![path].left = @ \cup {frame[path].asking}]

PassedOver(path) == frame' = [frame EXCEPT ![path].asking = None, ![path].heard = "nothing"]

\* WRONG: "not through me" is taken for an answer.
AnswersOfAnyKind(reply) == TRUE

\* "Not through me" is no answer; anything else is, a typed error included.
Answers(reply) == reply # "unreachable"

HearAnswer(path) == Heard(path) /\ Answers(frame[path].heard) /\ End(path, frame[path].heard)

HearUnreachable(path) ==
    Heard(path) /\ ~Answers(frame[path].heard) /\ PassedOver(path) /\ UNCHANGED outcome

Waiting(path) == path \in DOMAIN frame /\ frame[path].asking # None /\ frame[path].heard = "nothing"

\* request_timeout runs out, or the exchange fails for another reason; the
\* request is on its way still, or lost.
TimeOut(path) ==
    /\ Waiting(path)
    /\ PassedOver(path)
    /\ faults' = faults + 1
    /\ LET q == [visited |-> path, to |-> frame[path].asking, hops |-> frame[path].hops] IN
       request' \in {request, request \ {q}}
    /\ UNCHANGED <<network, session, outcome>>

-----------------------------------------------------------------------------
(* A node that is asked: serve_checked, relay *)

Visited(q) == Append(q.visited, q.to)

HopsLeft(q) == q.hops - 1

\* A node that neither serves the host nor has a reason not to relay.
IsForwarded(q) ==
    /\ q.to \notin Range(q.visited) /\ q.to \notin serving
    /\ q.hops > 0 /\ q.to \in wired.relays

\* A relay starts forwarding.
Relay(q) ==
    /\ IsForwarded(q)
    /\ \E stewards \in Take(Candidates(Stewards, Visited(q)), StewardsTriedMax) :
          frame' = [p \in DOMAIN frame \cup {Visited(q)} |->
                      IF p = Visited(q) THEN Forwarding(HopsLeft(q), stewards) ELSE frame[p]]

Reply(q) ==
    IF q.to \in Range(q.visited) THEN "refused"
    ELSE IF q.to \in serving THEN "served" ELSE "unreachable"

\* Anyone else answers at once.
Answer(q) == ~IsForwarded(q) /\ frame' = Replied(frame, q.visited, q.to, Reply(q))

Serve(q) ==
    /\ q \in request
    /\ request' = request \ {q}
    /\ Relay(q) \/ Answer(q)
    /\ UNCHANGED <<network, session, outcome, faults>>

-----------------------------------------------------------------------------
(* The network *)

CloseSession(s) ==
    /\ s \in session /\ faults < FaultsMax
    /\ session' = session \ {s}
    /\ faults' = faults + 1
    /\ UNCHANGED <<network, request, frame, outcome>>

\* A steward's connection is withdrawn; the roster still names it.
Withdraw(n) ==
    /\ n \in serving /\ faults < FaultsMax
    /\ serving' = serving \ {n}
    /\ faults' = faults + 1
    /\ UNCHANGED <<wired, session, request, frame, outcome>>

Init ==
    /\ wired \in Networks
    /\ serving \in SUBSET (Stewards \ {Requester})
    /\ session = wired.session
    /\ request = {}
    /\ \E stewards \in Take(Candidates(Stewards, <<Requester>>), StewardsTriedMax) :
          frame = [p \in {<<Requester>>} |-> Forwarding(HopsMax, stewards)]
    /\ outcome = "none"
    /\ faults = 0

Forward(path) == \/ Ask(path) \/ TurnToPeers(path) \/ GiveUp(path)
                 \/ HearAnswer(path) \/ HearUnreachable(path)

Next == \/ \E path \in DOMAIN frame : Forward(path) \/ (faults < FaultsMax /\ TimeOut(path))
        \/ \E q \in request : Serve(q)
        \/ \E s \in session : CloseSession(s)
        \/ \E n \in Nodes : Withdraw(n)

Spec == Init /\ [][Next]_vars

\* Tasks run: a node handles what reaches it and goes on when it hears.  No
\* timeout is needed for that, so none is promised.
FairSpec ==
    /\ Spec
    /\ WF_vars(\/ \E path \in DOMAIN frame : Forward(path)
               \/ \E q \in request : Serve(q))

-----------------------------------------------------------------------------
(* Correctness *)

Replies == {"served", "unreachable", "refused"}

\* The variables keep their shapes.
TypeOK ==
    /\ wired \in Networks /\ serving \subseteq Nodes /\ session \subseteq SUBSET Nodes
    /\ request \subseteq [visited : Seq(Nodes), to : Nodes, hops : Nat]
    /\ DOMAIN frame \subseteq Seq(Nodes) \ {<<>>}
    /\ \A p \in DOMAIN frame :
          frame[p] \in [hops : Nat, left : SUBSET Nodes, tried : SUBSET Nodes, relaying : BOOLEAN,
                        asking : Nodes \cup {None}, heard : Replies \cup {"nothing"}]
    /\ outcome \in Replies \cup {"none"}
    /\ faults \in Nat

InOneWalk(path, hops) ==
    /\ path # <<>> /\ path[1] = Requester
    /\ IsInjective(path)
    /\ hops + Len(path) = VisitedMax

\* Every request that is sent, and every frame, is on a walk from the
\* requester that crosses no node twice, and what is left of the budget is
\* what the walk has not spent, through whatever cycles of sessions and
\* however late: so no walk has more than HOPS_MAX relays, and a request is
\* well-formed where it arrives and never refused there as a relay loop,
\* which the requester would take for the host's answer.
WalksDieOut ==
    /\ \A q \in request : InOneWalk(q.visited, q.hops) /\ q.to \notin Range(q.visited)
    /\ \A p \in DOMAIN frame : InOneWalk(p, frame[p].hops)
    /\ outcome # "refused"

Hop(n, m) ==
    /\ m \in Roster[n] /\ Linked(n, m)
    /\ m \in Stewards \/ {n, m} \in wired.session

\* Some walk within the budget ends at a node that serves the host.
Reachable ==
    \E n \in 2 .. HopsMax + 2 : \E walk \in [1..n -> Nodes] :
        /\ IsInjective(walk) /\ walk[1] = Requester
        /\ \A i \in 1 .. n - 1 : Hop(walk[i], walk[i + 1])
        /\ \A i \in 2 .. n - 1 : walk[i] \in wired.relays
        /\ walk[n] \in serving

\* What `take` leaves out is nothing: no node has more candidates than it
\* may ask.
NothingIsCut ==
    /\ IsFiniteSet(Nodes)
    /\ Cardinality(Stewards) <= StewardsTriedMax
    /\ Cardinality(Nodes) <= RelayPeersMax + 1

\* A steward that forwards has its sessions from the start.  One that has not
\* is given some by the branches that ask it, and may forward over those.
NoShortcuts ==
    \A net \in Networks : \A n \in (net.relays \cup {Requester}) \cap Stewards :
        \A m \in Roster[n] \ Stewards : {n, m} \in net.link => {n, m} \in net.session

\* While nothing fails, the requester has an answer exactly if some walk
\* within the budget ends at a node that serves the host: none is missed
\* because a branch tried a node first, spent the budget or asked the
\* stewards alone.  (As long as NothingIsCut, for the walks that are missed,
\* and NoShortcuts, for those that only other branches opened.)
FoundIfReachable == faults = 0 /\ outcome # "none" => (outcome = "served" <=> Reachable)

\* Every routed read ends, and so does every branch of it that its requester
\* has stopped waiting for.
EveryBranchEnds == <>(outcome # "none") /\ <>[](request = {} /\ DOMAIN frame = {})
=============================================================================
