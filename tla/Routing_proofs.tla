---------------------------- MODULE Routing_proofs ----------------------------
(***************************************************************************)
(* Routing, for any nodes, links, sessions, budgets and limits, however    *)
(* many exchanges are cut short: every walk of a routed read dies out, a   *)
(* path names one branch, no answer is made up, and, where `take` cuts     *)
(* nothing, no walk is missed.                                             *)
(***************************************************************************)
EXTENDS Routing, FiniteSetTheorems, SequenceTheorems, TLAPS

Frames == [hops : Nat, left : SUBSET Nodes, tried : SUBSET Nodes, relaying : BOOLEAN,
           asking : Nodes \cup {None}, heard : Replies \cup {"nothing"}]

Requests == [visited : Seq(Nodes), to : Nodes, hops : Nat]

\* A frame never asks a node of its own path, and is not told of a loop.
FrameOK(p, r) ==
    /\ p \in Seq(Nodes) \ {<<>>} /\ r \in Frames
    /\ InOneWalk(p, r.hops)
    /\ r.left \cap Range(p) = {}
    /\ r.heard # "refused"

RequestOK(q) == q \in Requests /\ InOneWalk(q.visited, q.hops) /\ q.to \notin Range(q.visited)

Framed(fs) == \A p \in DOMAIN fs : FrameOK(p, fs[p])

Requested == \A q \in request : RequestOK(q)

NeverRefused == outcome \in (Replies \ {"refused"}) \cup {"none"}

Networked ==
    /\ wired \in Networks /\ serving \subseteq Nodes /\ session \subseteq SUBSET Nodes
    /\ faults \in Nat

IInv == Networked /\ Framed(frame) /\ Requested /\ NeverRefused

-----------------------------------------------------------------------------
(* Paths and frames *)

LEMMA TakenFrom ==
    ASSUME NEW S, NEW n, NEW T \in Take(S, n)
    PROVE  T \subseteq S
BY DEF Take

\* A walk that goes on to a node it has not crossed crosses no node twice,
\* and spends one of its budget.
LEMMA WalkGoesOn ==
    ASSUME NEW q, RequestOK(q), q.hops > 0
    PROVE  /\ Visited(q) \in Seq(Nodes) \ {<<>>}
           /\ HopsLeft(q) \in Nat
           /\ InOneWalk(Visited(q), HopsLeft(q))
<1> DEFINE v == q.visited  w == Append(v, q.to)
<1>1. v \in Seq(Nodes) /\ q.to \in Nodes /\ q.hops \in Nat /\ HopsMax \in Nat
  BY RoutingAssumption DEF RequestOK, Requests
<1>2. v # <<>> /\ v[1] = Requester /\ IsInjective(v) /\ q.hops + Len(v) = VisitedMax
  BY DEF RequestOK, InOneWalk
<1>3. w \in Seq(Nodes) /\ Len(w) = Len(v) + 1 /\ DOMAIN w = 1 .. Len(v) + 1
      /\ (\A i \in 1..Len(v) : w[i] = v[i]) /\ w[Len(v) + 1] = q.to
  BY <1>1
<1>4. Len(v) \in Nat /\ Len(v) > 0 /\ DOMAIN v = 1..Len(v)
  BY <1>1, <1>2
<1>5. \A i \in 1..Len(v) : v[i] # q.to
  BY <1>4 DEF RequestOK, Range
<1>6. w # <<>>
  BY <1>3, <1>4
<1>7. w[1] = Requester
  BY <1>2, <1>3, <1>4
<1>8. IsInjective(w)
  <2>1. ASSUME NEW i \in DOMAIN w, NEW j \in DOMAIN w, w[i] = w[j]
        PROVE  i = j
    <3>1. CASE i \in 1..Len(v) /\ j \in 1..Len(v)
      BY <1>2, <1>3, <1>4, <2>1, <3>1 DEF IsInjective
    <3>2. CASE i \notin 1..Len(v) \/ j \notin 1..Len(v)
      BY <1>3, <1>4, <1>5, <2>1, <3>2
    <3> QED
      BY <3>1, <3>2
  <2> QED
    BY <2>1 DEF IsInjective
<1>9. HopsLeft(q) \in Nat /\ HopsLeft(q) + Len(w) = VisitedMax
  BY SMTT(40), <1>1, <1>2, <1>3, <1>4 DEF HopsLeft, VisitedMax
<1> QED
  BY <1>3, <1>6, <1>7, <1>8, <1>9 DEF Visited, InOneWalk

LEMMA FramesAre ==
    ASSUME NEW r \in Frames
    PROVE  /\ \A L \in SUBSET Nodes, b \in BOOLEAN :
                 [r EXCEPT !.left = L, !.relaying = b] \in Frames
           /\ \A L \in SUBSET Nodes, T \in SUBSET Nodes :
                 [r EXCEPT !.left = L, !.tried = T] \in Frames
           /\ \A L \in SUBSET Nodes, T \in SUBSET Nodes, a \in Nodes :
                 [r EXCEPT !.left = L, !.tried = T, !.asking = a] \in Frames
           /\ [r EXCEPT !.asking = None, !.heard = "nothing"] \in Frames
           /\ \A h \in Replies : [r EXCEPT !.heard = h] \in Frames
BY DEF Frames

\* One frame changes, into one that is all right.
LEMMA OneFrame ==
    ASSUME NEW fs, Framed(fs), NEW path, NEW gs, DOMAIN gs = DOMAIN fs,
           \A p \in DOMAIN fs : p # path => gs[p] = fs[p],
           path \in DOMAIN fs => FrameOK(path, gs[path])
    PROVE  Framed(gs)
BY DEF Framed

\* A frame that hears something else than a loop is all right.
LEMMA RepliedIsFramed ==
    ASSUME NEW fs, Framed(fs), NEW path, NEW to, NEW what \in Replies \ {"refused"}
    PROVE  Framed(Replied(fs, path, to, what))
<1>1. CASE path \in DOMAIN fs /\ fs[path].asking = to /\ fs[path].heard = "nothing"
  <2> DEFINE r == fs[path]  g == [r EXCEPT !.heard = what]
             gs == [fs EXCEPT ![path].heard = what]
  <2>1. FrameOK(path, r)
    BY <1>1 DEF Framed
  <2>2. g \in Frames
    BY <2>1, FramesAre DEF FrameOK
  <2>3. r \in Frames
    BY <2>1 DEF FrameOK
  <2>4. g.hops = r.hops /\ g.left = r.left /\ g.heard = what
    BY <2>3 DEF Frames
  <2>5. FrameOK(path, g)
    BY <2>1, <2>2, <2>4 DEF FrameOK
  <2>6. DOMAIN gs = DOMAIN fs /\ gs[path] = g /\ \A p \in DOMAIN fs : p # path => gs[p] = fs[p]
    BY <1>1
  <2>7. Framed(gs)
    <3> HIDE DEF g, gs, r
    <3> QED
      BY <2>5, <2>6, OneFrame
  <2> QED
    BY <1>1, <2>7 DEF Replied
<1>2. CASE ~(path \in DOMAIN fs /\ fs[path].asking = to /\ fs[path].heard = "nothing")
  BY <1>2 DEF Replied
<1> QED
  BY <1>1, <1>2

-----------------------------------------------------------------------------
(* Steps of a forwarding node *)

LEMMA AskInv ==
    ASSUME IInv, NEW path \in DOMAIN frame, Ask(path)
    PROVE  IInv'
<1> DEFINE r == frame[path]
<1>1. PICK peer \in r.left :
         IF peer \in Roster[At(path)] /\ Linked(At(path), peer)
         THEN /\ frame' = [frame EXCEPT ![path].left = @ \ {peer}, ![path].tried = @ \cup {peer},
                                        ![path].asking = peer]
              /\ request' = request \cup {[visited |-> path, to |-> peer, hops |-> r.hops]}
              /\ session' = session \cup {{At(path), peer}}
         ELSE /\ frame' = [frame EXCEPT ![path].left = @ \ {peer}, ![path].tried = @ \cup {peer}]
              /\ UNCHANGED <<request, session>>
  BY DEF Ask
<1>2. FrameOK(path, r)
  BY DEF IInv, Framed
<1>3. r \in Frames /\ peer \in Nodes /\ peer \notin Range(path)
  BY <1>1, <1>2 DEF FrameOK, Frames
<1>4. At(path) \in Nodes
  BY <1>2 DEF FrameOK, At
<1>5. wired' = wired /\ serving' = serving /\ outcome' = outcome /\ faults' = faults
  BY DEF Ask, network
<1>6. CASE peer \in Roster[At(path)] /\ Linked(At(path), peer)
  <2> DEFINE g == [r EXCEPT !.left = r.left \ {peer}, !.tried = r.tried \cup {peer}, !.asking = peer]
             q == [visited |-> path, to |-> peer, hops |-> r.hops]
  <2>1. DOMAIN frame' = DOMAIN frame /\ frame'[path] = g
        /\ \A p \in DOMAIN frame : p # path => frame'[p] = frame[p]
    BY SMTT(40), <1>1, <1>6
  <2>2. g \in Frames
    <3>1. r.left \ {peer} \in SUBSET Nodes /\ r.tried \cup {peer} \in SUBSET Nodes
      BY <1>3 DEF Frames
    <3> QED
      BY <1>3, <3>1, FramesAre
  <2>3. g.hops = r.hops /\ g.left = r.left \ {peer} /\ g.heard = r.heard
    BY <1>3 DEF Frames
  <2>4. FrameOK(path, g)
    BY <1>2, <2>2, <2>3 DEF FrameOK
  <2>5. Framed(frame')
    <3> HIDE DEF g
    <3> QED
      BY <2>1, <2>4, OneFrame DEF IInv
  <2>6. RequestOK(q)
    BY <1>2, <1>3 DEF RequestOK, Requests, FrameOK, Frames
  <2>7. Requested'
    <3> HIDE DEF q
    <3>1. request' = request \cup {q}
      BY <1>1, <1>6 DEF q
    <3> QED
      BY <2>6, <3>1 DEF Requested, IInv
  <2>8. session' \subseteq SUBSET Nodes
    BY <1>1, <1>3, <1>4, <1>6 DEF IInv, Networked
  <2> QED
    BY <1>5, <2>5, <2>7, <2>8 DEF IInv, Networked, NeverRefused
<1>7. CASE ~(peer \in Roster[At(path)] /\ Linked(At(path), peer))
  <2> DEFINE g == [r EXCEPT !.left = r.left \ {peer}, !.tried = r.tried \cup {peer}]
  <2>1. DOMAIN frame' = DOMAIN frame /\ frame'[path] = g
        /\ \A p \in DOMAIN frame : p # path => frame'[p] = frame[p]
    BY SMTT(40), <1>1, <1>7
  <2>2. g \in Frames
    <3>1. r.left \ {peer} \in SUBSET Nodes /\ r.tried \cup {peer} \in SUBSET Nodes
      BY <1>3 DEF Frames
    <3> QED
      BY <1>3, <3>1, FramesAre
  <2>3. g.hops = r.hops /\ g.left = r.left \ {peer} /\ g.heard = r.heard
    BY <1>3 DEF Frames
  <2>4. FrameOK(path, g)
    BY <1>2, <2>2, <2>3 DEF FrameOK
  <2>5. Framed(frame')
    <3> HIDE DEF g
    <3> QED
      BY <2>1, <2>4, OneFrame DEF IInv
  <2> QED
    BY <1>1, <1>5, <1>7, <2>5 DEF IInv, Networked, NeverRefused, Requested
<1> QED
  BY <1>6, <1>7

LEMMA TurnToPeersInv ==
    ASSUME IInv, NEW path \in DOMAIN frame, TurnToPeers(path)
    PROVE  IInv'
<1> DEFINE r == frame[path]
<1>1. PICK peers \in Take(Candidates(SessionPeers(At(path)), path) \ r.tried, RelayPeersMax) :
         frame' = [frame EXCEPT ![path].left = peers, ![path].relaying = TRUE]
  BY DEF TurnToPeers
<1> DEFINE g == [r EXCEPT !.left = peers, !.relaying = TRUE]
<1>2. FrameOK(path, r)
  BY DEF IInv, Framed
<1>3. peers \subseteq Candidates(SessionPeers(At(path)), path)
  BY <1>1, TakenFrom
<1>4. peers \subseteq Nodes /\ peers \cap Range(path) = {}
  BY <1>3 DEF Candidates, SessionPeers
<1>5. g \in Frames
  BY <1>2, <1>4, FramesAre DEF FrameOK
<1>6. g.hops = r.hops /\ g.left = peers /\ g.heard = r.heard
  BY <1>2 DEF Frames, FrameOK
<1>7. FrameOK(path, g)
  BY <1>2, <1>4, <1>5, <1>6 DEF FrameOK
<1>8. DOMAIN frame' = DOMAIN frame /\ frame'[path] = g
      /\ \A p \in DOMAIN frame : p # path => frame'[p] = frame[p]
  BY <1>1
<1>9. Framed(frame')
  <2> HIDE DEF g
  <2> QED
    BY <1>7, <1>8, OneFrame DEF IInv
<1> QED
  BY <1>9 DEF IInv, Networked, NeverRefused, Requested, TurnToPeers, network

LEMMA PassedOverIsFramed ==
    ASSUME IInv, NEW path \in DOMAIN frame, PassedOver(path)
    PROVE  Framed(frame')
<1> DEFINE r == frame[path]  g == [r EXCEPT !.asking = None, !.heard = "nothing"]
<1>1. FrameOK(path, r)
  BY SMTT(40) DEF IInv, Framed
<1>2. g \in Frames
  BY <1>1, FramesAre DEF FrameOK
<1>3. g.hops = r.hops /\ g.left = r.left /\ g.heard = "nothing"
  BY <1>1 DEF Frames, FrameOK
<1>4. FrameOK(path, g)
  BY <1>1, <1>2, <1>3 DEF FrameOK
<1>5. DOMAIN frame' = DOMAIN frame /\ frame'[path] = g
      /\ \A p \in DOMAIN frame : p # path => frame'[p] = frame[p]
  BY DEF PassedOver
<1> HIDE DEF g
<1> QED
  BY <1>4, <1>5, OneFrame DEF IInv

LEMMA EndInv ==
    ASSUME IInv, NEW path \in DOMAIN frame, NEW what \in Replies \ {"refused"}, End(path, what)
    PROVE  Framed(frame') /\ NeverRefused'
<1> DEFINE rest == Restrict(frame, DOMAIN frame \ {path})
           above == SubSeq(path, 1, Len(path) - 1)
<1>1. Framed(rest)
  BY DEF IInv, Framed, Restrict
<1>2. frame' = Replied(rest, above, At(path), what)
  BY DEF End
<1>3. Framed(frame')
  <2> HIDE DEF rest, above
  <2> QED
    BY <1>1, <1>2, RepliedIsFramed
<1>4. NeverRefused'
  BY DEF End, NeverRefused, IInv
<1> QED
  BY <1>3, <1>4

LEMMA ForwardInv ==
    ASSUME IInv, NEW path \in DOMAIN frame, Forward(path)
    PROVE  IInv'
<1>1. CASE Ask(path)
  BY <1>1, AskInv
<1>2. CASE TurnToPeers(path)
  BY <1>2, TurnToPeersInv
<1>3. CASE GiveUp(path)
  <2>1. Framed(frame') /\ NeverRefused'
    BY <1>3, EndInv DEF GiveUp, Replies
  <2> QED
    BY <1>3, <2>1 DEF GiveUp, IInv, Networked, Requested, network
<1>4. CASE HearAnswer(path)
  <2>1. frame[path].heard \in Replies \ {"refused"}
    BY <1>4 DEF HearAnswer, Heard, IInv, Framed, FrameOK, Frames
  <2>2. Framed(frame') /\ NeverRefused'
    BY <1>4, <2>1, EndInv DEF HearAnswer
  <2> QED
    BY <1>4, <2>2 DEF HearAnswer, Heard, IInv, Networked, Requested, network
<1>5. CASE HearUnreachable(path)
  <2>1. Framed(frame')
    BY <1>5, PassedOverIsFramed DEF HearUnreachable
  <2> QED
    BY <1>5, <2>1 DEF HearUnreachable, Heard, IInv, Networked, Requested, NeverRefused, network
<1> QED
  BY <1>1, <1>2, <1>3, <1>4, <1>5 DEF Forward

LEMMA TimeOutInv ==
    ASSUME IInv, NEW path \in DOMAIN frame, TimeOut(path)
    PROVE  IInv'
<1>1. Framed(frame')
  BY PassedOverIsFramed DEF TimeOut
<1>2. request' \subseteq request
  BY DEF TimeOut
<1> QED
  BY <1>1, <1>2 DEF TimeOut, IInv, Networked, Requested, NeverRefused, network

-----------------------------------------------------------------------------
(* Steps of a node that is asked, and of the network *)

LEMMA RelayIsFramed ==
    ASSUME IInv, NEW q \in request, Relay(q)
    PROVE  Framed(frame')
<1> DEFINE w == Visited(q)
<1>1. RequestOK(q) /\ q.hops > 0
  BY DEF IInv, Requested, Relay, IsForwarded
<1>2. PICK stewards \in Take(Candidates(Stewards, w), StewardsTriedMax) :
         frame' = [p \in DOMAIN frame \cup {w} |->
                     IF p = w THEN Forwarding(HopsLeft(q), stewards) ELSE frame[p]]
  BY DEF Relay
<1>3. stewards \subseteq Nodes /\ stewards \cap Range(w) = {}
  BY <1>2, TakenFrom, RoutingAssumption DEF Candidates
<1> DEFINE g == Forwarding(HopsLeft(q), stewards)
<1>4. w \in Seq(Nodes) \ {<<>>} /\ HopsLeft(q) \in Nat /\ InOneWalk(w, HopsLeft(q))
  BY <1>1, WalkGoesOn
<1>5. g \in Frames /\ g.hops = HopsLeft(q) /\ g.left = stewards /\ g.heard = "nothing"
  BY <1>3, <1>4 DEF Forwarding, Frames
<1>6. FrameOK(w, g)
  BY <1>3, <1>4, <1>5 DEF FrameOK
<1> HIDE DEF w, g
<1> QED
  BY <1>2, <1>6 DEF Framed, IInv, g

LEMMA ServeInv ==
    ASSUME IInv, NEW q \in request, Serve(q)
    PROVE  IInv'
<1>1. CASE Relay(q)
  BY <1>1, RelayIsFramed DEF Serve, IInv, Networked, Requested, NeverRefused, network
<1>2. CASE Answer(q)
  <2>1. Reply(q) \in Replies \ {"refused"}
    BY DEF Reply, Replies, IInv, Requested, RequestOK
  <2>2. Framed(frame')
    BY <1>2, <2>1, RepliedIsFramed DEF Answer, IInv
  <2> QED
    BY <2>2 DEF Serve, IInv, Networked, Requested, NeverRefused, network
<1> QED
  BY <1>1, <1>2 DEF Serve

LEMMA CloseSessionInv ==
    ASSUME IInv, NEW s, CloseSession(s)
    PROVE  IInv'
BY DEF CloseSession, IInv, Networked, Requested, NeverRefused, network

LEMMA WithdrawInv ==
    ASSUME IInv, NEW n, Withdraw(n)
    PROVE  IInv'
BY DEF Withdraw, IInv, Networked, Requested, NeverRefused

LEMMA StutterInv ==
    ASSUME IInv, UNCHANGED vars
    PROVE  IInv'
BY DEF vars, IInv, Networked, Requested, NeverRefused

LEMMA InitInv ==
    ASSUME Init
    PROVE  IInv
<1> DEFINE p0 == <<Requester>>
<1>1. PICK stewards \in Take(Candidates(Stewards, p0), StewardsTriedMax) :
         frame = [p \in {p0} |-> Forwarding(HopsMax, stewards)]
  BY DEF Init
<1>2. stewards \subseteq Nodes /\ stewards \cap Range(p0) = {}
  BY <1>1, TakenFrom, RoutingAssumption DEF Candidates
<1> DEFINE g == Forwarding(HopsMax, stewards)
<1>3. g \in Frames /\ g.hops = HopsMax /\ g.left = stewards /\ g.heard = "nothing"
  BY <1>2, RoutingAssumption DEF Forwarding, Frames
<1>4. p0 \in Seq(Nodes) /\ p0 # <<>> /\ p0[1] = Requester /\ Len(p0) = 1 /\ DOMAIN p0 = {1}
  BY RoutingAssumption
<1>5. IsInjective(p0)
  BY <1>4 DEF IsInjective
<1>6. InOneWalk(p0, HopsMax)
  BY <1>4, <1>5, RoutingAssumption DEF InOneWalk, VisitedMax
<1>7. FrameOK(p0, g)
  BY <1>2, <1>3, <1>4, <1>6 DEF FrameOK
<1>8. Framed(frame)
  <2> HIDE DEF p0, g
  <2> QED
    BY <1>1, <1>7 DEF Framed, g
<1>9. Networked
  BY RoutingAssumption DEF Init, Networked
<1> QED
  BY <1>8, <1>9 DEF Init, IInv, Requested, NeverRefused

-----------------------------------------------------------------------------
(* Every walk dies out *)

\* Every step keeps the invariant, whichever exchange is cut short.
THEOREM NextInv == IInv /\ [Next]_vars => IInv'
<1> SUFFICES ASSUME IInv, [Next]_vars PROVE IInv'
  OBVIOUS
<1>1. CASE \E path \in DOMAIN frame : Forward(path) \/ (faults < FaultsMax /\ TimeOut(path))
  BY <1>1, ForwardInv, TimeOutInv
<1>2. CASE \E q \in request : Serve(q)
  BY <1>2, ServeInv
<1>3. CASE \E s \in session : CloseSession(s)
  BY <1>3, CloseSessionInv
<1>4. CASE \E n \in Nodes : Withdraw(n)
  BY <1>4, WithdrawInv
<1>5. CASE UNCHANGED vars
  BY <1>5, StutterInv
<1> QED
  BY <1>1, <1>2, <1>3, <1>4, <1>5 DEF Next

LEMMA InvMeans ==
    ASSUME IInv
    PROVE  TypeOK /\ WalksDieOut
<1>1. \A q \in request : RequestOK(q)
  BY DEF IInv, Requested
<1>2. \A p \in DOMAIN frame : FrameOK(p, frame[p])
  BY DEF IInv, Framed
<1>3. TypeOK
  BY <1>1, <1>2 DEF TypeOK, IInv, Networked, NeverRefused, RequestOK, Requests, FrameOK, Frames
<1>4. WalksDieOut
  BY <1>1, <1>2 DEF WalksDieOut, IInv, NeverRefused, RequestOK, FrameOK
<1> QED
  BY <1>3, <1>4

LEMMA AlwaysInv == Spec => []IInv
<1>1. Init => IInv
  BY InitInv
<1> QED
  BY <1>1, NextInv, PTL DEF Spec

\* The variables keep their shapes: routes are paths of nodes, budgets never
\* go below zero (serve.rs relay subtracts from a u8).
THEOREM TypeCorrect == Spec => []TypeOK
BY AlwaysInv, InvMeans, PTL

\* Every request and every frame is on a walk from the requester that crosses
\* no node twice and has spent what is missing from its budget, so the read
\* dies out, and no relay refuses it as a loop: in any network, with any
\* budget, and however many timeouts leave branches behind.
THEOREM EveryWalkDiesOut == Spec => []WalksDieOut
BY AlwaysInv, InvMeans, PTL

-----------------------------------------------------------------------------
(* What a step does to the frames, field by field *)

SameBut(fs, gs, path) ==
    DOMAIN gs = DOMAIN fs /\ \A p \in DOMAIN fs : p # path => gs[p] = fs[p]

\* The two are at the same: they differ in what was heard at most.
SameWork(x, y) ==
    x.left = y.left /\ x.tried = y.tried /\ x.relaying = y.relaying /\ x.asking = y.asking

LEMMA AskIs ==
    ASSUME IInv, NEW path \in DOMAIN frame, Ask(path)
    PROVE  /\ frame[path].asking = None
           /\ SameBut(frame, frame', path)
           /\ UNCHANGED <<wired, serving, outcome, faults>>
           /\ \E peer \in frame[path].left :
                 /\ peer \in Nodes
                 /\ frame'[path].left = frame[path].left \ {peer}
                 /\ frame'[path].tried = frame[path].tried \cup {peer}
                 /\ frame'[path].relaying = frame[path].relaying
                 /\ frame'[path].heard = frame[path].heard
                 /\ \/ /\ peer \in Roster[At(path)] /\ Linked(At(path), peer)
                       /\ frame'[path].asking = peer
                       /\ request' = request \cup {[visited |-> path, to |-> peer,
                                                    hops |-> frame[path].hops]}
                       /\ session' = session \cup {{At(path), peer}}
                    \/ /\ ~(peer \in Roster[At(path)] /\ Linked(At(path), peer))
                       /\ frame'[path].asking = None
                       /\ UNCHANGED <<request, session>>
<1> DEFINE r == frame[path]
<1>1. PICK peer \in r.left :
         IF peer \in Roster[At(path)] /\ Linked(At(path), peer)
         THEN /\ frame' = [frame EXCEPT ![path].left = @ \ {peer}, ![path].tried = @ \cup {peer},
                                        ![path].asking = peer]
              /\ request' = request \cup {[visited |-> path, to |-> peer, hops |-> r.hops]}
              /\ session' = session \cup {{At(path), peer}}
         ELSE /\ frame' = [frame EXCEPT ![path].left = @ \ {peer}, ![path].tried = @ \cup {peer}]
              /\ UNCHANGED <<request, session>>
  BY DEF Ask
<1>2. r \in Frames /\ peer \in Nodes /\ r.asking = None
  BY <1>1 DEF IInv, Framed, FrameOK, Frames, Ask, Idle
<1>3. UNCHANGED <<wired, serving, outcome, faults>>
  BY DEF Ask, network
<1>4. CASE peer \in Roster[At(path)] /\ Linked(At(path), peer)
  <2> DEFINE g == [r EXCEPT !.left = r.left \ {peer}, !.tried = r.tried \cup {peer}, !.asking = peer]
  <2>1. SameBut(frame, frame', path) /\ frame'[path] = g
    BY SMTT(40), <1>1, <1>4 DEF SameBut
  <2>2. /\ g.left = r.left \ {peer} /\ g.tried = r.tried \cup {peer} /\ g.asking = peer
        /\ g.relaying = r.relaying /\ g.heard = r.heard
    BY <1>2 DEF Frames
  <2> HIDE DEF g
  <2> QED
    BY <1>1, <1>2, <1>3, <1>4, <2>1, <2>2
<1>5. CASE ~(peer \in Roster[At(path)] /\ Linked(At(path), peer))
  <2> DEFINE g == [r EXCEPT !.left = r.left \ {peer}, !.tried = r.tried \cup {peer}]
  <2>1. SameBut(frame, frame', path) /\ frame'[path] = g
    BY SMTT(40), <1>1, <1>5 DEF SameBut
  <2>2. /\ g.left = r.left \ {peer} /\ g.tried = r.tried \cup {peer} /\ g.asking = r.asking
        /\ g.relaying = r.relaying /\ g.heard = r.heard
    BY <1>2 DEF Frames
  <2> HIDE DEF g
  <2> QED
    BY <1>1, <1>2, <1>3, <1>5, <2>1, <2>2
<1> QED
  BY <1>4, <1>5

LEMMA TurnIs ==
    ASSUME IInv, NEW path \in DOMAIN frame, TurnToPeers(path)
    PROVE  /\ frame[path].asking = None /\ frame[path].left = {}
           /\ SameBut(frame, frame', path)
           /\ UNCHANGED <<wired, serving, outcome, faults, session, request>>
           /\ frame'[path].left \in
                Take(Candidates(SessionPeers(At(path)), path) \ frame[path].tried, RelayPeersMax)
           /\ frame'[path].tried = frame[path].tried
           /\ frame'[path].asking = frame[path].asking
           /\ frame'[path].heard = frame[path].heard
<1> DEFINE r == frame[path]
<1>1. PICK peers \in Take(Candidates(SessionPeers(At(path)), path) \ r.tried, RelayPeersMax) :
         frame' = [frame EXCEPT ![path].left = peers, ![path].relaying = TRUE]
  BY DEF TurnToPeers
<1> DEFINE g == [r EXCEPT !.left = peers, !.relaying = TRUE]
<1>2. r \in Frames
  BY DEF IInv, Framed, FrameOK
<1>3. SameBut(frame, frame', path) /\ frame'[path] = g
  BY <1>1 DEF SameBut
<1>4. g.left = peers /\ g.tried = r.tried /\ g.asking = r.asking /\ g.heard = r.heard
  BY <1>2 DEF Frames
<1>5. r.asking = None /\ r.left = {} /\ UNCHANGED <<wired, serving, outcome, faults, session, request>>
  BY DEF TurnToPeers, Idle, network
<1> HIDE DEF g
<1> QED
  BY <1>1, <1>3, <1>4, <1>5

LEMMA PassIs ==
    ASSUME IInv, NEW path \in DOMAIN frame, PassedOver(path)
    PROVE  /\ SameBut(frame, frame', path)
           /\ frame'[path].left = frame[path].left /\ frame'[path].tried = frame[path].tried
           /\ frame'[path].relaying = frame[path].relaying
           /\ frame'[path].asking = None /\ frame'[path].heard = "nothing"
<1> DEFINE r == frame[path]  g == [r EXCEPT !.asking = None, !.heard = "nothing"]
<1>1. r \in Frames
  BY DEF IInv, Framed, FrameOK
<1>2. SameBut(frame, frame', path) /\ frame'[path] = g
  BY DEF SameBut, PassedOver
<1>3. /\ g.left = r.left /\ g.tried = r.tried /\ g.relaying = r.relaying
      /\ g.asking = None /\ g.heard = "nothing"
  BY <1>1 DEF Frames
<1> HIDE DEF g
<1> QED
  BY <1>2, <1>3

\* A reply is heard by the frame that waits for it, and changes nothing else.
LEMMA RepliedIs ==
    ASSUME NEW fs, Framed(fs), NEW path, NEW to, NEW what, NEW gs, gs = Replied(fs, path, to, what)
    PROVE  /\ SameBut(fs, gs, path)
           /\ path \in DOMAIN fs /\ fs[path].asking = to /\ fs[path].heard = "nothing"
                => SameWork(gs[path], fs[path]) /\ gs[path].heard = what
           /\ ~(path \in DOMAIN fs /\ fs[path].asking = to /\ fs[path].heard = "nothing") => gs = fs
<1>1. CASE path \in DOMAIN fs /\ fs[path].asking = to /\ fs[path].heard = "nothing"
  <2> DEFINE r == fs[path]  g == [r EXCEPT !.heard = what]
  <2>1. gs = [fs EXCEPT ![path].heard = what]
    BY <1>1 DEF Replied
  <2>2. SameBut(fs, gs, path) /\ gs[path] = g
    BY <1>1, <2>1 DEF SameBut
  <2>3. r \in Frames
    BY <1>1 DEF Framed, FrameOK
  <2>4. SameWork(g, r) /\ g.heard = what
    BY <2>3 DEF Frames, SameWork
  <2> HIDE DEF g
  <2> QED
    BY <1>1, <2>2, <2>4
<1>2. CASE ~(path \in DOMAIN fs /\ fs[path].asking = to /\ fs[path].heard = "nothing")
  BY <1>2 DEF Replied, SameBut
<1> QED
  BY <1>1, <1>2

Above(path) == SubSeq(path, 1, Len(path) - 1)

LEMMA EndIs ==
    ASSUME IInv, NEW path \in DOMAIN frame, NEW what, End(path, what)
    PROVE  /\ DOMAIN frame' = DOMAIN frame \ {path}
           /\ \A p \in DOMAIN frame' : p # Above(path) => frame'[p] = frame[p]
           /\ \A p \in DOMAIN frame' : SameWork(frame'[p], frame[p])
           /\ LET a == Above(path) IN a \in DOMAIN frame' =>
                 IF frame[a].asking = At(path) /\ frame[a].heard = "nothing"
                 THEN frame'[a].heard = what ELSE frame'[a].heard = frame[a].heard
           /\ outcome' = IF Len(path) = 1 THEN what ELSE outcome
<1> DEFINE rest == Restrict(frame, DOMAIN frame \ {path})
           a == Above(path)
<1>1. frame' = Replied(rest, a, At(path), what) /\ outcome' = IF Len(path) = 1 THEN what ELSE outcome
  BY DEF End, Above
<1>2. DOMAIN rest = DOMAIN frame \ {path} /\ \A p \in DOMAIN rest : rest[p] = frame[p]
  BY DEF Restrict
<1>3. Framed(rest)
  BY <1>2 DEF IInv, Framed
<1> HIDE DEF rest, a
<1>4. /\ SameBut(rest, frame', a)
      /\ a \in DOMAIN rest /\ rest[a].asking = At(path) /\ rest[a].heard = "nothing"
           => SameWork(frame'[a], rest[a]) /\ frame'[a].heard = what
      /\ ~(a \in DOMAIN rest /\ rest[a].asking = At(path) /\ rest[a].heard = "nothing") => frame' = rest
  BY <1>1, <1>3, RepliedIs
<1>5. DOMAIN frame' = DOMAIN rest /\ \A p \in DOMAIN rest : p # a => frame'[p] = rest[p]
  BY <1>4 DEF SameBut
<1>6. \A p \in DOMAIN frame' : SameWork(frame'[p], frame[p])
  BY <1>2, <1>4, <1>5 DEF SameWork
<1>7. a \in DOMAIN frame' =>
        IF frame[a].asking = At(path) /\ frame[a].heard = "nothing"
        THEN frame'[a].heard = what ELSE frame'[a].heard = frame[a].heard
  BY <1>2, <1>4, <1>5
<1> QED
  BY <1>1, <1>2, <1>5, <1>6, <1>7 DEF a

\* A relay starts with the stewards, and has asked nobody.
LEMMA RelayIs ==
    ASSUME IInv, NEW q \in request, Relay(q)
    PROVE  /\ DOMAIN frame' = DOMAIN frame \cup {Visited(q)}
           /\ \A p \in DOMAIN frame : p # Visited(q) => frame'[p] = frame[p]
           /\ frame'[Visited(q)].left \in Take(Candidates(Stewards, Visited(q)), StewardsTriedMax)
           /\ frame'[Visited(q)].tried = {} /\ frame'[Visited(q)].relaying = FALSE
           /\ frame'[Visited(q)].asking = None /\ frame'[Visited(q)].heard = "nothing"
<1> DEFINE v == Visited(q)
<1>1. PICK stewards \in Take(Candidates(Stewards, v), StewardsTriedMax) :
         frame' = [p \in DOMAIN frame \cup {v} |->
                     IF p = v THEN Forwarding(HopsLeft(q), stewards) ELSE frame[p]]
  BY DEF Relay
<1> HIDE DEF v
<1>2. DOMAIN frame' = DOMAIN frame \cup {v} /\ (\A p \in DOMAIN frame : p # v => frame'[p] = frame[p])
      /\ frame'[v] = Forwarding(HopsLeft(q), stewards)
  BY <1>1
<1> QED
  BY <1>1, <1>2 DEF Forwarding, v

-----------------------------------------------------------------------------
(* A frame hears while it asks, and no node that serves the host forwards *)

Lively(p, x) ==
    /\ x.asking = None => x.heard = "nothing"
    /\ Len(p) >= 2 => At(p) \notin serving

FramesLive == \A p \in DOMAIN frame : Lively(p, frame[p])

\* No session is closed without a fault.
SessionsStay == faults = 0 => wired.session \subseteq session

LInv == FramesLive /\ SessionsStay

\* What a frame that replies is at, and the one it replies to.
LEMMA PathFacts ==
    ASSUME NEW path \in Seq(Nodes), path # <<>>
    PROVE  /\ Len(path) \in Nat /\ Len(path) >= 1 /\ At(path) \in Nodes
           /\ At(path) \in Range(path)
           /\ Above(path) \in Seq(Nodes) /\ Len(Above(path)) = Len(path) - 1
           /\ \A i \in 1 .. Len(path) - 1 : Above(path)[i] = path[i]
           /\ \A i \in 1 .. Len(path) : path[i] \in Nodes
<1>1. Len(path) \in Nat /\ Len(path) >= 1 /\ DOMAIN path = 1 .. Len(path)
  OBVIOUS
<1>2. At(path) \in Nodes /\ At(path) \in Range(path)
  BY <1>1 DEF At, Range
<1>3. /\ Above(path) \in Seq(Nodes) /\ Len(Above(path)) = Len(path) - 1
      /\ \A i \in 1 .. Len(path) - 1 : Above(path)[i] = path[i]
  BY <1>1 DEF Above
<1> QED
  BY <1>1, <1>2, <1>3

LEMMA FrameIs ==
    ASSUME IInv, NEW p \in DOMAIN frame
    PROVE  /\ p \in Seq(Nodes) /\ p # <<>> /\ p[1] = Requester /\ IsInjective(p)
           /\ frame[p] \in Frames /\ frame[p].hops + Len(p) = VisitedMax
BY DEF IInv, Framed, FrameOK, InOneWalk

LEMMA RequestIs ==
    ASSUME IInv, NEW q \in request
    PROVE  /\ q.visited \in Seq(Nodes) /\ q.visited # <<>> /\ q.visited[1] = Requester
           /\ IsInjective(q.visited)
           /\ q.to \in Nodes /\ q.to \notin Range(q.visited)
           /\ q.hops \in Nat /\ q.hops + Len(q.visited) = VisitedMax
BY DEF IInv, Requested, RequestOK, Requests, InOneWalk

LEMMA EndLives ==
    ASSUME IInv, FramesLive, serving' = serving, NEW path \in DOMAIN frame, NEW what, End(path, what)
    PROVE  FramesLive'
<1> SUFFICES ASSUME NEW p \in DOMAIN frame' PROVE Lively(p, frame[p])'
  BY DEF FramesLive
<1>1. p \in DOMAIN frame /\ Lively(p, frame[p])
  BY EndIs DEF FramesLive
<1>2. At(path) \in Nodes
  BY FrameIs, PathFacts
<1>3. At(path) # None
  BY <1>2, RoutingAssumption
<1>4. CASE p # Above(path)
  BY <1>1, <1>4, EndIs DEF Lively
<1>5. CASE p = Above(path)
  <2>1. frame'[p].asking = frame[p].asking
    BY EndIs DEF SameWork
  <2>2. frame[p].asking # At(path) => frame'[p].heard = frame[p].heard
    BY <1>5, EndIs
  <2> QED
    BY <1>1, <1>3, <2>1, <2>2 DEF Lively
<1> QED
  BY <1>4, <1>5

LEMMA PassLives ==
    ASSUME IInv, FramesLive, serving' = serving, NEW path \in DOMAIN frame, PassedOver(path)
    PROVE  FramesLive'
<1> SUFFICES ASSUME NEW p \in DOMAIN frame' PROVE Lively(p, frame[p])'
  BY DEF FramesLive
<1>1. p \in DOMAIN frame /\ Lively(p, frame[p])
  BY PassIs DEF FramesLive, SameBut
<1> QED
  BY <1>1, PassIs DEF Lively, SameBut

LEMMA ForwardLives ==
    ASSUME IInv, LInv, NEW path \in DOMAIN frame, Forward(path)
    PROVE  LInv'
<1>1. CASE Ask(path)
  <2>1. PICK peer \in Nodes :
           /\ frame'[path].heard = frame[path].heard
           /\ frame'[path].asking \in {peer, None}
           /\ session \subseteq session'
    BY <1>1, AskIs
  <2>2. SameBut(frame, frame', path) /\ frame[path].asking = None
        /\ UNCHANGED <<wired, serving, faults>>
    BY <1>1, AskIs
  <2>3. \A p \in DOMAIN frame : Lively(p, frame[p])
    BY DEF LInv, FramesLive
  <2>4. FramesLive'
    BY <2>1, <2>2, <2>3 DEF FramesLive, Lively, SameBut
  <2>5. SessionsStay'
    BY <2>1, <2>2 DEF LInv, SessionsStay
  <2> QED
    BY <2>4, <2>5 DEF LInv
<1>2. CASE TurnToPeers(path)
  <2>1. /\ SameBut(frame, frame', path) /\ UNCHANGED <<wired, serving, faults, session>>
        /\ frame'[path].asking = frame[path].asking /\ frame'[path].heard = frame[path].heard
    BY <1>2, TurnIs
  <2>2. \A p \in DOMAIN frame : Lively(p, frame[p])
    BY DEF LInv, FramesLive
  <2>3. FramesLive'
    BY <2>1, <2>2 DEF FramesLive, Lively, SameBut
  <2> QED
    BY <2>1, <2>3 DEF LInv, SessionsStay
<1>3. CASE GiveUp(path)
  BY <1>3, EndLives DEF GiveUp, LInv, SessionsStay, network
<1>4. CASE HearAnswer(path)
  BY <1>4, EndLives DEF HearAnswer, Heard, LInv, SessionsStay, network
<1>5. CASE HearUnreachable(path)
  BY <1>5, PassLives DEF HearUnreachable, Heard, LInv, SessionsStay, network
<1> QED
  BY <1>1, <1>2, <1>3, <1>4, <1>5 DEF Forward

LEMMA ServeLives ==
    ASSUME IInv, LInv, NEW q \in request, Serve(q)
    PROVE  LInv'
<1>1. UNCHANGED <<wired, serving, session, faults>>
  BY DEF Serve, network
<1>2. \A p \in DOMAIN frame : Lively(p, frame[p])
  BY DEF LInv, FramesLive
<1>3. q.visited \in Seq(Nodes) /\ q.to \in Nodes
  BY RequestIs
<1>4. CASE Relay(q)
  <2> DEFINE v == Visited(q)
  <2>1. At(v) = q.to
    BY <1>3 DEF Visited, At
  <2>2. q.to \notin serving
    BY <1>4 DEF Relay, IsForwarded
  <2>3. /\ DOMAIN frame' = DOMAIN frame \cup {v}
        /\ \A p \in DOMAIN frame : p # v => frame'[p] = frame[p]
        /\ frame'[v].heard = "nothing"
    BY <1>4, RelayIs
  <2> HIDE DEF v
  <2>4. FramesLive'
    BY <1>1, <1>2, <2>1, <2>2, <2>3 DEF FramesLive, Lively
  <2> QED
    BY <1>1, <2>4 DEF LInv, SessionsStay
<1>5. CASE Answer(q)
  <2>1. frame' = Replied(frame, q.visited, q.to, Reply(q)) /\ q.to # None
    BY <1>3, <1>5, RoutingAssumption DEF Answer
  <2>2. Framed(frame)
    BY DEF IInv
  <2>3. /\ SameBut(frame, frame', q.visited)
        /\ q.visited \in DOMAIN frame /\ frame[q.visited].asking = q.to
             /\ frame[q.visited].heard = "nothing"
             => SameWork(frame'[q.visited], frame[q.visited])
        /\ ~(q.visited \in DOMAIN frame /\ frame[q.visited].asking = q.to
               /\ frame[q.visited].heard = "nothing") => frame' = frame
    BY <2>1, <2>2, RepliedIs
  <2>4. FramesLive'
    BY <1>1, <1>2, <2>1, <2>3 DEF FramesLive, Lively, SameBut, SameWork
  <2> QED
    BY <1>1, <2>4 DEF LInv, SessionsStay
<1> QED
  BY <1>4, <1>5 DEF Serve

LEMMA NextLives == IInv /\ LInv /\ [Next]_vars => LInv'
<1> SUFFICES ASSUME IInv, LInv, [Next]_vars PROVE LInv'
  OBVIOUS
<1>1. ASSUME NEW path \in DOMAIN frame, Forward(path) PROVE LInv'
  BY <1>1, ForwardLives
<1>2. ASSUME NEW path \in DOMAIN frame, TimeOut(path) PROVE LInv'
  <2>1. FramesLive'
    BY <1>2, PassLives DEF TimeOut, network, LInv
  <2> QED
    BY <1>2, <2>1 DEF TimeOut, LInv, SessionsStay, IInv, Networked
<1>3. ASSUME NEW q \in request, Serve(q) PROVE LInv'
  BY <1>3, ServeLives
<1>4. ASSUME NEW s \in session, CloseSession(s) PROVE LInv'
  BY <1>4 DEF CloseSession, network, LInv, FramesLive, Lively, SessionsStay, IInv, Networked
<1>5. ASSUME NEW n \in Nodes, Withdraw(n) PROVE LInv'
  BY <1>5 DEF Withdraw, LInv, FramesLive, Lively, SessionsStay, IInv, Networked
<1>6. CASE UNCHANGED vars
  BY <1>6 DEF vars, LInv, FramesLive, Lively, SessionsStay
<1> QED
  BY <1>1, <1>2, <1>3, <1>4, <1>5, <1>6 DEF Next

LEMMA InitLives == Init => LInv
<1> SUFFICES ASSUME Init PROVE LInv
  OBVIOUS
<1>1. PICK stewards : frame = [p \in {<<Requester>>} |-> Forwarding(HopsMax, stewards)]
  BY DEF Init
<1>2. Len(<<Requester>>) = 1
  OBVIOUS
<1>3. frame[<<Requester>>].heard = "nothing" /\ DOMAIN frame = {<<Requester>>}
  BY <1>1 DEF Forwarding
<1>4. FramesLive
  BY <1>2, <1>3 DEF FramesLive, Lively
<1> QED
  BY <1>4 DEF LInv, SessionsStay, Init

-----------------------------------------------------------------------------
(* No walk is missed: along every walk to a node that serves the host, the *)
(* last frame there is on it is still to take the next hop, or has the     *)
(* answer                                                                  *)

\* A walk within the budget that ends at a node that serves the host.
Route(n, w) ==
    /\ IsInjective(w) /\ w[1] = Requester
    /\ \A i \in 1 .. n - 1 : Hop(w[i], w[i + 1])
    /\ \A i \in 2 .. n - 1 : w[i] \in wired.relays
    /\ w[n] \in serving

Along(p, n, w) == Len(p) < n /\ \A i \in 1 .. Len(p) : p[i] = w[i]

OnItsWay(p, next) == \E q \in request : q.visited = p /\ q.to = next

\* The frame is to ask next, or asks it and has not been told "not through
\* me", or has been served.
Pursued(p, x, next) ==
    \/ next \in x.left
    \/ ~x.relaying /\ {At(p), next} \in session /\ next \notin x.tried
    \/ x.heard = "served"
    \/ /\ x.asking = next /\ x.heard = "nothing"
       /\ Append(p, next) \in DOMAIN frame \/ OnItsWay(p, next)

Found(n, w) ==
    /\ outcome \in {"none", "served"}
    /\ \A p \in DOMAIN frame : Along(p, n, w) => Pursued(p, frame[p], w[Len(p) + 1])

AllFound ==
    faults = 0 => \A n \in 2 .. HopsMax + 2 : \A w \in [1..n -> Nodes] : Route(n, w) => Found(n, w)

LEMMA NothingTaken ==
    ASSUME NothingIsCut, NEW n \in Nodes, NEW S, S \subseteq Nodes \ {n}, NEW T \in Take(S, RelayPeersMax)
    PROVE  T = S
<1>1. IsFiniteSet(Nodes) /\ n \in Nodes
  BY DEF NothingIsCut
<1>2. IsFiniteSet(Nodes \ {n}) /\ Cardinality(Nodes \ {n}) = Cardinality(Nodes) - 1
  BY <1>1, FS_RemoveElement
<1>3. IsFiniteSet(S) /\ Cardinality(S) <= Cardinality(Nodes \ {n}) /\ Cardinality(S) \in Nat
  BY <1>2, FS_Subset, FS_CardinalityType
<1>4. Cardinality(Nodes) \in Nat /\ RelayPeersMax \in Nat
  BY <1>1, FS_CardinalityType, RoutingAssumption
<1>5. Cardinality(S) <= RelayPeersMax
  BY <1>2, <1>3, <1>4 DEF NothingIsCut
<1> QED
  BY <1>5 DEF Take

LEMMA NoStewardTaken ==
    ASSUME NothingIsCut, NEW S, S \subseteq Stewards, NEW T \in Take(S, StewardsTriedMax)
    PROVE  T = S
<1>1. IsFiniteSet(Stewards)
  BY RoutingAssumption, FS_Subset DEF NothingIsCut
<1>2. IsFiniteSet(S) /\ Cardinality(S) <= Cardinality(Stewards) /\ Cardinality(S) \in Nat
      /\ Cardinality(Stewards) \in Nat
  BY <1>1, FS_Subset, FS_CardinalityType
<1>3. Cardinality(S) <= StewardsTriedMax
  BY <1>2, RoutingAssumption DEF NothingIsCut
<1> QED
  BY <1>3 DEF Take

\* A frame along a walk is not past the hop it is to take.
LEMMA AlongFacts ==
    ASSUME NEW n \in 2 .. HopsMax + 2, NEW w \in [1..n -> Nodes], Route(n, w),
           NEW p \in Seq(Nodes), p # <<>>, Along(p, n, w)
    PROVE  /\ w[Len(p) + 1] \in Nodes
           /\ w[Len(p) + 1] \notin Range(p) /\ w[Len(p) + 1] # At(p)
           /\ w[Len(p) + 1] # None
           /\ Hop(At(p), w[Len(p) + 1])
           /\ Len(p) + 1 < n => w[Len(p) + 1] \in wired.relays
           /\ Len(p) + 1 <= HopsMax + 2
           /\ ~(Len(p) + 1 < n) => w[Len(p) + 1] \in serving
<1> DEFINE k == Len(p)
<1>1. HopsMax \in Nat /\ n \in Nat /\ n <= HopsMax + 2
  BY RoutingAssumption
<1>2. k \in Nat /\ k >= 1 /\ k < n /\ DOMAIN p = 1..k /\ At(p) = p[k]
  BY DEF Along, At
<1>3. DOMAIN w = 1..n /\ k + 1 \in 1..n /\ w[k + 1] \in Nodes
  BY <1>1, <1>2
<1>4. \A i \in 1..k : p[i] = w[i]
  BY DEF Along
<1>5. \A i \in 1..k : w[i] # w[k + 1]
  BY <1>1, <1>2, <1>3 DEF Route, IsInjective
<1>6. w[k + 1] \notin Range(p) /\ w[k + 1] # At(p)
  BY <1>2, <1>4, <1>5 DEF Range
<1>7. Hop(At(p), w[k + 1])
  BY <1>1, <1>2, <1>4 DEF Route
<1>8. k + 1 < n => w[k + 1] \in wired.relays
  BY <1>1, <1>2 DEF Route
<1>9. ~(k + 1 < n) => k + 1 = n
  BY <1>1, <1>2
<1>10. w[n] \in serving
  BY DEF Route
<1> QED
  BY <1>1, <1>2, <1>3, <1>6, <1>7, <1>8, <1>9, <1>10, RoutingAssumption

\* The request of a frame along a walk goes along it too, or arrives at its end.
LEMMA EndOfWalk ==
    ASSUME NEW n \in 2 .. HopsMax + 2, NEW w \in [1..n -> Nodes], Route(n, w),
           NEW p \in Seq(Nodes), p # <<>>, Along(p, n, w),
           NEW path \in Seq(Nodes), path # <<>>, p = Above(path), At(path) = w[Len(p) + 1]
    PROVE  Along(path, n, w) \/ (Len(path) >= 2 /\ At(path) \in serving)
<1>1. HopsMax \in Nat /\ n \in Nat
  BY RoutingAssumption
<1>2. Len(path) \in Nat /\ Len(path) = Len(p) + 1 /\ Len(p) \in Nat /\ Len(p) >= 1 /\ Len(p) < n
  BY PathFacts DEF Along
<1>3. \A i \in 1 .. Len(p) : path[i] = w[i]
  BY <1>2, PathFacts DEF Along
<1>4. \A i \in 1 .. Len(path) : path[i] = w[i]
  <2> SUFFICES ASSUME NEW i \in 1 .. Len(path) PROVE path[i] = w[i]
    OBVIOUS
  <2>1. i \in 1 .. Len(p) \/ i = Len(path)
    BY <1>2
  <2> QED
    BY <1>2, <1>3, <2>1 DEF At
<1>5. CASE Len(path) < n
  BY <1>4, <1>5 DEF Along
<1>6. CASE ~(Len(path) < n)
  <2>1. At(path) \in serving
    BY <1>2, <1>6, AlongFacts
  <2> QED
    BY <1>2, <2>1
<1> QED
  BY <1>5, <1>6

LEMMA AppendIs ==
    ASSUME NEW p \in Seq(Nodes), NEW m \in Nodes
    PROVE  Above(Append(p, m)) = p /\ At(Append(p, m)) = m
BY DEF Above, At

\* The frame of the requester is along every walk.
LEMMA RootAlong ==
    ASSUME NEW n \in 2 .. HopsMax + 2, NEW w \in [1..n -> Nodes], Route(n, w),
           NEW p \in Seq(Nodes), Len(p) = 1, p[1] = Requester
    PROVE  Along(p, n, w)
<1>1. n \in Nat /\ n >= 2
  BY RoutingAssumption
<1> QED
  BY <1>1 DEF Along, Route

\* A frame that starts with the stewards has a steward or a session for
\* whoever comes next on any walk it is along.
LEMMA FreshIsPursued ==
    ASSUME NothingIsCut, wired.session \subseteq session,
           NEW n \in 2 .. HopsMax + 2, NEW w \in [1..n -> Nodes], Route(n, w),
           NEW p \in Seq(Nodes), p # <<>>, Along(p, n, w),
           NEW S \in Take(Candidates(Stewards, p), StewardsTriedMax)
    PROVE  w[Len(p) + 1] \in S \/ {At(p), w[Len(p) + 1]} \in session
<1>1. S = Stewards \ Range(p)
  BY NoStewardTaken DEF Candidates
<1>2. w[Len(p) + 1] \notin Range(p) /\ Hop(At(p), w[Len(p) + 1])
  BY AlongFacts
<1> QED
  BY <1>1, <1>2 DEF Hop

LEMMA AskFinds ==
    ASSUME IInv, LInv, NEW n \in 2 .. HopsMax + 2, NEW w \in [1..n -> Nodes], Route(n, w), Found(n, w),
           NEW path \in DOMAIN frame, Ask(path)
    PROVE  Found(n, w)'
<1>1. PICK peer \in frame[path].left :
         /\ peer \in Nodes
         /\ frame'[path].left = frame[path].left \ {peer}
         /\ frame'[path].tried = frame[path].tried \cup {peer}
         /\ frame'[path].relaying = frame[path].relaying
         /\ frame'[path].heard = frame[path].heard
         /\ \/ /\ peer \in Roster[At(path)] /\ Linked(At(path), peer)
               /\ frame'[path].asking = peer
               /\ request' = request \cup {[visited |-> path, to |-> peer, hops |-> frame[path].hops]}
               /\ session' = session \cup {{At(path), peer}}
            \/ /\ ~(peer \in Roster[At(path)] /\ Linked(At(path), peer))
               /\ frame'[path].asking = None
               /\ UNCHANGED <<request, session>>
  BY AskIs
<1>2. frame[path].asking = None /\ SameBut(frame, frame', path) /\ outcome' = outcome
  BY AskIs
<1>3. session \subseteq session' /\ request \subseteq request'
  BY <1>1
<1>4. frame[path].heard = "nothing"
  BY <1>2 DEF LInv, FramesLive, Lively
<1> SUFFICES ASSUME NEW p \in DOMAIN frame', Along(p, n, w)
             PROVE  Pursued(p, frame[p], w[Len(p) + 1])'
  BY <1>2 DEF Found, Along
<1>5. p \in DOMAIN frame /\ p \in Seq(Nodes) /\ p # <<>>
  BY <1>2, FrameIs DEF SameBut
<1> DEFINE next == w[Len(p) + 1]
<1>6. Pursued(p, frame[p], next)
  BY <1>5 DEF Found
<1>7. CASE p # path
  <2>1. frame'[p] = frame[p] /\ DOMAIN frame' = DOMAIN frame
    BY <1>2, <1>5, <1>7 DEF SameBut
  <2>2. OnItsWay(p, next) => OnItsWay(p, next)'
    BY <1>3 DEF OnItsWay
  <2> HIDE DEF next
  <2>3. SameWork(frame'[p], frame[p]) /\ frame'[p].heard = frame[p].heard
    BY <2>1 DEF SameWork
  <2>4. Pursued(p, frame[p], next)'
    BY <1>3, <1>6, <2>1, <2>2, <2>3 DEF Pursued, SameWork
  <2> QED
    BY <2>4 DEF next
<1>8. CASE p = path
  <2>1. next \in Nodes /\ next # None /\ Hop(At(p), next)
    BY <1>5, AlongFacts
  <2> HIDE DEF next
  <2>2. next \in frame[p].left
        \/ (~frame[p].relaying /\ {At(p), next} \in session /\ next \notin frame[p].tried)
    BY <1>2, <1>4, <1>6, <1>8, <2>1 DEF Pursued
  <2>3. CASE peer # next
    <3>1. next \in frame'[p].left
          \/ (~frame'[p].relaying /\ {At(p), next} \in session' /\ next \notin frame'[p].tried)
      BY <1>1, <1>3, <1>8, <2>2, <2>3
    <3>2. Pursued(p, frame[p], next)'
      BY <3>1 DEF Pursued
    <3> QED
      BY <3>2 DEF next
  <2>4. CASE peer = next
    <3>1. next \in Roster[At(p)] /\ Linked(At(p), next)
      BY <2>1 DEF Hop
    <3>2. /\ frame'[p].asking = next /\ frame'[p].heard = "nothing"
          /\ request' = request \cup {[visited |-> path, to |-> peer, hops |-> frame[path].hops]}
      BY <1>1, <1>4, <1>8, <2>4, <3>1
    <3>3. OnItsWay(p, next)'
      <4> DEFINE q == [visited |-> path, to |-> peer, hops |-> frame[path].hops]
      <4>1. q \in request' /\ q.visited = p /\ q.to = next
        BY <1>8, <2>4, <3>2
      <4> QED
        BY <4>1 DEF OnItsWay
    <3>4. Pursued(p, frame[p], next)'
      BY <3>2, <3>3 DEF Pursued
    <3> QED
      BY <3>4 DEF next
  <2> QED
    BY <2>3, <2>4
<1> QED
  BY <1>7, <1>8

LEMMA TurnFinds ==
    ASSUME NothingIsCut, IInv, LInv,
           NEW n \in 2 .. HopsMax + 2, NEW w \in [1..n -> Nodes], Route(n, w), Found(n, w),
           NEW path \in DOMAIN frame, TurnToPeers(path)
    PROVE  Found(n, w)'
<1> DEFINE S == Candidates(SessionPeers(At(path)), path) \ frame[path].tried
<1>1. /\ frame[path].asking = None /\ frame[path].left = {}
      /\ SameBut(frame, frame', path)
      /\ UNCHANGED <<outcome, session, request>>
      /\ frame'[path].left \in Take(S, RelayPeersMax)
  BY TurnIs
<1>2. path \in Seq(Nodes) /\ path # <<>> /\ At(path) \in Nodes
  BY FrameIs, PathFacts
<1>3. S \subseteq Nodes \ {At(path)}
  BY DEF Candidates, SessionPeers
<1>4. frame'[path].left = S
  <2> HIDE DEF S
  <2> QED
    BY <1>1, <1>2, <1>3, NothingTaken
<1>5. frame[path].heard = "nothing"
  BY <1>1 DEF LInv, FramesLive, Lively
<1> SUFFICES ASSUME NEW p \in DOMAIN frame', Along(p, n, w)
             PROVE  Pursued(p, frame[p], w[Len(p) + 1])'
  BY <1>1 DEF Found, Along
<1>6. p \in DOMAIN frame /\ p \in Seq(Nodes) /\ p # <<>>
  BY <1>1, FrameIs DEF SameBut
<1> DEFINE next == w[Len(p) + 1]
<1>7. Pursued(p, frame[p], next)
  BY <1>6 DEF Found
<1>8. CASE p # path
  <2>1. frame'[p] = frame[p] /\ DOMAIN frame' = DOMAIN frame
    BY <1>1, <1>6, <1>8 DEF SameBut
  <2> HIDE DEF next
  <2>2. Pursued(p, frame[p], next)'
    BY <1>1, <1>7, <2>1 DEF Pursued, OnItsWay
  <2> QED
    BY <2>2 DEF next
<1>9. CASE p = path
  <2>1. next \in Nodes /\ next # None /\ next \notin Range(p) /\ next # At(p)
    BY <1>6, AlongFacts
  <2> HIDE DEF next
  <2>2. {At(p), next} \in session /\ next \notin frame[p].tried
    BY <1>1, <1>5, <1>7, <1>9, <2>1 DEF Pursued
  <2>3. next \in S
    BY <1>9, <2>1, <2>2 DEF Candidates, SessionPeers
  <2>4. Pursued(p, frame[p], next)'
    BY <1>4, <1>9, <2>3 DEF Pursued
  <2> QED
    BY <2>4 DEF next
<1> QED
  BY <1>8, <1>9

\* A frame ends with the answer, or is along no walk.
LEMMA EndFinds ==
    ASSUME IInv, LInv, NEW n \in 2 .. HopsMax + 2, NEW w \in [1..n -> Nodes], Route(n, w), Found(n, w),
           NEW path \in DOMAIN frame, NEW what, End(path, what), UNCHANGED <<session, request>>,
           what = "served" \/ ~Along(path, n, w)
    PROVE  Found(n, w)'
<1>1. path \in Seq(Nodes) /\ path # <<>> /\ path[1] = Requester
  BY FrameIs
<1>2. outcome' \in {"none", "served"}
  <2>1. CASE Len(path) = 1
    <3>1. Along(path, n, w)
      BY <1>1, <2>1, RootAlong
    <3> QED
      BY <2>1, <3>1, EndIs
  <2>2. CASE Len(path) # 1
    BY <2>2, EndIs DEF Found
  <2> QED
    BY <2>1, <2>2
<1> SUFFICES ASSUME NEW p \in DOMAIN frame', Along(p, n, w)
             PROVE  Pursued(p, frame[p], w[Len(p) + 1])'
  BY <1>2 DEF Found, Along
<1>3. /\ p \in DOMAIN frame /\ p # path /\ DOMAIN frame' = DOMAIN frame \ {path}
      /\ SameWork(frame'[p], frame[p])
  BY EndIs
<1>4. p \in Seq(Nodes) /\ p # <<>>
  BY <1>3, FrameIs
<1> DEFINE next == w[Len(p) + 1]
<1>5. Pursued(p, frame[p], next)
  BY <1>3 DEF Found
<1>6. next \in Nodes
  BY <1>4, AlongFacts
<1>7. CASE p = Above(path) /\ At(path) = next
  <2>1. Along(path, n, w) \/ (Len(path) >= 2 /\ At(path) \in serving)
    BY <1>1, <1>4, <1>7, EndOfWalk
  <2>2. what = "served"
    BY <2>1 DEF LInv, FramesLive, Lively
  <2> HIDE DEF next
  <2>3. IF frame[p].asking = next /\ frame[p].heard = "nothing"
        THEN frame'[p].heard = what ELSE frame'[p].heard = frame[p].heard
    BY <1>7, EndIs
  <2>4. Pursued(p, frame[p], next)'
    BY <1>3, <1>5, <2>2, <2>3 DEF Pursued, SameWork
  <2> QED
    BY <2>4 DEF next
<1>8. CASE ~(p = Above(path) /\ At(path) = next)
  <2> HIDE DEF next
  <2>1. Append(p, next) # path
    BY <1>4, <1>6, <1>8, AppendIs
  <2>2. Append(p, next) \in DOMAIN frame => Append(p, next) \in DOMAIN frame'
    BY <1>3, <2>1
  <2>3. frame'[p].heard = frame[p].heard \/ (frame[p].heard = "nothing" /\ frame[p].asking # next)
    <3>1. CASE p # Above(path)
      BY <3>1, EndIs
    <3>2. CASE p = Above(path)
      <4>1. IF frame[p].asking = At(path) /\ frame[p].heard = "nothing"
            THEN frame'[p].heard = what ELSE frame'[p].heard = frame[p].heard
        BY <3>2, EndIs
      <4> QED
        BY <1>8, <3>2, <4>1
    <3> QED
      BY <3>1, <3>2
  <2>4. Pursued(p, frame[p], next)'
    BY <1>3, <1>5, <2>2, <2>3 DEF Pursued, SameWork, OnItsWay
  <2> QED
    BY <2>4 DEF next
<1> QED
  BY <1>7, <1>8

LEMMA HearUnreachableFinds ==
    ASSUME IInv, NEW n \in 2 .. HopsMax + 2, NEW w \in [1..n -> Nodes], Route(n, w), Found(n, w),
           NEW path \in DOMAIN frame, HearUnreachable(path)
    PROVE  Found(n, w)'
<1>1. /\ frame[path].heard = "unreachable" /\ PassedOver(path)
      /\ UNCHANGED <<outcome, session, request>>
  BY DEF HearUnreachable, Heard, Answers, network
<1>2. /\ SameBut(frame, frame', path)
      /\ frame'[path].left = frame[path].left /\ frame'[path].tried = frame[path].tried
      /\ frame'[path].relaying = frame[path].relaying
  BY <1>1, PassIs
<1> SUFFICES ASSUME NEW p \in DOMAIN frame', Along(p, n, w)
             PROVE  Pursued(p, frame[p], w[Len(p) + 1])'
  BY <1>1 DEF Found, Along
<1>3. p \in DOMAIN frame /\ DOMAIN frame' = DOMAIN frame
  BY <1>2 DEF SameBut
<1> DEFINE next == w[Len(p) + 1]
<1>4. Pursued(p, frame[p], next)
  BY <1>3 DEF Found
<1> HIDE DEF next
<1>5. CASE p # path
  <2>1. frame'[p] = frame[p]
    BY <1>2, <1>3, <1>5 DEF SameBut
  <2>2. Pursued(p, frame[p], next)'
    BY <1>1, <1>3, <1>4, <2>1 DEF Pursued, OnItsWay
  <2> QED
    BY <2>2 DEF next
<1>6. CASE p = path
  <2>1. Pursued(p, frame[p], next)'
    BY <1>1, <1>2, <1>4, <1>6 DEF Pursued
  <2> QED
    BY <2>1 DEF next
<1> QED
  BY <1>5, <1>6

LEMMA RelayFinds ==
    ASSUME NothingIsCut, IInv, LInv, faults = 0,
           NEW n \in 2 .. HopsMax + 2, NEW w \in [1..n -> Nodes], Route(n, w), Found(n, w),
           NEW q \in request, Serve(q), Relay(q)
    PROVE  Found(n, w)'
<1> DEFINE v == Visited(q)
<1>1. /\ DOMAIN frame' = DOMAIN frame \cup {v}
      /\ \A p \in DOMAIN frame : p # v => frame'[p] = frame[p]
      /\ frame'[v].left \in Take(Candidates(Stewards, v), StewardsTriedMax)
      /\ frame'[v].tried = {} /\ frame'[v].relaying = FALSE
  BY RelayIs
<1>2. /\ request' = request \ {q} /\ UNCHANGED <<session, outcome, wired, serving>>
      /\ v = Append(q.visited, q.to)
  BY DEF Serve, Visited, network
<1>3. wired.session \subseteq session
  BY DEF LInv, SessionsStay
<1>4. v \in Seq(Nodes) /\ v # <<>>
  BY <1>2, RequestIs
<1> HIDE DEF v
<1> SUFFICES ASSUME NEW p \in DOMAIN frame', Along(p, n, w)
             PROVE  Pursued(p, frame[p], w[Len(p) + 1])'
  BY <1>2 DEF Found, Along
<1> DEFINE next == w[Len(p) + 1]
<1>5. CASE p = v
  <2>1. next \in frame'[v].left \/ {At(p), next} \in session
    BY <1>1, <1>3, <1>4, <1>5, FreshIsPursued
  <2> HIDE DEF next
  <2>2. Pursued(p, frame[p], next)'
    BY <1>1, <1>2, <1>5, <2>1 DEF Pursued
  <2> QED
    BY <2>2 DEF next
<1>6. CASE p # v
  <2>1. p \in DOMAIN frame /\ frame'[p] = frame[p]
    BY <1>1, <1>6
  <2>2. Pursued(p, frame[p], next)
    BY <2>1 DEF Found
  <2> HIDE DEF next
  <2>3. OnItsWay(p, next) => OnItsWay(p, next)' \/ Append(p, next) \in DOMAIN frame'
    BY <1>1, <1>2 DEF OnItsWay
  <2>4. Pursued(p, frame[p], next)'
    BY <1>1, <1>2, <2>1, <2>2, <2>3 DEF Pursued
  <2> QED
    BY <2>4 DEF next
<1> QED
  BY <1>5, <1>6

\* A request along a walk is served where it arrives at its end, and forwarded
\* before.
LEMMA AnsweredAlong ==
    ASSUME IInv, NEW n \in 2 .. HopsMax + 2, NEW w \in [1..n -> Nodes], Route(n, w),
           NEW q \in request, Answer(q), Along(q.visited, n, w), q.to = w[Len(q.visited) + 1]
    PROVE  Reply(q) = "served"
<1> DEFINE p == q.visited
<1>1. /\ p \in Seq(Nodes) /\ p # <<>> /\ q.to \notin Range(p)
      /\ q.hops \in Nat /\ q.hops + Len(p) = VisitedMax
  BY RequestIs
<1>2. CASE q.to \in serving
  BY <1>1, <1>2 DEF Reply
<1>3. CASE q.to \notin serving
  <2>1. Len(p) + 1 < n /\ q.to \in wired.relays
    BY <1>1, <1>3, AlongFacts
  <2>2. q.hops > 0
    <3>1. HopsMax \in Nat /\ n \in Nat /\ n <= HopsMax + 2 /\ Len(p) \in Nat
      BY <1>1, RoutingAssumption
    <3> QED
      BY <1>1, <2>1, <3>1 DEF VisitedMax
  <2>3. IsForwarded(q)
    BY <1>1, <1>3, <2>1, <2>2 DEF IsForwarded
  <2> QED
    BY <2>3 DEF Answer
<1> QED
  BY <1>2, <1>3

LEMMA AnswerFinds ==
    ASSUME IInv, NEW n \in 2 .. HopsMax + 2, NEW w \in [1..n -> Nodes], Route(n, w), Found(n, w),
           NEW q \in request, Serve(q), Answer(q)
    PROVE  Found(n, w)'
<1> DEFINE v == q.visited
<1>1. /\ request' = request \ {q} /\ UNCHANGED <<session, outcome>>
      /\ frame' = Replied(frame, v, q.to, Reply(q))
  BY DEF Serve, Answer
<1>2. Framed(frame)
  BY DEF IInv
<1>3. /\ SameBut(frame, frame', v)
      /\ v \in DOMAIN frame /\ frame[v].asking = q.to /\ frame[v].heard = "nothing"
           => SameWork(frame'[v], frame[v]) /\ frame'[v].heard = Reply(q)
      /\ ~(v \in DOMAIN frame /\ frame[v].asking = q.to /\ frame[v].heard = "nothing") => frame' = frame
  BY <1>1, <1>2, RepliedIs
<1> SUFFICES ASSUME NEW p \in DOMAIN frame', Along(p, n, w)
             PROVE  Pursued(p, frame[p], w[Len(p) + 1])'
  BY <1>1 DEF Found, Along
<1>4. p \in DOMAIN frame /\ DOMAIN frame' = DOMAIN frame
  BY <1>3 DEF SameBut
<1>5. p \in Seq(Nodes) /\ p # <<>>
  BY <1>4, FrameIs
<1> DEFINE next == w[Len(p) + 1]
<1>6. Pursued(p, frame[p], next)
  BY <1>4 DEF Found
<1>7. p = v /\ q.to = next => Reply(q) = "served"
  BY AnsweredAlong
<1> HIDE DEF next, v
<1>8. SameWork(frame'[p], frame[p])
  BY <1>3, <1>4 DEF SameBut, SameWork
<1>9. \/ frame'[p].heard = frame[p].heard
      \/ p = v /\ frame[p].asking = q.to /\ frame[p].heard = "nothing" /\ frame'[p].heard = Reply(q)
  BY <1>3, <1>4 DEF SameBut
<1>10. CASE p = v /\ q.to = next
  <2>1. Pursued(p, frame[p], next)'
    <3>1. CASE frame[p].asking = next /\ frame[p].heard = "nothing"
      BY <1>3, <1>4, <1>7, <1>10, <3>1 DEF Pursued
    <3>2. CASE ~(frame[p].asking = next /\ frame[p].heard = "nothing")
      BY <1>1, <1>6, <1>8, <1>9, <1>10, <3>2 DEF Pursued, SameWork
    <3> QED
      BY <3>1, <3>2
  <2> QED
    BY <2>1 DEF next
<1>11. CASE ~(p = v /\ q.to = next)
  <2>1. OnItsWay(p, next) => OnItsWay(p, next)'
    BY <1>1, <1>11 DEF OnItsWay, v
  <2>2. Pursued(p, frame[p], next)'
    BY <1>1, <1>4, <1>6, <1>8, <1>9, <1>11, <2>1 DEF Pursued, SameWork
  <2> QED
    BY <2>2 DEF next
<1> QED
  BY <1>10, <1>11

LEMMA StepFinds ==
    ASSUME NothingIsCut, IInv, LInv, [Next]_vars, faults = 0, faults' = 0,
           NEW n \in 2 .. HopsMax + 2, NEW w \in [1..n -> Nodes], Route(n, w), Found(n, w)
    PROVE  Found(n, w)'
<1>1. ASSUME NEW path \in DOMAIN frame, Forward(path)
      PROVE  Found(n, w)'
  <2>1. CASE Ask(path)
    BY <2>1, AskFinds
  <2>2. CASE TurnToPeers(path)
    BY <2>2, TurnFinds
  <2>3. CASE GiveUp(path)
    <3>1. /\ frame[path].asking = None /\ frame[path].left = {} /\ frame[path].relaying
          /\ End(path, "unreachable") /\ UNCHANGED <<session, request>>
      BY <2>3 DEF GiveUp, Idle, network
    <3>2. frame[path].heard = "nothing"
      BY <3>1 DEF LInv, FramesLive, Lively
    <3>3. ASSUME Along(path, n, w) PROVE FALSE
      <4>1. path \in Seq(Nodes) /\ path # <<>>
        BY FrameIs
      <4>2. w[Len(path) + 1] # None
        BY <3>3, <4>1, AlongFacts
      <4>3. Pursued(path, frame[path], w[Len(path) + 1])
        BY <3>3 DEF Found
      <4> QED
        BY <3>1, <3>2, <4>2, <4>3 DEF Pursued
    <3> QED
      BY <3>1, <3>3, EndFinds
  <2>4. CASE HearAnswer(path)
    <3>1. /\ frame[path].heard \notin {"nothing", "unreachable"}
          /\ End(path, frame[path].heard) /\ UNCHANGED <<session, request>>
      BY <2>4 DEF HearAnswer, Heard, Answers, network
    <3>2. frame[path].heard = "served"
      BY <3>1 DEF IInv, Framed, FrameOK, Frames, Replies
    <3> QED
      BY <3>1, <3>2, EndFinds
  <2>5. CASE HearUnreachable(path)
    BY <2>5, HearUnreachableFinds
  <2> QED
    BY <1>1, <2>1, <2>2, <2>3, <2>4, <2>5 DEF Forward
<1>2. ASSUME NEW q \in request, Serve(q)
      PROVE  Found(n, w)'
  <2>1. CASE Relay(q)
    BY <1>2, <2>1, RelayFinds
  <2>2. CASE Answer(q)
    BY <1>2, <2>2, AnswerFinds
  <2> QED
    BY <1>2, <2>1, <2>2 DEF Serve
<1>3. ASSUME NEW path \in DOMAIN frame, TimeOut(path) PROVE FALSE
  BY <1>3 DEF TimeOut
<1>4. ASSUME NEW s \in session, CloseSession(s) PROVE FALSE
  BY <1>4 DEF CloseSession
<1>5. ASSUME NEW m \in Nodes, Withdraw(m) PROVE FALSE
  BY <1>5 DEF Withdraw
<1>6. CASE UNCHANGED vars
  BY <1>6 DEF vars, Found, Pursued, OnItsWay
<1> QED
  BY <1>1, <1>2, <1>3, <1>4, <1>5, <1>6 DEF Next

\* The nodes are wired as they were, and the stewards withdraw nothing while
\* nothing fails, which only counts up.
LEMMA StepsStand ==
    ASSUME IInv, [Next]_vars
    PROVE  /\ wired' = wired
           /\ faults' = 0 => faults = 0 /\ serving' = serving
<1>1. faults \in Nat
  BY DEF IInv, Networked
<1>2. ASSUME NEW path \in DOMAIN frame, Forward(path)
      PROVE  wired' = wired /\ serving' = serving /\ faults' = faults
  BY <1>2 DEF Forward, Ask, TurnToPeers, GiveUp, HearAnswer, HearUnreachable, Heard, network
<1>3. ASSUME NEW path \in DOMAIN frame, TimeOut(path)
      PROVE  wired' = wired /\ faults' = faults + 1
  BY <1>3 DEF TimeOut, network
<1>4. ASSUME NEW q \in request, Serve(q)
      PROVE  wired' = wired /\ serving' = serving /\ faults' = faults
  BY <1>4 DEF Serve, network
<1>5. ASSUME NEW s \in session, CloseSession(s) PROVE wired' = wired /\ faults' = faults + 1
  BY <1>5 DEF CloseSession, network
<1>6. ASSUME NEW n \in Nodes, Withdraw(n) PROVE wired' = wired /\ faults' = faults + 1
  BY <1>6 DEF Withdraw
<1>7. CASE UNCHANGED vars
  BY <1>7 DEF vars
<1> QED
  BY <1>1, <1>2, <1>3, <1>4, <1>5, <1>6, <1>7 DEF Next

LEMMA NextFinds ==
    ASSUME NothingIsCut
    PROVE  IInv /\ LInv /\ AllFound /\ [Next]_vars => AllFound'
<1> SUFFICES ASSUME IInv, LInv, AllFound, [Next]_vars, faults' = 0,
                    NEW n \in 2 .. HopsMax + 2, NEW w \in [1..n -> Nodes], Route(n, w)'
             PROVE  Found(n, w)'
  BY DEF AllFound
<1>1. wired' = wired /\ serving' = serving /\ faults = 0
  BY StepsStand
<1>2. Route(n, w)
  BY <1>1 DEF Route, Hop, Linked
<1>3. Found(n, w)
  BY <1>1, <1>2 DEF AllFound
<1> QED
  BY <1>1, <1>2, <1>3, StepFinds

LEMMA InitFinds ==
    ASSUME NothingIsCut, Init
    PROVE  AllFound
<1> DEFINE p0 == <<Requester>>
<1>1. PICK stewards \in Take(Candidates(Stewards, p0), StewardsTriedMax) :
         frame = [p \in {p0} |-> Forwarding(HopsMax, stewards)]
  BY DEF Init
<1>2. /\ DOMAIN frame = {p0} /\ frame[p0].left = stewards
      /\ frame[p0].tried = {} /\ frame[p0].relaying = FALSE
  BY <1>1 DEF Forwarding
<1>3. wired.session \subseteq session /\ outcome = "none"
  BY DEF Init
<1>4. p0 \in Seq(Nodes) /\ p0 # <<>>
  BY RoutingAssumption
<1> HIDE DEF p0
<1> SUFFICES ASSUME NEW n \in 2 .. HopsMax + 2, NEW w \in [1..n -> Nodes], Route(n, w), Along(p0, n, w)
             PROVE  Pursued(p0, frame[p0], w[Len(p0) + 1])
  BY <1>2, <1>3 DEF AllFound, Found
<1>5. w[Len(p0) + 1] \in stewards \/ {At(p0), w[Len(p0) + 1]} \in session
  BY <1>3, <1>4, FreshIsPursued
<1> QED
  BY <1>2, <1>5 DEF Pursued

LEMMA AlwaysLive == Spec => [](IInv /\ LInv)
<1>1. Init => IInv /\ LInv
  BY InitInv, InitLives
<1>2. IInv /\ LInv /\ [Next]_vars => (IInv /\ LInv)'
  BY NextInv, NextLives
<1> QED
  BY <1>1, <1>2, PTL DEF Spec

LEMMA AlwaysFinds ==
    ASSUME NothingIsCut
    PROVE  Spec => []AllFound
<1>1. Init => AllFound
  BY InitFinds
<1>2. (IInv /\ LInv) /\ AllFound /\ [Next]_vars => AllFound'
  BY NextFinds
<1> QED
  BY <1>1, <1>2, AlwaysLive, PTL DEF Spec

\* The read has ended unserved, though a walk was there and nothing failed.
Missed == faults = 0 /\ outcome # "none" /\ Reachable /\ outcome # "served"

\* Where no node has more candidates than it may ask, no walk is missed: while
\* nothing fails, a read that ends has been served if any walk within the
\* budget ends at a node that serves the host, whichever branches got where
\* first (routing/mod.rs forward_to, try_peer).
THEOREM NoneIsMissed ==
    ASSUME NothingIsCut
    PROVE  Spec => []~Missed
<1>1. AllFound => ~Missed
  BY DEF AllFound, Missed, Reachable, Found, Route
<1> QED
  BY <1>1, AlwaysFinds, PTL

-----------------------------------------------------------------------------
(* And none is made up: every frame and request has come over links, each  *)
(* hop of which its node had a steward's record of, a session for, or, as  *)
(* a steward itself, could be given one by whoever asked it                *)

MayAsk(n, m) == m \in Stewards \/ {n, m} \in wired.session \/ (n \in Stewards /\ Linked(n, m))

CanCross(n, m) == m \in Roster[n] /\ Linked(n, m) /\ MayAsk(n, m)

Crossed(path) == \A i \in 1 .. Len(path) - 1 : CanCross(path[i], path[i + 1])

Relayed(path) == \A i \in 2 .. Len(path) : path[i] \in wired.relays

\* Some walk within the budget, over sessions that may be opened on the way
\* too, ends at a node that serves the host.
CouldReach ==
    \E n \in 2 .. HopsMax + 2 : \E walk \in [1..n -> Nodes] :
        /\ IsInjective(walk) /\ walk[1] = Requester
        /\ \A i \in 1 .. n - 1 : CanCross(walk[i], walk[i + 1])
        /\ \A i \in 2 .. n - 1 : walk[i] \in wired.relays
        /\ walk[n] \in serving

SessionsFit == \A n, m \in Nodes : {n, m} \in session => MayAsk(n, m)

FrameFits(p, x) ==
    /\ Crossed(p) /\ Relayed(p)
    /\ \A m \in x.left : MayAsk(At(p), m)
    /\ faults = 0 /\ x.heard = "served" => CouldReach

RequestFits(q) == Crossed(q.visited) /\ Relayed(q.visited) /\ CanCross(At(q.visited), q.to)

SInv ==
    /\ SessionsFit
    /\ \A p \in DOMAIN frame : FrameFits(p, frame[p])
    /\ \A q \in request : RequestFits(q)
    /\ faults = 0 /\ outcome = "served" => CouldReach

LEMMA AskFits ==
    ASSUME IInv, SInv, NEW path \in DOMAIN frame, Ask(path)
    PROVE  SInv'
<1>1. PICK peer \in frame[path].left :
         /\ peer \in Nodes
         /\ frame'[path].left = frame[path].left \ {peer}
         /\ frame'[path].heard = frame[path].heard
         /\ \/ /\ peer \in Roster[At(path)] /\ Linked(At(path), peer)
               /\ request' = request \cup {[visited |-> path, to |-> peer, hops |-> frame[path].hops]}
               /\ session' = session \cup {{At(path), peer}}
            \/ UNCHANGED <<request, session>>
  BY AskIs
<1>2. SameBut(frame, frame', path) /\ UNCHANGED <<wired, serving, outcome, faults>>
  BY AskIs
<1>3. /\ \A n, m : MayAsk(n, m)' <=> MayAsk(n, m)
      /\ \A n, m : CanCross(n, m)' <=> CanCross(n, m)
      /\ CouldReach' <=> CouldReach
  BY <1>2 DEF MayAsk, CanCross, CouldReach, Linked
<1>4. FrameFits(path, frame[path]) /\ MayAsk(At(path), peer)
  BY <1>1 DEF SInv, FrameFits
<1>5. SessionsFit'
  <2> SUFFICES ASSUME NEW n \in Nodes, NEW m \in Nodes, {n, m} \in session' PROVE MayAsk(n, m)
    BY <1>3 DEF SessionsFit
  <2>1. CASE {n, m} \in session
    BY <2>1 DEF SInv, SessionsFit
  <2>2. CASE {n, m} = {At(path), peer} /\ Linked(At(path), peer)
    <3>1. (n = At(path) /\ m = peer) \/ (n = peer /\ m = At(path))
      BY <2>2
    <3>2. {n, m} = {m, n}
      OBVIOUS
    <3> QED
      BY <1>4, <2>2, <3>1, <3>2 DEF MayAsk, Linked
  <2> QED
    BY <1>1, <2>1, <2>2
<1>6. ASSUME NEW p \in DOMAIN frame' PROVE FrameFits(p, frame[p])'
  <2>1. p \in DOMAIN frame /\ FrameFits(p, frame[p])
    BY <1>2 DEF SameBut, SInv
  <2>2. frame'[p].left \subseteq frame[p].left /\ frame'[p].heard = frame[p].heard
    BY <1>1, <1>2, <2>1 DEF SameBut
  <2> QED
    BY <1>2, <1>3, <2>1, <2>2 DEF FrameFits, Crossed, Relayed
<1>7. ASSUME NEW q \in request' PROVE RequestFits(q)'
  <2>1. CASE q \in request
    BY <1>2, <1>3, <2>1 DEF SInv, RequestFits, Crossed, Relayed
  <2>2. CASE q \notin request
    <3>1. q.visited = path /\ q.to = peer /\ peer \in Roster[At(path)] /\ Linked(At(path), peer)
      BY <1>1, <2>2
    <3> QED
      BY <1>2, <1>3, <1>4, <3>1 DEF RequestFits, FrameFits, CanCross, Crossed, Relayed
  <2> QED
    BY <2>1, <2>2
<1> QED
  BY <1>2, <1>3, <1>5, <1>6, <1>7 DEF SInv

LEMMA TurnFits ==
    ASSUME IInv, SInv, NEW path \in DOMAIN frame, TurnToPeers(path)
    PROVE  SInv'
<1> DEFINE S == Candidates(SessionPeers(At(path)), path) \ frame[path].tried
<1>1. /\ SameBut(frame, frame', path) /\ UNCHANGED <<wired, serving, outcome, faults, session, request>>
      /\ frame'[path].left \in Take(S, RelayPeersMax) /\ frame'[path].heard = frame[path].heard
  BY TurnIs
<1>2. /\ \A n, m : MayAsk(n, m)' <=> MayAsk(n, m)
      /\ \A n, m : CanCross(n, m)' <=> CanCross(n, m)
      /\ CouldReach' <=> CouldReach
  BY <1>1 DEF MayAsk, CanCross, CouldReach, Linked
<1>3. frame'[path].left \subseteq S
  <2> HIDE DEF S
  <2> QED
    BY <1>1, TakenFrom
<1>4. \A m \in frame'[path].left : MayAsk(At(path), m)
  <2>1. At(path) \in Nodes
    BY FrameIs, PathFacts
  <2> QED
    BY <1>3, <2>1 DEF Candidates, SessionPeers, SInv, SessionsFit
<1>5. ASSUME NEW p \in DOMAIN frame' PROVE FrameFits(p, frame[p])'
  <2>1. p \in DOMAIN frame /\ FrameFits(p, frame[p])
    BY <1>1 DEF SameBut, SInv
  <2>2. \A m \in frame'[p].left : MayAsk(At(p), m)
    BY <1>1, <1>4, <2>1 DEF SameBut, FrameFits
  <2>3. frame'[p].heard = frame[p].heard
    BY <1>1, <2>1 DEF SameBut
  <2> QED
    BY <1>1, <1>2, <2>1, <2>2, <2>3 DEF FrameFits, Crossed, Relayed
<1> QED
  BY <1>1, <1>2, <1>5 DEF SInv, SessionsFit, RequestFits, Crossed, Relayed

LEMMA EndFits ==
    ASSUME IInv, SInv, NEW path \in DOMAIN frame, NEW what, End(path, what),
           UNCHANGED <<wired, serving, faults, session, request>>,
           faults = 0 /\ what = "served" => CouldReach
    PROVE  SInv'
<1>1. /\ \A n, m : MayAsk(n, m)' <=> MayAsk(n, m)
      /\ \A n, m : CanCross(n, m)' <=> CanCross(n, m)
      /\ CouldReach' <=> CouldReach
  BY DEF MayAsk, CanCross, CouldReach, Linked
<1>2. ASSUME NEW p \in DOMAIN frame' PROVE FrameFits(p, frame[p])'
  <2>1. p \in DOMAIN frame /\ FrameFits(p, frame[p])
    BY EndIs DEF SInv
  <2>2. frame'[p].left = frame[p].left /\ (frame'[p].heard = frame[p].heard \/ frame'[p].heard = what)
    BY EndIs DEF SameWork
  <2> QED
    BY <1>1, <2>1, <2>2 DEF FrameFits, Crossed, Relayed
<1>3. outcome' = outcome \/ outcome' = what
  BY EndIs
<1> QED
  BY <1>1, <1>2, <1>3 DEF SInv, SessionsFit, RequestFits, Crossed, Relayed

\* Also when something has failed: then nothing is said of what was heard.
LEMMA PassFits ==
    ASSUME IInv, SInv, NEW path \in DOMAIN frame, PassedOver(path),
           UNCHANGED <<wired, session, outcome>>, request' \subseteq request,
           faults' = 0 => faults = 0 /\ serving' = serving
    PROVE  SInv'
<1>1. /\ \A n, m : MayAsk(n, m)' <=> MayAsk(n, m)
      /\ \A n, m : CanCross(n, m)' <=> CanCross(n, m)
      /\ faults' = 0 => (CouldReach' <=> CouldReach)
  BY DEF MayAsk, CanCross, CouldReach, Linked
<1>2. ASSUME NEW p \in DOMAIN frame' PROVE FrameFits(p, frame[p])'
  <2>1. p \in DOMAIN frame /\ FrameFits(p, frame[p])
    BY PassIs DEF SInv, SameBut
  <2>2. frame'[p].left = frame[p].left /\ (frame'[p].heard = frame[p].heard \/ frame'[p].heard = "nothing")
    BY <2>1, PassIs DEF SameBut
  <2> QED
    BY <1>1, <2>1, <2>2 DEF FrameFits, Crossed, Relayed
<1> QED
  BY <1>1, <1>2 DEF SInv, SessionsFit, RequestFits, Crossed, Relayed

\* The walk of a request goes on to the node it is sent to.
LEMMA VisitedFits ==
    ASSUME IInv, NEW q \in request, RequestFits(q)
    PROVE  /\ Visited(q) \in Seq(Nodes) /\ Len(Visited(q)) = Len(q.visited) + 1
           /\ Len(q.visited) \in Nat /\ Len(q.visited) >= 1
           /\ \A i \in 1 .. Len(q.visited) : Visited(q)[i] = q.visited[i]
           /\ Visited(q)[Len(q.visited) + 1] = q.to
           /\ Visited(q)[1] = Requester /\ IsInjective(Visited(q))
           /\ Crossed(Visited(q))
<1> DEFINE v == q.visited  w == Visited(q)
<1>1. /\ v \in Seq(Nodes) /\ v # <<>> /\ v[1] = Requester /\ IsInjective(v)
      /\ q.to \in Nodes /\ q.to \notin Range(v)
  BY RequestIs
<1>2. /\ w \in Seq(Nodes) /\ Len(w) = Len(v) + 1 /\ DOMAIN w = 1 .. Len(v) + 1
      /\ (\A i \in 1 .. Len(v) : w[i] = v[i]) /\ w[Len(v) + 1] = q.to
  BY <1>1 DEF Visited
<1>3. Len(v) \in Nat /\ Len(v) >= 1 /\ DOMAIN v = 1 .. Len(v)
  BY <1>1
<1>4. IsInjective(w)
  <2>1. \A i \in 1 .. Len(v) : v[i] # q.to
    BY <1>1, <1>3 DEF Range
  <2> SUFFICES ASSUME NEW i \in DOMAIN w, NEW j \in DOMAIN w, w[i] = w[j] PROVE i = j
    BY DEF IsInjective
  <2>2. CASE i \in 1 .. Len(v) /\ j \in 1 .. Len(v)
    BY <1>1, <1>2, <1>3, <2>2 DEF IsInjective
  <2>3. CASE i \notin 1 .. Len(v) \/ j \notin 1 .. Len(v)
    BY <1>2, <1>3, <2>1, <2>3
  <2> QED
    BY <2>2, <2>3
<1>5. Crossed(w)
  <2> SUFFICES ASSUME NEW i \in 1 .. Len(w) - 1 PROVE CanCross(w[i], w[i + 1])
    BY DEF Crossed
  <2>1. CASE i = Len(v)
    <3>1. w[i] = At(v) /\ w[i + 1] = q.to
      BY <1>2, <1>3, <2>1 DEF At
    <3> QED
      BY <3>1 DEF RequestFits
  <2>2. CASE i # Len(v)
    <3>1. i \in 1 .. Len(v) - 1 /\ i \in 1 .. Len(v) /\ i + 1 \in 1 .. Len(v)
      BY <1>2, <1>3, <2>2
    <3>2. w[i] = v[i] /\ w[i + 1] = v[i + 1]
      BY <1>2, <3>1
    <3> QED
      BY <3>1, <3>2 DEF RequestFits, Crossed
  <2> QED
    BY <2>1, <2>2
<1> QED
  BY <1>1, <1>2, <1>3, <1>4, <1>5

LEMMA RelayFits ==
    ASSUME IInv, SInv, NEW q \in request, Serve(q), Relay(q)
    PROVE  SInv'
<1> DEFINE v == Visited(q)
<1>1. /\ DOMAIN frame' = DOMAIN frame \cup {v}
      /\ \A p \in DOMAIN frame : p # v => frame'[p] = frame[p]
      /\ frame'[v].left \in Take(Candidates(Stewards, v), StewardsTriedMax)
      /\ frame'[v].heard = "nothing"
  BY RelayIs
<1>2. request' \subseteq request /\ UNCHANGED <<wired, serving, session, outcome, faults>>
  BY DEF Serve, network
<1>3. /\ \A n, m : MayAsk(n, m)' <=> MayAsk(n, m)
      /\ \A n, m : CanCross(n, m)' <=> CanCross(n, m)
      /\ CouldReach' <=> CouldReach
  BY <1>2 DEF MayAsk, CanCross, CouldReach, Linked
<1>4. RequestFits(q)
  BY DEF SInv
<1>5. Relayed(v)
  <2>1. q.to \in wired.relays
    BY DEF Relay, IsForwarded
  <2> SUFFICES ASSUME NEW i \in 2 .. Len(v) PROVE v[i] \in wired.relays
    BY DEF Relayed
  <2>2. CASE i = Len(q.visited) + 1
    BY <1>4, <2>1, <2>2, VisitedFits
  <2>3. CASE i # Len(q.visited) + 1
    <3>1. i \in 2 .. Len(q.visited) /\ v[i] = q.visited[i]
      BY <1>4, <2>3, VisitedFits
    <3> QED
      BY <1>4, <3>1 DEF RequestFits, Relayed
  <2> QED
    BY <2>2, <2>3
<1>6. Crossed(v)
  BY <1>4, VisitedFits
<1>7. \A m \in frame'[v].left : MayAsk(At(v), m)
  BY <1>1, TakenFrom DEF Candidates, MayAsk
<1> HIDE DEF v
<1>8. ASSUME NEW p \in DOMAIN frame' PROVE FrameFits(p, frame[p])'
  <2>1. CASE p = v
    BY <1>1, <1>2, <1>3, <1>5, <1>6, <1>7, <2>1 DEF FrameFits, Crossed, Relayed
  <2>2. CASE p # v
    <3>1. p \in DOMAIN frame /\ FrameFits(p, frame[p]) /\ frame'[p] = frame[p]
      BY <1>1, <2>2 DEF SInv
    <3> QED
      BY <1>2, <1>3, <3>1 DEF FrameFits, Crossed, Relayed
  <2> QED
    BY <2>1, <2>2
<1> QED
  BY <1>2, <1>3, <1>8 DEF SInv, SessionsFit, RequestFits, Crossed, Relayed

\* Whoever is asked and serves the host is the end of the walk to it.
LEMMA ServedIsReached ==
    ASSUME IInv, NEW q \in request, RequestFits(q), Reply(q) = "served"
    PROVE  CouldReach
<1> DEFINE w == Visited(q)  n == Len(q.visited) + 1
<1>1. q.to \in serving
  BY DEF Reply
<1>2. q.hops \in Nat /\ q.hops + Len(q.visited) = VisitedMax /\ HopsMax \in Nat
  BY RequestIs, RoutingAssumption
<1>3. /\ w \in Seq(Nodes) /\ Len(w) = n /\ n \in Nat /\ n >= 2
      /\ (\A i \in 1 .. n - 1 : w[i] = q.visited[i]) /\ w[n] = q.to
      /\ w[1] = Requester /\ IsInjective(w) /\ Crossed(w)
  BY VisitedFits
<1>4. n \in 2 .. HopsMax + 2
  BY <1>2, <1>3 DEF VisitedMax
<1>5. w \in [1 .. n -> Nodes]
  BY <1>3
<1>6. \A i \in 1 .. n - 1 : CanCross(w[i], w[i + 1])
  BY <1>3 DEF Crossed
<1>7. \A i \in 2 .. n - 1 : w[i] \in wired.relays
  <2>1. \A i \in 2 .. n - 1 : i \in 1 .. n - 1 /\ i \in 2 .. Len(q.visited)
    BY <1>3
  <2> QED
    BY <1>3, <2>1 DEF RequestFits, Relayed
<1> HIDE DEF w, n
<1> QED
  BY <1>1, <1>3, <1>4, <1>5, <1>6, <1>7 DEF CouldReach

LEMMA AnswerFits ==
    ASSUME IInv, SInv, NEW q \in request, Serve(q), Answer(q)
    PROVE  SInv'
<1> DEFINE v == q.visited
<1>1. /\ request' \subseteq request /\ UNCHANGED <<wired, serving, session, outcome, faults>>
      /\ frame' = Replied(frame, v, q.to, Reply(q))
  BY DEF Serve, Answer, network
<1>2. Framed(frame)
  BY DEF IInv
<1>3. /\ SameBut(frame, frame', v)
      /\ v \in DOMAIN frame /\ frame[v].asking = q.to /\ frame[v].heard = "nothing"
           => SameWork(frame'[v], frame[v]) /\ frame'[v].heard = Reply(q)
      /\ ~(v \in DOMAIN frame /\ frame[v].asking = q.to /\ frame[v].heard = "nothing") => frame' = frame
  BY <1>1, <1>2, RepliedIs
<1>4. /\ \A n, m : MayAsk(n, m)' <=> MayAsk(n, m)
      /\ \A n, m : CanCross(n, m)' <=> CanCross(n, m)
      /\ CouldReach' <=> CouldReach
  BY <1>1 DEF MayAsk, CanCross, CouldReach, Linked
<1>5. Reply(q) = "served" => CouldReach
  BY ServedIsReached DEF SInv
<1>6. ASSUME NEW p \in DOMAIN frame' PROVE FrameFits(p, frame[p])'
  <2>1. p \in DOMAIN frame /\ FrameFits(p, frame[p])
    BY <1>3 DEF SInv, SameBut
  <2>2. /\ frame'[p].left = frame[p].left
        /\ frame'[p].heard = frame[p].heard \/ frame'[p].heard = Reply(q)
    BY <1>3, <2>1 DEF SameBut, SameWork
  <2> QED
    BY <1>1, <1>4, <1>5, <2>1, <2>2 DEF FrameFits, Crossed, Relayed
<1> QED
  BY <1>1, <1>4, <1>6 DEF SInv, SessionsFit, RequestFits, Crossed, Relayed

LEMMA FaultFits ==
    ASSUME SInv, UNCHANGED <<wired, request, frame, outcome>>, session' \subseteq session, faults' # 0
    PROVE  SInv'
<1>1. /\ \A n, m : MayAsk(n, m)' <=> MayAsk(n, m)
      /\ \A n, m : CanCross(n, m)' <=> CanCross(n, m)
  BY DEF MayAsk, CanCross, Linked
<1>2. ASSUME NEW p \in DOMAIN frame PROVE FrameFits(p, frame[p])'
  <2>1. FrameFits(p, frame[p])
    BY DEF SInv
  <2> QED
    BY <1>1, <2>1 DEF FrameFits, Crossed, Relayed
<1>3. ASSUME NEW q \in request PROVE RequestFits(q)'
  BY <1>1 DEF SInv, RequestFits, Crossed, Relayed
<1> QED
  BY <1>1, <1>2, <1>3 DEF SInv, SessionsFit

LEMMA NextFits == IInv /\ SInv /\ [Next]_vars => SInv'
<1> SUFFICES ASSUME IInv, SInv, [Next]_vars PROVE SInv'
  OBVIOUS
<1>1. ASSUME NEW path \in DOMAIN frame, Forward(path) PROVE SInv'
  <2>1. CASE Ask(path)
    BY <2>1, AskFits
  <2>2. CASE TurnToPeers(path)
    BY <2>2, TurnFits
  <2>3. CASE GiveUp(path)
    BY <2>3, EndFits DEF GiveUp, network
  <2>4. CASE HearAnswer(path)
    <3>1. faults = 0 /\ frame[path].heard = "served" => CouldReach
      BY DEF SInv, FrameFits
    <3> QED
      BY <2>4, <3>1, EndFits DEF HearAnswer, Heard, network
  <2>5. CASE HearUnreachable(path)
    BY <2>5, PassFits DEF HearUnreachable, Heard, network
  <2> QED
    BY <1>1, <2>1, <2>2, <2>3, <2>4, <2>5 DEF Forward
<1>2. ASSUME NEW path \in DOMAIN frame, TimeOut(path) PROVE SInv'
  <2>1. request' \subseteq request /\ UNCHANGED <<wired, serving, session, outcome>> /\ PassedOver(path)
        /\ faults' = faults + 1 /\ faults \in Nat
    BY <1>2 DEF TimeOut, network, IInv, Networked
  <2> QED
    BY <2>1, PassFits
<1>3. ASSUME NEW q \in request, Serve(q) PROVE SInv'
  BY <1>3, RelayFits, AnswerFits DEF Serve
<1>4. ASSUME NEW s \in session, CloseSession(s) PROVE SInv'
  <2>1. UNCHANGED <<wired, request, frame, outcome>> /\ session' \subseteq session
        /\ faults' = faults + 1 /\ faults \in Nat
    BY <1>4 DEF CloseSession, network, IInv, Networked
  <2> QED
    BY <2>1, FaultFits
<1>5. ASSUME NEW n \in Nodes, Withdraw(n) PROVE SInv'
  <2>1. UNCHANGED <<wired, request, frame, outcome, session>> /\ faults' = faults + 1 /\ faults \in Nat
    BY <1>5 DEF Withdraw, IInv, Networked
  <2> QED
    BY <2>1, FaultFits
<1>6. CASE UNCHANGED vars
  BY <1>6 DEF vars, SInv, SessionsFit, FrameFits, RequestFits,
              Crossed, Relayed, CanCross, MayAsk, Linked, CouldReach
<1> QED
  BY <1>1, <1>2, <1>3, <1>4, <1>5, <1>6 DEF Next

LEMMA InitFits == Init => SInv
<1> SUFFICES ASSUME Init PROVE SInv
  OBVIOUS
<1> DEFINE p0 == <<Requester>>
<1>1. PICK stewards \in Take(Candidates(Stewards, p0), StewardsTriedMax) :
         frame = [p \in {p0} |-> Forwarding(HopsMax, stewards)]
  BY DEF Init
<1>2. DOMAIN frame = {p0} /\ frame[p0].left = stewards /\ frame[p0].heard = "nothing"
  BY <1>1 DEF Forwarding
<1>3. \A m \in stewards : MayAsk(At(p0), m)
  BY <1>1, TakenFrom DEF Candidates, MayAsk
<1>4. Len(p0) = 1
  OBVIOUS
<1>5. Crossed(p0) /\ Relayed(p0)
  BY <1>4 DEF Crossed, Relayed
<1> HIDE DEF p0
<1>6. \A p \in DOMAIN frame : FrameFits(p, frame[p])
  BY <1>2, <1>3, <1>5 DEF FrameFits
<1>7. SessionsFit
  BY DEF Init, SessionsFit, MayAsk
<1>8. request = {} /\ outcome = "none"
  BY DEF Init
<1> QED
  BY <1>6, <1>7, <1>8 DEF SInv

LEMMA AlwaysFits == Spec => []SInv
<1>1. Init => SInv
  BY InitFits
<1>2. IInv /\ SInv /\ [Next]_vars => SInv'
  BY NextFits
<1> QED
  BY <1>1, <1>2, AlwaysInv, PTL DEF Spec

ServedIsReachable == faults = 0 /\ outcome = "served" => CouldReach

\* No answer is made up, in any network and whatever the limits cut: while
\* nothing fails, a read that was served went, within the budget, over links
\* between nodes that had records and sessions or could be given them, through
\* nodes that relay, to a node that serves the host.
THEOREM NoAnswerIsMadeUp == Spec => []ServedIsReachable
<1>1. SInv => ServedIsReachable
  BY DEF SInv, ServedIsReachable
<1> QED
  BY <1>1, AlwaysFits, PTL

\* Where a steward that forwards has its sessions from the start, a branch
\* opens nothing for another.
LEMMA NothingIsOpened ==
    ASSUME IInv, NoShortcuts, CouldReach
    PROVE  Reachable
<1>1. wired \in Networks /\ wired.relays \subseteq Nodes
  BY RoutingAssumption DEF IInv, Networked
<1>2. PICK n \in 2 .. HopsMax + 2 : \E walk \in [1..n -> Nodes] :
         /\ IsInjective(walk) /\ walk[1] = Requester
         /\ \A i \in 1 .. n - 1 : CanCross(walk[i], walk[i + 1])
         /\ \A i \in 2 .. n - 1 : walk[i] \in wired.relays
         /\ walk[n] \in serving
  BY DEF CouldReach
<1>3. PICK walk \in [1..n -> Nodes] :
         /\ IsInjective(walk) /\ walk[1] = Requester
         /\ \A i \in 1 .. n - 1 : CanCross(walk[i], walk[i + 1])
         /\ \A i \in 2 .. n - 1 : walk[i] \in wired.relays
         /\ walk[n] \in serving
  BY <1>2
<1>4. ASSUME NEW i \in 1 .. n - 1 PROVE Hop(walk[i], walk[i + 1])
  <2>1. n \in Nat /\ HopsMax \in Nat
    BY RoutingAssumption
  <2>2. walk[i] = Requester \/ walk[i] \in wired.relays
    BY <1>3, <2>1
  <2>3. CanCross(walk[i], walk[i + 1])
    BY <1>3
  <2>4. CASE walk[i] \in Stewards /\ walk[i + 1] \notin Stewards
    <3>1. walk[i] \in (wired.relays \cup {Requester}) \cap Stewards
      BY <2>2, <2>4
    <3>2. walk[i + 1] \in Roster[walk[i]] \ Stewards /\ {walk[i], walk[i + 1]} \in wired.link
      BY <2>3, <2>4 DEF CanCross, Linked
    <3>3. {walk[i], walk[i + 1]} \in wired.session
      BY <1>1, <3>1, <3>2 DEF NoShortcuts
    <3> QED
      BY <2>3, <3>3 DEF Hop, CanCross
  <2> QED
    BY <2>3, <2>4 DEF Hop, CanCross, MayAsk
<1> QED
  BY <1>3, <1>4 DEF Reachable

\* A read is served exactly if it can be: together, where nothing is cut and
\* stewards that forward have their sessions, for any nodes, links, budgets
\* and interleavings of the branches.
THEOREM FoundExactly ==
    ASSUME NothingIsCut, NoShortcuts
    PROVE  Spec => []FoundIfReachable
<1>1. IInv /\ AllFound /\ SInv => FoundIfReachable
  <2> SUFFICES ASSUME IInv, AllFound, SInv, faults = 0, outcome # "none"
               PROVE  outcome = "served" <=> Reachable
    BY DEF FoundIfReachable
  <2>1. Reachable => outcome = "served"
    BY DEF AllFound, Reachable, Found, Route
  <2>2. outcome = "served" => Reachable
    BY NothingIsOpened DEF SInv
  <2> QED
    BY <2>1, <2>2
<1> QED
  BY <1>1, AlwaysInv, AlwaysFinds, AlwaysFits, PTL

-----------------------------------------------------------------------------
(* A path names one branch: a node is asked once along it, so no request   *)
(* and no frame is taken for another                                       *)

StartsWith(path, p) == Len(p) <= Len(path) /\ \A i \in 1 .. Len(p) : path[i] = p[i]

\* The paths of the branches there are, or that are asked for.
Started == DOMAIN frame \cup {Visited(q) : q \in request}

NoneIsLeftTwice ==
    \A p \in DOMAIN frame : /\ frame[p].left \cap frame[p].tried = {}
                            /\ frame[p].asking \in frame[p].tried \cup {None}

\* Whatever has started below a frame, the frame has tried.
BranchesWereTried ==
    \A path \in Started : \A p \in DOMAIN frame :
        StartsWith(path, p) /\ p # path => path[Len(p) + 1] \in frame[p].tried

\* Below a request nothing has started.
RequestsAreNew ==
    \A q \in request :
        /\ Visited(q) \notin DOMAIN frame
        /\ \A path \in Started : StartsWith(path, Visited(q)) => path = Visited(q)

OInv == NoneIsLeftTwice /\ BranchesWereTried /\ RequestsAreNew

LEMMA SamePath ==
    ASSUME NEW path \in Seq(Nodes), NEW p \in Seq(Nodes), StartsWith(path, p)
    PROVE  p = path \/ Len(p) < Len(path)
<1>1. Len(p) \in Nat /\ Len(path) \in Nat /\ Len(p) <= Len(path)
  BY DEF StartsWith
<1>2. ASSUME Len(p) = Len(path) PROVE p = path
  BY <1>2, SeqEqual DEF StartsWith
<1> QED
  BY <1>1, <1>2

\* What starts a path that goes on by one node.
LEMMA StartsOfAppend ==
    ASSUME NEW p \in Seq(Nodes), NEW m \in Nodes, NEW r \in Seq(Nodes),
           StartsWith(Append(p, m), r), r # Append(p, m)
    PROVE  /\ StartsWith(p, r)
           /\ Append(p, m)[Len(r) + 1] = IF r = p THEN m ELSE p[Len(r) + 1]
<1> DEFINE w == Append(p, m)
<1>1. /\ w \in Seq(Nodes) /\ Len(w) = Len(p) + 1 /\ Len(p) \in Nat /\ Len(r) \in Nat
      /\ (\A i \in 1 .. Len(p) : w[i] = p[i]) /\ w[Len(p) + 1] = m
  OBVIOUS
<1>2. Len(r) < Len(w)
  <2> HIDE DEF w
  <2> QED
    BY <1>1, SamePath DEF w
<1>3. StartsWith(p, r)
  BY <1>1, <1>2 DEF StartsWith
<1>4. r = p \/ Len(r) < Len(p)
  BY <1>3, SamePath
<1> QED
  BY <1>1, <1>3, <1>4

\* What goes on from it.
LEMMA StartsWithAppend ==
    ASSUME NEW p \in Seq(Nodes), NEW m \in Nodes, NEW path \in Seq(Nodes),
           StartsWith(path, Append(p, m))
    PROVE  StartsWith(path, p) /\ p # path /\ path[Len(p) + 1] = m
<1>1. /\ Len(Append(p, m)) = Len(p) + 1 /\ Len(p) \in Nat /\ Len(path) \in Nat
      /\ (\A i \in 1 .. Len(p) : Append(p, m)[i] = p[i]) /\ Append(p, m)[Len(p) + 1] = m
  OBVIOUS
<1> QED
  BY <1>1 DEF StartsWith

LEMMA StartedArePaths ==
    ASSUME IInv, NEW path \in Started
    PROVE  path \in Seq(Nodes) /\ path # <<>>
<1>1. CASE path \in DOMAIN frame
  BY <1>1, FrameIs
<1>2. CASE path \notin DOMAIN frame
  <2>1. PICK q \in request : path = Visited(q)
    BY <1>2 DEF Started
  <2> QED
    BY <2>1, RequestIs DEF Visited
<1> QED
  BY <1>1, <1>2

\* A new request asks for what has not started, and nothing has below it.
LEMMA AskedIsNew ==
    ASSUME IInv, OInv, NEW p \in DOMAIN frame, NEW m \in frame[p].left, m \in Nodes,
           NEW path \in Started, StartsWith(path, Append(p, m))
    PROVE  FALSE
<1>1. StartsWith(path, p) /\ p # path /\ path[Len(p) + 1] = m
  BY FrameIs, StartedArePaths, StartsWithAppend
<1> QED
  BY <1>1 DEF OInv, BranchesWereTried, NoneIsLeftTwice

LEMMA StartsWithItself == \A p : Len(p) \in Nat => StartsWith(p, p)
BY DEF StartsWith

LEMMA AskIsOnce ==
    ASSUME IInv, OInv, NEW path \in DOMAIN frame, Ask(path)
    PROVE  OInv' /\ \A q \in request' \ request : Visited(q) \notin Started
<1>1. PICK peer \in frame[path].left :
         /\ peer \in Nodes
         /\ frame'[path].left = frame[path].left \ {peer}
         /\ frame'[path].tried = frame[path].tried \cup {peer}
         /\ \/ /\ frame'[path].asking = peer
               /\ request' = request \cup {[visited |-> path, to |-> peer, hops |-> frame[path].hops]}
            \/ frame'[path].asking = None /\ UNCHANGED request
  BY AskIs
<1>2. DOMAIN frame' = DOMAIN frame /\ \A p \in DOMAIN frame : p # path => frame'[p] = frame[p]
  BY AskIs DEF SameBut
<1>3. path \in Seq(Nodes) /\ path # <<>>
  BY FrameIs
<1>4. NoneIsLeftTwice'
  BY <1>1, <1>2 DEF OInv, NoneIsLeftTwice
<1>5. \A p \in DOMAIN frame : frame[p].tried \subseteq frame'[p].tried
  BY <1>1, <1>2
<1>6. CASE UNCHANGED request
  <2>1. Started' = Started
    BY <1>2, <1>6 DEF Started, Visited
  <2> QED
    BY <1>2, <1>4, <1>5, <1>6, <2>1 DEF OInv, BranchesWereTried, RequestsAreNew
<1>7. CASE /\ frame'[path].asking = peer
           /\ request' = request \cup {[visited |-> path, to |-> peer, hops |-> frame[path].hops]}
  <2> DEFINE w == Append(path, peer)
             r == [visited |-> path, to |-> peer, hops |-> frame[path].hops]
  <2>1. Visited(r) = w /\ w \in Seq(Nodes) /\ Len(w) \in Nat
    BY <1>1, <1>3 DEF Visited
  <2>2. \A x \in Started : ~StartsWith(x, w)
    BY <1>1, AskedIsNew
  <2>3. w \notin Started
    BY <2>1, <2>2, StartsWithItself
  <2>4. Started' = Started \cup {w}
    BY <1>2, <1>7, <2>1 DEF Started, Visited
  <2>5. BranchesWereTried'
    <3> SUFFICES ASSUME NEW x \in Started', NEW p \in DOMAIN frame, StartsWith(x, p), p # x
                 PROVE  x[Len(p) + 1] \in frame'[p].tried
      BY <1>2 DEF BranchesWereTried
    <3>1. CASE x \in Started
      BY <1>5, <3>1 DEF OInv, BranchesWereTried
    <3>2. CASE x = w
      <4>1. StartsWith(path, p) /\ x[Len(p) + 1] = IF p = path THEN peer ELSE path[Len(p) + 1]
        <5>1. /\ p \in Seq(Nodes) /\ path \in Seq(Nodes) /\ peer \in Nodes
              /\ StartsWith(Append(path, peer), p) /\ p # Append(path, peer)
          BY <1>1, <1>3, <3>2, FrameIs
        <5>2. /\ StartsWith(path, p)
              /\ Append(path, peer)[Len(p) + 1] = IF p = path THEN peer ELSE path[Len(p) + 1]
          BY ZenonT(40), <5>1, StartsOfAppend
        <5> QED
          BY <3>2, <5>2
      <4>2. CASE p = path
        BY <1>1, <4>1, <4>2
      <4>3. CASE p # path
        <5>1. path[Len(p) + 1] \in frame[p].tried
          BY <4>1, <4>3 DEF OInv, BranchesWereTried, Started
        <5> QED
          BY <1>5, <4>1, <4>3, <5>1
      <4> QED
        BY <4>2, <4>3
    <3> QED
      BY <2>4, <3>1, <3>2
  <2>6. RequestsAreNew'
    <3> SUFFICES ASSUME NEW q \in request'
                 PROVE  /\ Visited(q) \notin DOMAIN frame
                        /\ \A x \in Started \cup {w} : StartsWith(x, Visited(q)) => x = Visited(q)
      BY <1>2, <2>4 DEF RequestsAreNew, Visited
    <3>1. CASE q \in request
      <4>1. /\ Visited(q) \notin DOMAIN frame /\ Visited(q) \in Started
            /\ \A x \in Started : StartsWith(x, Visited(q)) => x = Visited(q)
        BY <3>1 DEF OInv, RequestsAreNew, Started
      <4>2. ASSUME StartsWith(w, Visited(q)), Visited(q) # w PROVE FALSE
        <5>1. StartsWith(path, Visited(q))
          BY <1>1, <1>3, <4>1, <4>2, StartedArePaths, StartsOfAppend
        <5> QED
          BY <4>1, <5>1 DEF Started
      <4> HIDE DEF w
      <4> QED
        BY <4>1, <4>2
    <3>2. CASE q \notin request
      <4>1. Visited(q) = w
        BY <1>7, <2>1, <3>2
      <4> HIDE DEF w
      <4> QED
        BY <2>2, <2>3, <4>1 DEF Started
    <3> QED
      BY <3>1, <3>2
  <2>7. \A q \in request' \ request : Visited(q) \notin Started
    BY <1>7, <2>1, <2>3
  <2> QED
    BY <1>4, <2>5, <2>6, <2>7 DEF OInv
<1> QED
  BY <1>1, <1>6, <1>7

\* Nothing starts, and what frames have tried stays tried.
LEMMA LessIsOnce ==
    ASSUME IInv, OInv, NoneIsLeftTwice', DOMAIN frame' \subseteq DOMAIN frame, request' \subseteq request,
           \A p \in DOMAIN frame' : frame[p].tried \subseteq frame'[p].tried
    PROVE  OInv' /\ \A q \in request' \ request : Visited(q) \notin Started
<1>1. Started' \subseteq Started
  BY DEF Started, Visited
<1>2. BranchesWereTried'
  BY <1>1 DEF OInv, BranchesWereTried
<1>3. RequestsAreNew'
  BY <1>1 DEF OInv, RequestsAreNew, Visited
<1> QED
  BY <1>2, <1>3 DEF OInv

LEMMA EndIsOnce ==
    ASSUME IInv, OInv, NEW path \in DOMAIN frame, NEW what, End(path, what), UNCHANGED request
    PROVE  OInv' /\ \A q \in request' \ request : Visited(q) \notin Started
<1>1. /\ DOMAIN frame' \subseteq DOMAIN frame
      /\ \A p \in DOMAIN frame' : SameWork(frame'[p], frame[p])
  BY EndIs
<1>2. NoneIsLeftTwice'
  BY <1>1 DEF OInv, NoneIsLeftTwice, SameWork
<1> QED
  BY <1>1, <1>2, LessIsOnce DEF SameWork

LEMMA PassIsOnce ==
    ASSUME IInv, OInv, NEW path \in DOMAIN frame, PassedOver(path), request' \subseteq request
    PROVE  OInv' /\ \A q \in request' \ request : Visited(q) \notin Started
<1>1. /\ DOMAIN frame' = DOMAIN frame /\ (\A p \in DOMAIN frame : p # path => frame'[p] = frame[p])
      /\ frame'[path].left = frame[path].left /\ frame'[path].tried = frame[path].tried
      /\ frame'[path].asking = None
  BY PassIs DEF SameBut
<1>2. NoneIsLeftTwice'
  BY <1>1 DEF OInv, NoneIsLeftTwice
<1>3. \A p \in DOMAIN frame' : frame[p].tried \subseteq frame'[p].tried
  BY <1>1
<1> QED
  BY <1>1, <1>2, <1>3, LessIsOnce

LEMMA TurnIsOnce ==
    ASSUME IInv, OInv, NEW path \in DOMAIN frame, TurnToPeers(path)
    PROVE  OInv' /\ \A q \in request' \ request : Visited(q) \notin Started
<1>1. /\ SameBut(frame, frame', path) /\ UNCHANGED request
      /\ frame'[path].left \in
           Take(Candidates(SessionPeers(At(path)), path) \ frame[path].tried, RelayPeersMax)
      /\ frame'[path].tried = frame[path].tried /\ frame'[path].asking = frame[path].asking
  BY TurnIs
<1>2. frame'[path].left \cap frame[path].tried = {}
  BY <1>1, TakenFrom
<1>3. DOMAIN frame' = DOMAIN frame /\ \A p \in DOMAIN frame : p # path => frame'[p] = frame[p]
  BY <1>1 DEF SameBut
<1>4. NoneIsLeftTwice'
  BY <1>1, <1>2, <1>3 DEF OInv, NoneIsLeftTwice
<1>5. \A p \in DOMAIN frame' : frame[p].tried \subseteq frame'[p].tried
  BY <1>1, <1>3
<1> QED
  BY <1>1, <1>3, <1>4, <1>5, LessIsOnce

LEMMA ServeIsOnce ==
    ASSUME IInv, OInv, NEW q \in request, Serve(q)
    PROVE  OInv' /\ \A r \in request' \ request : Visited(r) \notin Started
<1>1. request' = request \ {q}
  BY DEF Serve
<1>2. CASE Relay(q)
  <2> DEFINE v == Visited(q)
  <2>1. /\ DOMAIN frame' = DOMAIN frame \cup {v}
        /\ \A p \in DOMAIN frame : p # v => frame'[p] = frame[p]
        /\ frame'[v].left \in Take(Candidates(Stewards, v), StewardsTriedMax)
        /\ frame'[v].tried = {} /\ frame'[v].asking = None
    BY <1>2, RelayIs
  <2>2. v \notin DOMAIN frame /\ v \in Started /\ \A x \in Started : StartsWith(x, v) => x = v
    BY DEF OInv, RequestsAreNew, Started
  <2>3. \A r \in request' : Visited(r) # v
    <3> SUFFICES ASSUME NEW r \in request, Visited(r) = v PROVE r = q
      BY <1>1
    <3>1. /\ r.visited \in Seq(Nodes) /\ q.visited \in Seq(Nodes) /\ r.to \in Nodes /\ q.to \in Nodes
          /\ r.hops \in Nat /\ q.hops \in Nat
          /\ r.hops + Len(r.visited) = VisitedMax /\ q.hops + Len(q.visited) = VisitedMax
      BY RequestIs
    <3>2. Append(r.visited, r.to) = Append(q.visited, q.to)
      BY DEF Visited
    <3>3. r.visited = q.visited /\ r.to = q.to
      <4>1. /\ Above(Append(r.visited, r.to)) = r.visited /\ At(Append(r.visited, r.to)) = r.to
            /\ Above(Append(q.visited, q.to)) = q.visited /\ At(Append(q.visited, q.to)) = q.to
        BY <3>1, AppendIs
      <4> QED
        BY <3>2, <4>1
    <3>4. r.hops = q.hops
      <4>1. Len(q.visited) \in Nat /\ VisitedMax \in Nat
        BY <3>1, RoutingAssumption DEF VisitedMax
      <4> QED
        BY <3>1, <3>3, <4>1
    <3>5. r \in Requests /\ q \in Requests
      BY DEF IInv, Requested, RequestOK
    <3> QED
      BY <3>3, <3>4, <3>5 DEF Requests
  <2> HIDE DEF v
  <2>4. Started' \subseteq Started
    BY <1>1, <2>1, <2>2 DEF Started, Visited
  <2>5. NoneIsLeftTwice'
    BY <2>1, <2>2 DEF OInv, NoneIsLeftTwice
  <2>6. BranchesWereTried'
    <3> SUFFICES ASSUME NEW x \in Started', NEW p \in DOMAIN frame', StartsWith(x, p), p # x
                 PROVE  x[Len(p) + 1] \in frame'[p].tried
      BY DEF BranchesWereTried
    <3>1. p # v
      BY <2>2, <2>4
    <3> QED
      BY <2>1, <2>4, <3>1 DEF OInv, BranchesWereTried
  <2>7. RequestsAreNew'
    BY <1>1, <2>1, <2>3, <2>4 DEF OInv, RequestsAreNew, Visited
  <2> QED
    BY <1>1, <2>5, <2>6, <2>7 DEF OInv
<1>3. CASE Answer(q)
  <2> DEFINE v == q.visited
  <2>1. frame' = Replied(frame, v, q.to, Reply(q)) /\ Framed(frame)
    BY <1>3 DEF Answer, IInv
  <2>2. /\ SameBut(frame, frame', v)
        /\ v \in DOMAIN frame /\ frame[v].asking = q.to /\ frame[v].heard = "nothing"
             => SameWork(frame'[v], frame[v])
        /\ ~(v \in DOMAIN frame /\ frame[v].asking = q.to /\ frame[v].heard = "nothing") => frame' = frame
    BY <2>1, RepliedIs
  <2>3. DOMAIN frame' = DOMAIN frame /\ \A p \in DOMAIN frame : SameWork(frame'[p], frame[p])
    BY <2>2 DEF SameBut, SameWork
  <2>4. NoneIsLeftTwice'
    BY <2>3 DEF OInv, NoneIsLeftTwice, SameWork
  <2>5. \A p \in DOMAIN frame' : frame[p].tried \subseteq frame'[p].tried
    BY <2>3 DEF SameWork
  <2> QED
    BY <1>1, <2>3, <2>4, <2>5, LessIsOnce
<1> QED
  BY <1>2, <1>3 DEF Serve

LEMMA NextIsOnce ==
    ASSUME IInv, OInv, [Next]_vars
    PROVE  OInv' /\ \A q \in request' \ request : Visited(q) \notin Started
<1>1. ASSUME NEW path \in DOMAIN frame, Forward(path)
      PROVE  OInv' /\ \A q \in request' \ request : Visited(q) \notin Started
  <2>1. CASE Ask(path)
    BY <2>1, AskIsOnce
  <2>2. CASE TurnToPeers(path)
    BY <2>2, TurnIsOnce
  <2>3. CASE GiveUp(path)
    BY <2>3, EndIsOnce DEF GiveUp
  <2>4. CASE HearAnswer(path)
    BY <2>4, EndIsOnce DEF HearAnswer, Heard
  <2>5. CASE HearUnreachable(path)
    BY <2>5, PassIsOnce DEF HearUnreachable, Heard
  <2> QED
    BY <1>1, <2>1, <2>2, <2>3, <2>4, <2>5 DEF Forward
<1>2. ASSUME NEW path \in DOMAIN frame, TimeOut(path)
      PROVE  OInv' /\ \A q \in request' \ request : Visited(q) \notin Started
  BY <1>2, PassIsOnce DEF TimeOut
<1>3. ASSUME NEW q \in request, Serve(q)
      PROVE  OInv' /\ \A r \in request' \ request : Visited(r) \notin Started
  BY <1>3, ServeIsOnce
<1>4. ASSUME UNCHANGED <<frame, request>>
      PROVE  OInv' /\ \A q \in request' \ request : Visited(q) \notin Started
  BY <1>4 DEF OInv, NoneIsLeftTwice, BranchesWereTried, RequestsAreNew, Started, Visited
<1>5. ASSUME NEW s \in session, CloseSession(s) PROVE UNCHANGED <<frame, request>>
  BY <1>5 DEF CloseSession
<1>6. ASSUME NEW n \in Nodes, Withdraw(n) PROVE UNCHANGED <<frame, request>>
  BY <1>6 DEF Withdraw
<1>7. CASE UNCHANGED vars
  BY <1>4, <1>7 DEF vars
<1> QED
  BY <1>1, <1>2, <1>3, <1>4, <1>5, <1>6, <1>7 DEF Next

LEMMA InitIsOnce == Init => OInv
<1> SUFFICES ASSUME Init PROVE OInv
  OBVIOUS
<1>1. PICK stewards : frame = [p \in {<<Requester>>} |-> Forwarding(HopsMax, stewards)]
  BY DEF Init
<1>2. /\ DOMAIN frame = {<<Requester>>}
      /\ frame[<<Requester>>].tried = {} /\ frame[<<Requester>>].asking = None
  BY <1>1 DEF Forwarding
<1>3. request = {} /\ Started = DOMAIN frame
  BY DEF Init, Started
<1> QED
  BY <1>2, <1>3 DEF OInv, NoneIsLeftTwice, BranchesWereTried, RequestsAreNew

LEMMA AlwaysOnce == Spec => [](IInv /\ OInv)
<1>1. Init => IInv /\ OInv
  BY InitInv, InitIsOnce
<1>2. IInv /\ OInv /\ [Next]_vars => (IInv /\ OInv)'
  BY NextInv, NextIsOnce
<1> QED
  BY <1>1, <1>2, PTL DEF Spec

\* A request is sent along a path on which nothing is under way, neither a
\* request nor a frame; and one that arrives finds no frame of its path.
EachIsOneBranch ==
    /\ \A q \in request' \ request : Visited(q) \notin Started
    /\ \A q \in request \ request' : Visited(q) \notin DOMAIN frame

\* No node is asked twice along one path, by however many branches, late
\* requests and timeouts: so a relay's forwarding never gets mixed up with
\* another of its own, and a late answer is never taken for that of another
\* request (forward_to's tried, try_peer).
THEOREM BranchesAreDistinct == Spec => [][EachIsOneBranch]_vars
<1>1. IInv /\ OInv /\ [Next]_vars => [EachIsOneBranch]_vars
  BY NextIsOnce DEF EachIsOneBranch, OInv, RequestsAreNew
<1> QED
  BY <1>1, AlwaysOnce, PTL DEF Spec
=============================================================================
