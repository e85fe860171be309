------------------------------ MODULE BatchLane ------------------------------
(***************************************************************************)
(* The batch lane of the llm provider (inseam-plugins/src/llm_endpoint/    *)
(* batch.rs): calls are parked; a leader, started by the first call on an  *)
(* idle lane, groups them into jobs; each job runs in a task of its own    *)
(* and answers every caller by the id its request was sent under.  Callers *)
(* may give up at any time, jobs may fail, and the endpoint may leave out, *)
(* repeat, fail or reorder items.                                          *)
(***************************************************************************)
EXTENDS Integers, Sequences, FiniteSets, FiniteSetsExt

CONSTANTS Calls,        \* the calls ever made
          Models,       \* the models they are for
          ModelOf,      \* the model of each call
          BytesOf,      \* the size of each call
          RequestsMax,  \* requests_max
          BytesMax,     \* bytes_max
          JobsMax,      \* jobs_in_flight_max
          QueueMax,     \* queue_max
          LeadTicksMax, \* LEAD_TICKS_MAX
          None

ASSUME BatchLaneAssumption ==
    /\ ModelOf \in [Calls -> Models]
    /\ BytesOf \in [Calls -> Nat]
    /\ RequestsMax \in Nat \ {0} /\ BytesMax \in Nat \ {0} /\ JobsMax \in Nat \ {0}
    /\ QueueMax \in Nat /\ QueueMax >= RequestsMax
    /\ LeadTicksMax \in Nat \ {0}
    /\ None \notin Calls

VARIABLES call,     \* how each call stands with its caller, whose answer it got
          pending,  \* the parked calls
          oldest,   \* oldest_arrival is set
          leading,  \* what the lock says of the leader
          leader,   \* the leader tasks there are
          job       \* the job tasks, one per permit

vars == <<call, pending, oldest, leading, leader, job>>

Jobs    == 1..JobsMax
Leaders == 1..2

NoLeader == [phase |-> "none", ticks |-> 0, taken |-> <<>>]

Elements(s) == {s[i] : i \in 1..Len(s)}

Waiting == {c \in Calls : call[c].status = "waiting"}

Settled(status, of) == [status |-> status, of |-> of]

\* Sending to a caller that gave up does nothing.
Answered(cs, answer(_)) ==
    [c \in Calls |-> IF c \in cs \cap Waiting THEN answer(c) ELSE call[c]]

Failed(c) == Settled("failed", None)

-----------------------------------------------------------------------------
(* Callers: submit, and the future dropped *)

HasRoom == Len(pending) < QueueMax

Submit(c) ==
    /\ call[c].status = "unmade"
    /\ IF HasRoom
       THEN /\ call' = [call EXCEPT ![c] = Settled("waiting", None)]
            /\ pending' = Append(pending, c)
            /\ oldest' = TRUE
            /\ leading' = TRUE
            /\ IF leading THEN UNCHANGED leader
               ELSE \E l \in Leaders :
                      /\ leader[l] = NoLeader
                      /\ leader' = [leader EXCEPT ![l].phase = "ticking"]
       ELSE /\ call' = [call EXCEPT ![c] = Settled("refused", None)]
            /\ UNCHANGED <<pending, oldest, leading, leader>>
    /\ UNCHANGED job

\* The caller is cancelled; its call stays where it is.
GiveUp(c) ==
    /\ call[c].status = "waiting"
    /\ call' = [call EXCEPT ![c] = Settled("given up", None)]
    /\ UNCHANGED <<pending, oldest, leading, leader, job>>

-----------------------------------------------------------------------------
(* The leader: lead, tick, take_job, fail_pending *)

BytesOfFirst(n) == MapThenSumSet(LAMBDA c : BytesOf[c], Elements(SubSeq(pending, 1, n)))

Full == \/ Len(pending) >= RequestsMax
        \/ BytesOfFirst(Len(pending)) >= BytesMax

\* The longest prefix for one model within both caps; one call at least.
JobLength ==
    CHOOSE n \in 1..Len(pending) :
        LET Fits(k) == /\ k <= RequestsMax
                       /\ \A i \in 1..k : ModelOf[pending[i]] = ModelOf[pending[1]]
                       /\ k = 1 \/ BytesOfFirst(k) <= BytesMax
        IN  Fits(n) /\ \A k \in n + 1 .. Len(pending) : ~Fits(k)

Ticking(l) == leader[l].phase = "ticking" /\ leader[l].ticks < LeadTicksMax

TickRetires(l) ==
    /\ Ticking(l)
    /\ ~oldest
    /\ leading' = FALSE
    /\ leader' = [leader EXCEPT ![l] = NoLeader]
    /\ UNCHANGED <<call, pending, oldest, job>>

\* Not full, and neither quiet nor old.
TickWaits(l) ==
    /\ Ticking(l)
    /\ oldest /\ ~Full
    /\ leader' = [leader EXCEPT ![l].ticks = @ + 1]
    /\ UNCHANGED <<call, pending, oldest, leading, job>>

\* WRONG: the call after the job is dropped with it.
LeftBehindOne(n) == SubSeq(pending, n + 2, Len(pending))

LeftBehind(n) == SubSeq(pending, n + 1, Len(pending))

\* Full, quiet or old: the latter two may be the case at any tick.
TickTakes(l) ==
    /\ Ticking(l)
    /\ oldest
    /\ LET n == JobLength IN
       /\ pending' = LeftBehind(n)
       /\ leader' = [leader EXCEPT ![l] = [phase |-> "permit", ticks |-> @.ticks + 1,
                                           taken |-> SubSeq(pending, 1, n)]]
       /\ oldest' = (LeftBehind(n) # <<>>)
    /\ UNCHANGED <<call, leading, job>>

GetPermit(l) ==
    /\ leader[l].phase = "permit"
    /\ \E j \in Jobs :
          /\ job[j] = <<>>
          /\ job' = [job EXCEPT ![j] = leader[l].taken]
    /\ leader' = [leader EXCEPT ![l].phase = "ticking", ![l].taken = <<>>]
    /\ UNCHANGED <<call, pending, oldest, leading>>

AtTickLimit(l) == leader[l].phase = "ticking" /\ leader[l].ticks = LeadTicksMax

\* WRONG: a leader that gives up answers, but still counts as leading.
FailPendingLeading(l) ==
    /\ AtTickLimit(l)
    /\ call' = Answered(Elements(pending), Failed)
    /\ pending' = <<>>
    /\ oldest' = FALSE
    /\ leader' = [leader EXCEPT ![l] = NoLeader]
    /\ UNCHANGED <<leading, job>>

\* WRONG: a leader that gives up leaves the parked calls to the next one.
FailPendingLater(l) ==
    /\ AtTickLimit(l)
    /\ leading' = FALSE
    /\ leader' = [leader EXCEPT ![l] = NoLeader]
    /\ UNCHANGED <<call, pending, oldest, job>>

FailPending(l) ==
    /\ AtTickLimit(l)
    /\ call' = Answered(Elements(pending), Failed)
    /\ pending' = <<>>
    /\ oldest' = FALSE
    /\ leading' = FALSE
    /\ leader' = [leader EXCEPT ![l] = NoLeader]
    /\ UNCHANGED job

-----------------------------------------------------------------------------
(* A job: run_job, results_in_request_order, deliver *)

\* Creating it fails, polling does, the endpoint says so, or it exceeds its
\* polls.
JobFails(j) ==
    /\ job[j] # <<>>
    /\ call' = Answered(Elements(job[j]), Failed)
    /\ job' = [job EXCEPT ![j] = <<>>]
    /\ UNCHANGED <<pending, oldest, leading, leader>>

\* What the endpoint may return for a job: items under the ids of the job, or
\* under another, in any order.  Bound: as many items as there are requests;
\* one left out is one under the other id.
Returned(n) == [1..n -> [id : 1..n + 1, ok : BOOLEAN]]

\* WRONG: results are taken in the order they come in.
ResultByPosition(results, cs, i) ==
    IF i <= Len(results) /\ results[i].ok /\ results[i].id <= Len(cs)
    THEN Settled("answered", cs[results[i].id]) ELSE Failed(cs[i])

\* A repeated, missing or failed item is an error for its caller alone.
ResultInRequestOrder(results, cs, i) ==
    LET mine == {k \in 1..Len(results) : results[k].id = i} IN
    IF Cardinality(mine) = 1 /\ \A k \in mine : results[k].ok
    THEN Settled("answered", cs[i]) ELSE Failed(cs[i])

Position(cs, c) == CHOOSE i \in 1..Len(cs) : cs[i] = c

Deliver(j, results) ==
    LET cs        == job[j]
        Answer(c) == ResultInRequestOrder(results, cs, Position(cs, c))
    IN
    /\ call' = Answered(Elements(cs), Answer)
    /\ job' = [job EXCEPT ![j] = <<>>]
    /\ UNCHANGED <<pending, oldest, leading, leader>>

JobCompletes(j) == job[j] # <<>> /\ \E results \in Returned(Len(job[j])) : Deliver(j, results)

-----------------------------------------------------------------------------
Init ==
    /\ call    = [c \in Calls |-> Settled("unmade", None)]
    /\ pending = <<>>
    /\ oldest  = FALSE
    /\ leading = FALSE
    /\ leader  = [l \in Leaders |-> NoLeader]
    /\ job     = [j \in Jobs |-> <<>>]

Lead(l) == TickRetires(l) \/ TickWaits(l) \/ TickTakes(l) \/ GetPermit(l) \/ FailPending(l)

RunJob(j) == JobFails(j) \/ JobCompletes(j)

Next == \/ \E c \in Calls : Submit(c) \/ GiveUp(c)
        \/ \E l \in Leaders : Lead(l)
        \/ \E j \in Jobs : RunJob(j)

Spec == Init /\ [][Next]_vars

\* Tasks run: a leader ticks, and a job ends, since its polls are bounded.
FairSpec ==
    /\ Spec
    /\ \A l \in Leaders : WF_vars(Lead(l))
    /\ \A j \in Jobs : WF_vars(RunJob(j))

-----------------------------------------------------------------------------
(* Correctness *)

InQueue(c)  == {i \in 1..Len(pending) : pending[i] = c}
InHand(c)   == {l \in Leaders : c \in Elements(leader[l].taken)}
InFlight(c) == {j \in Jobs : c \in Elements(job[j])}

Carriers(c) == {<<"queue", i>> : i \in InQueue(c)} \cup {<<"leader", l>> : l \in InHand(c)}
                 \cup {<<"job", j>> : j \in InFlight(c)}

\* Every call that waits is in one place that will answer it, in the queue,
\* in the leader's hand or in a job, and an answered one is in none.
NoCallIsLost ==
    \A c \in Calls :
        /\ c \in Waiting => Cardinality(Carriers(c)) = 1
        /\ call[c].status \in {"unmade", "refused", "answered", "failed"} => Carriers(c) = {}

\* The lock's flag says exactly whether there is a leader, there are never
\* two, and what is parked has one: the wake-up of a call cannot be lost
\* between a leader's last look at the queue and its retirement.
ParkedIsLed ==
    /\ Cardinality({l \in Leaders : leader[l] # NoLeader}) = IF leading THEN 1 ELSE 0
    /\ pending # <<>> => leading
    /\ oldest <=> pending # <<>>

\* Nobody is handed the answer to another's request, in whatever order items
\* come back and whoever of the job gave up.
AnswersAreOwn == \A c \in Calls : call[c].status = "answered" => call[c].of = c

\* Every parked call is answered, unless its caller gives up first.
EveryCallIsAnswered == \A c \in Calls : call[c].status = "waiting" ~> call[c].status # "waiting"
-----------------------------------------------------------------------------
(* The inductive invariant *)

Statuses == {"unmade", "waiting", "refused", "given up", "answered", "failed"}

TypeOK ==
    /\ call \in [Calls -> [status : Statuses, of : Calls \cup {None}]]
    /\ pending \in Seq(Calls)
    /\ oldest \in BOOLEAN /\ leading \in BOOLEAN
    /\ leader \in [Leaders -> [phase : {"none", "ticking", "permit"}, ticks : 0..LeadTicksMax,
                               taken : Seq(Calls)]]
    /\ job \in [Jobs -> Seq(Calls)]

\* A leader holds calls only while it waits for a permit, and none when it is
\* not there.
HandsAreOrderly ==
    \A l \in Leaders : /\ leader[l].phase = "none" => leader[l] = NoLeader
                       /\ leader[l].phase = "ticking" => leader[l].taken = <<>>

\* The leader is the one the flag speaks of.
LedByOne ==
    IF leading THEN \E l \in Leaders : {k \in Leaders : leader[k] # NoLeader} = {l}
    ELSE {k \in Leaders : leader[k] # NoLeader} = {}

Uncarried(c) == InQueue(c) = {} /\ InHand(c) = {} /\ InFlight(c) = {}

CarriedOnce(c) ==
    \/ (\E i \in InQueue(c) : InQueue(c) = {i}) /\ InHand(c) = {} /\ InFlight(c) = {}
    \/ InQueue(c) = {} /\ (\E l \in InHand(c) : InHand(c) = {l}) /\ InFlight(c) = {}
    \/ InQueue(c) = {} /\ InHand(c) = {} /\ (\E j \in InFlight(c) : InFlight(c) = {j})

\* Where each call is, by how it stands with its caller; one given up may be
\* anywhere.
EachIsCarried ==
    \A c \in Calls :
        /\ c \in Waiting => CarriedOnce(c)
        /\ call[c].status \in {"unmade", "refused", "answered", "failed"} => Uncarried(c)

LaneInv ==
    /\ TypeOK
    /\ HandsAreOrderly
    /\ LedByOne
    /\ pending # <<>> => leading
    /\ oldest <=> pending # <<>>
    /\ EachIsCarried
    /\ AnswersAreOwn
=============================================================================
