--------------------------- MODULE BatchLane_proofs ---------------------------
(***************************************************************************)
(* The batch lane: no call is lost, what is parked has its leader, and     *)
(* nobody is handed another's answer; for any calls, models, sizes, caps   *)
(* and permits, any answer of the endpoint, and callers that give up at    *)
(* any step.                                                               *)
(***************************************************************************)
EXTENDS BatchLane, SequenceTheorems, FiniteSetTheorems, WellFoundedInduction, TLAPS

USE BatchLaneAssumption

-----------------------------------------------------------------------------
(* Least numbers and lengths *)

\* A set of natural numbers that is not empty has a least member.  The
\* library's least-number principle takes an operator, which the provers do
\* not instantiate; its theorem on well-founded relations takes a set.
LEMMA LeastNatural ==
  ASSUME NEW T \in SUBSET Nat, T # {}
  PROVE  \E m \in T : \A k \in T : m <= k
<1> DEFINE R == {p \in Nat \X Nat : p[1] < p[2]}
<1>1. IsWellFoundedOn(OpToRel(<, Nat), Nat)
  BY NatLessThanWellFounded, Zenon
<1>2. OpToRel(<, Nat) = R
  BY DEF OpToRel
<1>3. IsWellFoundedOn(R, Nat)
  BY <1>1, <1>2
<1>4. PICK m \in T : \A k \in T : ~ (<<k, m>> \in R)
  <2>1. \A U : U \subseteq Nat /\ U # {} => \E x \in U : \A y \in U : ~ (<<y, x>> \in R)
    BY <1>3, WFMin
  <2> QED
    BY <2>1
<1>5. ASSUME NEW k \in T PROVE m <= k
  <2>1. m \in Nat /\ k \in Nat
    OBVIOUS
  <2>2. <<k, m>> \in Nat \X Nat
    BY <2>1
  <2>3. ~ (<<k, m>>[1] < <<k, m>>[2])
    BY <1>4, <2>2
  <2> QED
    BY <2>1, <2>3
<1> QED
  BY <1>5

\* The greatest of the numbers up to a bound.
LEMMA GreatestUpTo ==
  ASSUME NEW N \in Nat, NEW T \in SUBSET (1..N), T # {}
  PROVE  \E n \in T : \A k \in n + 1 .. N : k \notin T
<1> DEFINE U == {N - k : k \in T}
<1>1. U \in SUBSET Nat /\ U # {}
  <2>1. \A k \in T : N - k \in Nat
    OBVIOUS
  <2> QED
    BY <2>1, ZenonT(60)
<1> HIDE DEF U
<1>2. PICK m \in U : \A k \in U : m <= k
  BY <1>1, LeastNatural
<1>3. PICK n \in T : m = N - n
  BY <1>2 DEF U
<1>4. \A k \in T : N - n <= N - k
  BY <1>2, <1>3 DEF U
<1>5. \A k \in T : k <= n
  BY <1>4
<1> QED
  BY <1>5

\* take_job takes at least one call, and no more than there are.
LEMMA JobsHaveCalls ==
  ASSUME TypeOK, pending # <<>>
  PROVE  JobLength \in 1..Len(pending)
<1> DEFINE Fits(k) == /\ k <= RequestsMax
                      /\ \A i \in 1..k : ModelOf[pending[i]] = ModelOf[pending[1]]
                      /\ k = 1 \/ BytesOfFirst(k) <= BytesMax
           T == {k \in 1..Len(pending) : Fits(k)}
<1>1. Len(pending) \in Nat \ {0}
  BY EmptySeq DEF TypeOK
<1>2. 1 \in T
  BY <1>1
<1>3. PICK n \in T : \A k \in n + 1 .. Len(pending) : k \notin T
  <2> HIDE DEF T
  <2>1. T \in SUBSET (1..Len(pending)) /\ T # {}
    BY <1>2 DEF T
  <2> QED
    BY <1>1, <2>1, GreatestUpTo
<1> HIDE DEF Fits
<1>4. n \in 1..Len(pending) /\ Fits(n) /\ \A k \in n + 1 .. Len(pending) : ~ Fits(k)
  BY <1>1, <1>3
<1>5. JobLength = CHOOSE k \in 1..Len(pending) :
                    Fits(k) /\ \A i \in k + 1 .. Len(pending) : ~ Fits(i)
  BY DEF JobLength, Fits
<1> QED
  BY <1>4, <1>5

-----------------------------------------------------------------------------
(* The queue: what a call added, and a job taken, leave of it *)

\* A call is parked behind those that are.
LEMMA ParkedBehind ==
  ASSUME TypeOK, NEW c \in Calls, pending' = Append(pending, c)
  PROVE  /\ pending' \in Seq(Calls) /\ pending' # <<>>
         /\ InQueue(c)' = InQueue(c) \cup {Len(pending) + 1}
         /\ \A d \in Calls \ {c} : InQueue(d)' = InQueue(d)
<1>1. pending \in Seq(Calls) /\ Len(pending) \in Nat
  BY LenProperties DEF TypeOK
<1>2. /\ Append(pending, c) \in Seq(Calls) /\ Append(pending, c) # <<>>
      /\ Len(Append(pending, c)) = Len(pending) + 1
      /\ \A i \in 1..Len(pending) : Append(pending, c)[i] = pending[i]
      /\ Append(pending, c)[Len(pending) + 1] = c
  BY <1>1, AppendProperties
<1> QED
  BY <1>1, <1>2 DEF InQueue

\* A job is cut off the front of the queue: each call of it is in the job and
\* no longer in the queue, and each call behind it is where it was, further up.
LEMMA CutOffTheFront ==
  ASSUME TypeOK, NEW n \in 1..Len(pending)
  PROVE  LET job0 == SubSeq(pending, 1, n) IN
         /\ job0 \in Seq(Calls) /\ LeftBehind(n) \in Seq(Calls)
         /\ \A c \in Calls :
              /\ c \in Elements(job0) <=> \E i \in InQueue(c) : i <= n
              /\ {i \in 1..Len(LeftBehind(n)) : LeftBehind(n)[i] = c}
                   = {i - n : i \in {k \in InQueue(c) : k > n}}
<1> DEFINE N == Len(pending)
           job0 == SubSeq(pending, 1, n)
           rest == SubSeq(pending, n + 1, N)
<1>1. N \in Nat /\ n \in Nat /\ n <= N /\ \A i \in 1..N : pending[i] \in Calls
  BY LenProperties, ElementOfSeq DEF TypeOK
<1>2. /\ job0 \in Seq(Calls) /\ Len(job0) = n
      /\ \A i \in 1..n : job0[i] = pending[i]
  <2>1. \A i \in 1..n : pending[i] \in Calls
    BY <1>1
  <2>2. /\ job0 \in Seq(Calls) /\ Len(job0) = IF 1 <= n THEN n - 1 + 1 ELSE 0
        /\ \A i \in 1 .. n - 1 + 1 : job0[i] = pending[1 + i - 1]
    BY <1>1, <2>1, SubSeqProperties
  <2> QED
    BY <1>1, <2>2
<1>3. /\ rest \in Seq(Calls) /\ Len(rest) = N - n
      /\ \A i \in 1 .. N - n : rest[i] = pending[n + i]
  <2>1. \A i \in n + 1 .. N : pending[i] \in Calls
    BY <1>1
  <2>2. /\ rest \in Seq(Calls) /\ Len(rest) = IF n + 1 <= N THEN N - (n + 1) + 1 ELSE 0
        /\ \A i \in 1 .. N - (n + 1) + 1 : rest[i] = pending[(n + 1) + i - 1]
    BY <1>1, <2>1, SubSeqProperties
  <2> QED
    BY <1>1, <2>2
<1>4. LeftBehind(n) = rest
  BY DEF LeftBehind
<1> HIDE DEF job0, rest
<1>5. ASSUME NEW c \in Calls
      PROVE  /\ c \in Elements(job0) <=> \E i \in InQueue(c) : i <= n
             /\ {i \in 1..Len(rest) : rest[i] = c} = {i - n : i \in {k \in InQueue(c) : k > n}}
  <2>1. c \in Elements(job0) <=> \E i \in InQueue(c) : i <= n
    <3>1. c \in Elements(job0) <=> \E i \in 1..n : job0[i] = c
      BY <1>2, Zenon DEF Elements
    <3>2. (\E i \in 1..n : job0[i] = c) <=> \E i \in 1..n : pending[i] = c
      BY <1>2
    <3>3. (\E i \in 1..n : pending[i] = c) <=> \E i \in InQueue(c) : i <= n
      BY <1>1 DEF InQueue
    <3> QED
      BY <3>1, <3>2, <3>3
  <2>2. ASSUME NEW i \in 1..Len(rest), rest[i] = c
        PROVE  i \in {m - n : m \in {k \in InQueue(c) : k > n}}
    <3>1. n + i \in 1..N /\ pending[n + i] = c /\ n + i > n /\ i = (n + i) - n
      BY <1>1, <1>3, <2>2
    <3> QED
      BY <3>1, Zenon DEF InQueue
  <2>3. ASSUME NEW m \in InQueue(c), m > n
        PROVE  m - n \in 1..Len(rest) /\ rest[m - n] = c
    BY <1>1, <1>3, <2>3 DEF InQueue
  <2>4. \A i : i \in {m - n : m \in {k \in InQueue(c) : k > n}}
                 <=> \E m \in InQueue(c) : m > n /\ i = m - n
    OBVIOUS
  <2> QED
    BY <2>1, <2>2, <2>3, <2>4
<1> QED
  BY <1>2, <1>3, <1>4, <1>5 DEF job0

-----------------------------------------------------------------------------
(* Where a call is carried, from one state to the next *)

\* A call stays with its carrier when the three sets stay.
LEMMA SameCarriers ==
  ASSUME NEW c \in Calls,
         InQueue(c)' = InQueue(c), InHand(c)' = InHand(c), InFlight(c)' = InFlight(c)
  PROVE  /\ CarriedOnce(c) => CarriedOnce(c)'
         /\ Uncarried(c) => Uncarried(c)'
  BY DEF CarriedOnce, Uncarried

\* When calls of cs are settled and nothing else changes about any call, and
\* the carriers let go of those of cs, each call is carried as it should be.
LEMMA SettledAndLetGo ==
  ASSUME EachIsCarried, NEW cs,
         \A c \in Calls : IF c \in cs \cap Waiting
                          THEN call'[c].status \in {"answered", "failed"}
                          ELSE call'[c] = call[c],
         \A c \in Calls : c \in cs /\ CarriedOnce(c) => Uncarried(c)',
         \A c \in Calls : c \notin cs /\ CarriedOnce(c) => CarriedOnce(c)',
         \A c \in Calls : Uncarried(c) => Uncarried(c)'
  PROVE  EachIsCarried'
<1>1. ASSUME NEW c \in Calls
      PROVE  /\ c \in Waiting' => CarriedOnce(c)'
             /\ call'[c].status \in {"unmade", "refused", "answered", "failed"} => Uncarried(c)'
  BY DEF EachIsCarried, Waiting
<1> QED
  BY <1>1 DEF EachIsCarried

-----------------------------------------------------------------------------
(* Each step keeps the invariant *)

\* There is a leader as long as the tasks that lead are the same.
LEMMA SameLeaders ==
  ASSUME LedByOne, leading' = leading,
         \A l \in Leaders : leader'[l] # NoLeader <=> leader[l] # NoLeader
  PROVE  LedByOne'
  BY DEF LedByOne

\* When the leader goes, and the flag with it, there is none.
LEMMA LeaderGoes ==
  ASSUME TypeOK, LedByOne, NEW l \in Leaders, leader[l].phase # "none",
         leading' = FALSE, leader' = [leader EXCEPT ![l] = NoLeader]
  PROVE  leading /\ LedByOne'
<1>1. leader[l] # NoLeader
  BY DEF NoLeader
<1>2. leading /\ {k \in Leaders : leader[k] # NoLeader} = {l}
  BY <1>1 DEF LedByOne
<1>3. \A k \in Leaders : leader'[k] = NoLeader
  BY <1>2 DEF TypeOK
<1> QED
  BY <1>2, <1>3 DEF LedByOne

\* What a leader may be.
LeaderStates == [phase : {"none", "ticking", "permit"}, ticks : 0..LeadTicksMax,
                 taken : Seq(Calls)]

\* No leader is one of them, and holds nothing.
LEMMA NoLeaderHoldsNothing ==
  /\ NoLeader \in LeaderStates /\ NoLeader.taken = <<>> /\ NoLeader.phase = "none"
  /\ Elements(NoLeader.taken) = {} /\ Elements(<<>>) = {} /\ <<>> \in Seq(Calls)
<1>1. <<>> \in Seq(Calls) /\ Len(<<>>) = 0 /\ 0 \in 0..LeadTicksMax
  BY EmptySeq DEF BatchLaneAssumption
<1>2. Elements(<<>>) = {}
  BY <1>1 DEF Elements
<1> QED
  BY <1>1, <1>2 DEF NoLeader, LeaderStates

\* submit: the call is parked and led, or refused; it was nowhere before.
LEMMA SubmitKeeps ==
  ASSUME LaneInv, NEW c \in Calls, Submit(c)
  PROVE  LaneInv'
<1>0. /\ TypeOK /\ HandsAreOrderly /\ LedByOne /\ EachIsCarried /\ AnswersAreOwn
      /\ pending # <<>> => leading
      /\ oldest <=> pending # <<>>
  BY DEF LaneInv
<1>1. Uncarried(c)
  BY <1>0 DEF Submit, EachIsCarried
<1>2. CASE HasRoom
  <2>1. /\ call' = [call EXCEPT ![c] = Settled("waiting", None)]
        /\ pending' = Append(pending, c)
        /\ oldest' = TRUE /\ leading' = TRUE /\ job' = job
    BY <1>2 DEF Submit
  <2>2. /\ pending' \in Seq(Calls) /\ pending' # <<>>
        /\ InQueue(c)' = InQueue(c) \cup {Len(pending) + 1}
        /\ \A d \in Calls \ {c} : InQueue(d)' = InQueue(d)
    BY <1>0, <2>1, ParkedBehind
  <2>3. /\ leader' \in [Leaders -> [phase : {"none", "ticking", "permit"},
                                    ticks : 0..LeadTicksMax, taken : Seq(Calls)]]
        /\ \A l \in Leaders : leader'[l].taken = leader[l].taken
        /\ HandsAreOrderly' /\ LedByOne'
    <3>1. CASE leading
      <4>1. leader' = leader
        BY <1>2, <3>1 DEF Submit
      <4> QED
        BY <1>0, <2>1, <3>1, <4>1 DEF TypeOK, HandsAreOrderly, LedByOne
    <3>2. CASE ~leading
      <4>1. PICK l \in Leaders : /\ leader[l] = NoLeader
                                 /\ leader' = [leader EXCEPT ![l].phase = "ticking"]
        BY <1>2, <3>2 DEF Submit
      <4>2. \A k \in Leaders : leader[k] = NoLeader
        BY <1>0, <3>2 DEF LedByOne
      <4>3. leader' = [leader EXCEPT ![l] = [phase |-> "ticking", ticks |-> 0, taken |-> <<>>]]
        <5>1. [leader[l] EXCEPT !.phase = "ticking"]
                = [phase |-> "ticking", ticks |-> 0, taken |-> <<>>]
          BY <4>1 DEF NoLeader
        <5> QED
          BY <4>1, <5>1
      <4>4. \A k \in Leaders : leader'[k] # NoLeader <=> k = l
        BY <1>0, <4>2, <4>3 DEF TypeOK, NoLeader
      <4>5. LedByOne'
        BY <2>1, <4>4 DEF LedByOne
      <4>6. <<>> \in Seq(Calls) /\ 0 \in 0..LeadTicksMax
        BY EmptySeq DEF BatchLaneAssumption
      <4>7. [phase |-> "ticking", ticks |-> 0, taken |-> <<>>]
              \in [phase : {"none", "ticking", "permit"}, ticks : 0..LeadTicksMax,
                  taken : Seq(Calls)]
        BY <4>6
      <4>8. HandsAreOrderly'
        BY <1>0, <4>3 DEF TypeOK, HandsAreOrderly
      <4>9. \A k \in Leaders : leader'[k].taken = leader[k].taken
        BY <1>0, <4>1, <4>3 DEF TypeOK, NoLeader
      <4> QED
        BY <1>0, <4>3, <4>5, <4>7, <4>8, <4>9 DEF TypeOK
    <3> QED
      BY <3>1, <3>2
  <2>4. \A d \in Calls : InHand(d)' = InHand(d) /\ InFlight(d)' = InFlight(d)
    BY <2>1, <2>3 DEF InHand, InFlight
  <2>5. EachIsCarried'
    <3>1. CarriedOnce(c)'
      BY <1>1, <2>2, <2>4 DEF Uncarried, CarriedOnce
    <3>2. ASSUME NEW d \in Calls, d # c
          PROVE  /\ d \in Waiting' => CarriedOnce(d)'
                 /\ call'[d].status \in {"unmade", "refused", "answered", "failed"}
                      => Uncarried(d)'
      <4>1. call'[d] = call[d]
        BY <1>0, <2>1, <3>2 DEF TypeOK
      <4>2. CarriedOnce(d) => CarriedOnce(d)'
        BY <2>2, <2>4, <3>2, SameCarriers
      <4>3. Uncarried(d) => Uncarried(d)'
        BY <2>2, <2>4, <3>2, SameCarriers
      <4> QED
        BY <1>0, <4>1, <4>2, <4>3 DEF EachIsCarried, Waiting
    <3>3. call'[c].status = "waiting"
      BY <1>0, <2>1 DEF TypeOK, Settled
    <3> QED
      BY <3>1, <3>2, <3>3 DEF EachIsCarried
  <2>6. TypeOK'
    BY <1>0, <2>1, <2>2, <2>3 DEF TypeOK, Settled, Statuses
  <2>7. AnswersAreOwn'
    BY <1>0, <2>1 DEF AnswersAreOwn, TypeOK, Settled
  <2> QED
    BY <2>1, <2>2, <2>3, <2>5, <2>6, <2>7 DEF LaneInv
<1>3. CASE ~HasRoom
  <2>1. /\ call' = [call EXCEPT ![c] = Settled("refused", None)]
        /\ UNCHANGED <<pending, oldest, leading, leader, job>>
    BY <1>3 DEF Submit
  <2>2. TypeOK'
    BY <1>0, <2>1 DEF TypeOK, Settled, Statuses
  <2>3. HandsAreOrderly' /\ LedByOne'
    BY <1>0, <2>1 DEF HandsAreOrderly, LedByOne
  <2>4. \A d \in Calls : call'[d] = IF d = c THEN Settled("refused", None) ELSE call[d]
    BY <1>0, <2>1 DEF TypeOK
  <2>5. \A d \in Calls : (CarriedOnce(d) => CarriedOnce(d)') /\ (Uncarried(d) => Uncarried(d)')
    BY <2>1, SameCarriers DEF InQueue, InHand, InFlight
  <2>6. EachIsCarried'
    BY <1>0, <1>1, <2>4, <2>5 DEF EachIsCarried, Waiting, Settled
  <2>7. AnswersAreOwn'
    BY <1>0, <2>4 DEF AnswersAreOwn, Settled
  <2> QED
    BY <1>0, <2>1, <2>2, <2>3, <2>6, <2>7 DEF LaneInv
<1> QED
  BY <1>2, <1>3

\* A caller gives up: its call stays where it is.
LEMMA GiveUpKeeps ==
  ASSUME LaneInv, NEW c \in Calls, GiveUp(c)
  PROVE  LaneInv'
<1>1. /\ call'[c].status = "given up"
      /\ \A d \in Calls \ {c} : call'[d] = call[d]
      /\ TypeOK'
  BY DEF LaneInv, TypeOK, GiveUp, Settled, Statuses
<1>2. /\ UNCHANGED <<pending, oldest, leading, leader, job>>
      /\ HandsAreOrderly' /\ LedByOne'
  BY DEF LaneInv, GiveUp, HandsAreOrderly, LedByOne
<1>3. \A d \in Calls : (CarriedOnce(d) => CarriedOnce(d)') /\ (Uncarried(d) => Uncarried(d)')
  BY <1>2, SameCarriers DEF InQueue, InHand, InFlight
<1>4. EachIsCarried'
  <2>1. EachIsCarried
    BY DEF LaneInv
  <2>2. \A d \in Calls \ {c} :
           /\ d \in Waiting' => CarriedOnce(d)'
           /\ call'[d].status \in {"unmade", "refused", "answered", "failed"} => Uncarried(d)'
    BY <1>1, <1>3, <2>1 DEF EachIsCarried, Waiting
  <2> QED
    BY <1>1, <2>2 DEF EachIsCarried, Waiting
<1>5. AnswersAreOwn'
  <2>1. AnswersAreOwn
    BY DEF LaneInv
  <2> QED
    BY <1>1, <2>1 DEF AnswersAreOwn
<1> QED
  BY <1>1, <1>2, <1>4, <1>5 DEF LaneInv

\* A tick of the leader that retires: it leaves no parked call behind.
LEMMA TickRetiresKeeps ==
  ASSUME LaneInv, NEW l \in Leaders, TickRetires(l)
  PROVE  LaneInv'
<1>0. /\ TypeOK /\ HandsAreOrderly /\ LedByOne /\ EachIsCarried /\ AnswersAreOwn
      /\ pending = <<>> /\ ~oldest
  BY DEF LaneInv, TickRetires
<1>1. /\ leader[l].phase = "ticking" /\ leader[l].taken = <<>>
      /\ leader' = [leader EXCEPT ![l] = NoLeader] /\ leading' = FALSE
      /\ UNCHANGED <<call, pending, oldest, job>>
  BY <1>0 DEF TickRetires, Ticking, HandsAreOrderly
<1>2. LedByOne'
  BY <1>0, <1>1, LeaderGoes
<1>3. TypeOK' /\ HandsAreOrderly'
  BY <1>0, <1>1, NoLeaderHoldsNothing DEF TypeOK, HandsAreOrderly, LeaderStates
<1>4. \A k \in Leaders : leader'[k].taken = leader[k].taken
  BY <1>0, <1>1, NoLeaderHoldsNothing DEF TypeOK
<1>5. \A d \in Calls : (CarriedOnce(d) => CarriedOnce(d)') /\ (Uncarried(d) => Uncarried(d)')
  BY <1>1, <1>4, SameCarriers DEF InQueue, InHand, InFlight
<1>6. EachIsCarried' /\ AnswersAreOwn'
  BY <1>0, <1>1, <1>5 DEF EachIsCarried, Waiting, AnswersAreOwn
<1> QED
  BY <1>0, <1>1, <1>2, <1>3, <1>6 DEF LaneInv

\* A tick that leaves the queue to fill.
LEMMA TickWaitsKeeps ==
  ASSUME LaneInv, NEW l \in Leaders, TickWaits(l)
  PROVE  LaneInv'
<1>0. TypeOK /\ HandsAreOrderly /\ LedByOne /\ EachIsCarried /\ AnswersAreOwn
  BY DEF LaneInv
<1>1. /\ leader[l].phase = "ticking" /\ leader[l].ticks < LeadTicksMax
      /\ leader' = [leader EXCEPT ![l].ticks = @ + 1]
      /\ UNCHANGED <<call, pending, oldest, leading, job>>
  BY DEF TickWaits, Ticking
<1>2. leader \in [Leaders -> LeaderStates]
  BY <1>0 DEF TypeOK, LeaderStates
<1>3. /\ TypeOK' /\ HandsAreOrderly'
      /\ \A k \in Leaders : /\ leader'[k].taken = leader[k].taken
                            /\ leader'[k].phase = leader[k].phase
  <2>1. leader[l].ticks + 1 \in 0..LeadTicksMax
    BY <1>1, <1>2 DEF LeaderStates, BatchLaneAssumption
  <2>2. [leader[l] EXCEPT !.ticks = @ + 1] \in LeaderStates
    BY <1>2, <2>1 DEF LeaderStates
  <2>3. leader' \in [Leaders -> LeaderStates]
    BY <1>1, <1>2, <2>2
  <2>4. \A k \in Leaders : k # l => leader'[k] = leader[k]
    BY <1>1, <1>2
  <2>5. leader'[l].taken = leader[l].taken /\ leader'[l].phase = leader[l].phase
    BY <1>1, <1>2 DEF LeaderStates
  <2> QED
    BY <1>0, <1>1, <2>3, <2>4, <2>5 DEF TypeOK, HandsAreOrderly, LeaderStates
<1>4. LedByOne'
  <2>1. leader[l] # NoLeader /\ leader'[l] # NoLeader
    BY <1>1, <1>3 DEF NoLeader
  <2>2. \A k \in Leaders : leader'[k] # NoLeader <=> leader[k] # NoLeader
    BY <1>0, <1>1, <2>1 DEF TypeOK
  <2> QED
    BY <1>0, <1>1, <2>2, SameLeaders
<1>5. \A d \in Calls : (CarriedOnce(d) => CarriedOnce(d)') /\ (Uncarried(d) => Uncarried(d)')
  BY <1>1, <1>3, SameCarriers DEF InQueue, InHand, InFlight
<1>6. EachIsCarried' /\ AnswersAreOwn'
  BY <1>0, <1>1, <1>5 DEF EachIsCarried, Waiting, AnswersAreOwn
<1> QED
  BY <1>1, <1>3, <1>4, <1>6 DEF LaneInv

\* A tick that takes a job: its calls pass from the queue to the leader's hand,
\* which is empty until then.
LEMMA TickTakesKeeps ==
  ASSUME LaneInv, NEW l \in Leaders, TickTakes(l)
  PROVE  LaneInv'
<1> DEFINE n == JobLength
           job0 == SubSeq(pending, 1, n)
<1>0. /\ TypeOK /\ HandsAreOrderly /\ LedByOne /\ EachIsCarried /\ AnswersAreOwn
      /\ pending # <<>> /\ leading /\ oldest
  BY DEF LaneInv, TickTakes
<1>1. n \in 1..Len(pending)
  BY <1>0, JobsHaveCalls
<1>2. /\ job0 \in Seq(Calls) /\ LeftBehind(n) \in Seq(Calls)
      /\ \A c \in Calls :
           /\ c \in Elements(job0) <=> \E i \in InQueue(c) : i <= n
           /\ {i \in 1..Len(LeftBehind(n)) : LeftBehind(n)[i] = c}
                = {i - n : i \in {k \in InQueue(c) : k > n}}
  BY <1>0, <1>1, CutOffTheFront
<1>3. /\ leader[l].phase = "ticking" /\ leader[l].ticks < LeadTicksMax
      /\ pending' = LeftBehind(n)
      /\ leader' = [leader EXCEPT ![l] = [phase |-> "permit", ticks |-> @.ticks + 1,
                                          taken |-> job0]]
      /\ oldest' = (LeftBehind(n) # <<>>)
      /\ UNCHANGED <<call, leading, job>>
  BY DEF TickTakes, Ticking
<1> HIDE DEF n, job0
<1>4. leader \in [Leaders -> LeaderStates]
  BY <1>0 DEF TypeOK, LeaderStates
<1>5. /\ leader'[l].phase = "permit" /\ leader'[l].taken = job0
      /\ \A k \in Leaders \ {l} : leader'[k] = leader[k]
      /\ leader' \in [Leaders -> LeaderStates]
  <2>1. leader[l].ticks + 1 \in 0..LeadTicksMax
    BY <1>3, <1>4 DEF LeaderStates, BatchLaneAssumption
  <2>2. [phase |-> "permit", ticks |-> leader[l].ticks + 1, taken |-> job0] \in LeaderStates
    BY <1>2, <2>1 DEF LeaderStates
  <2> QED
    BY <1>3, <1>4, <2>2
<1>6. TypeOK' /\ HandsAreOrderly'
  BY <1>0, <1>2, <1>3, <1>5 DEF TypeOK, HandsAreOrderly, LeaderStates
<1>7. LedByOne'
  <2>1. leader[l] # NoLeader /\ leader'[l] # NoLeader
    BY <1>3, <1>5 DEF NoLeader
  <2> QED
    BY <1>0, <1>3, <1>5, <2>1, SameLeaders
<1>8. ASSUME NEW c \in Calls
      PROVE  (CarriedOnce(c) => CarriedOnce(c)') /\ (Uncarried(c) => Uncarried(c)')
  <2>1. l \notin InHand(c)
    BY <1>0, <1>3, NoLeaderHoldsNothing DEF InHand, HandsAreOrderly
  <2>2. InHand(c)' = InHand(c) \cup {k \in {l} : \E i \in InQueue(c) : i <= n}
    BY <1>2, <1>5, <2>1 DEF InHand
  <2>3. InQueue(c)' = {i - n : i \in {k \in InQueue(c) : k > n}}
    BY <1>2, <1>3 DEF InQueue
  <2>4. InFlight(c)' = InFlight(c)
    BY <1>3 DEF InFlight
  <2>5. CASE InQueue(c) = {}
    <3>1. InQueue(c)' = InQueue(c) /\ InHand(c)' = InHand(c)
      BY <2>2, <2>3, <2>5
    <3> QED
      BY <2>4, <3>1, SameCarriers
  <2>6. CASE InQueue(c) # {}
    <3>1. ~Uncarried(c)
      BY <2>6 DEF Uncarried
    <3>2. ASSUME CarriedOnce(c) PROVE CarriedOnce(c)'
      <4>1. PICK i \in InQueue(c) : InQueue(c) = {i} /\ InHand(c) = {} /\ InFlight(c) = {}
        BY <2>6, <3>2 DEF CarriedOnce
      <4>2. i \in Nat /\ n \in Nat
        BY <1>0, <1>1, <4>1, LenProperties DEF InQueue, TypeOK
      <4>3. CASE i <= n
        <5>1. InQueue(c)' = {} /\ InHand(c)' = {l}
          BY <2>2, <2>3, <4>1, <4>2, <4>3
        <5> QED
          BY <2>4, <4>1, <5>1 DEF CarriedOnce
      <4>4. CASE i > n
        <5>1. {k \in InQueue(c) : k > n} = {i}
          BY <4>1, <4>4
        <5>2. InQueue(c)' = {i - n} /\ InHand(c)' = {}
          BY <2>2, <2>3, <4>1, <4>2, <4>4, <5>1
        <5> QED
          BY <2>4, <4>1, <5>2 DEF CarriedOnce
      <4> QED
        BY <4>2, <4>3, <4>4
    <3> QED
      BY <3>1, <3>2
  <2> QED
    BY <2>5, <2>6
<1>9. EachIsCarried' /\ AnswersAreOwn'
  BY <1>0, <1>3, <1>8 DEF EachIsCarried, Waiting, AnswersAreOwn
<1> QED
  BY <1>0, <1>3, <1>6, <1>7, <1>9 DEF LaneInv

\* A permit: the job passes from the leader's hand to a task that has none.
LEMMA GetPermitKeeps ==
  ASSUME LaneInv, NEW l \in Leaders, GetPermit(l)
  PROVE  LaneInv'
<1>0. TypeOK /\ HandsAreOrderly /\ LedByOne /\ EachIsCarried /\ AnswersAreOwn
  BY DEF LaneInv
<1>1. PICK j \in Jobs : job[j] = <<>> /\ job' = [job EXCEPT ![j] = leader[l].taken]
  BY DEF GetPermit
<1>2. /\ leader[l].phase = "permit"
      /\ leader' = [leader EXCEPT ![l].phase = "ticking", ![l].taken = <<>>]
      /\ UNCHANGED <<call, pending, oldest, leading>>
  BY DEF GetPermit
<1>3. leader \in [Leaders -> LeaderStates] /\ job \in [Jobs -> Seq(Calls)]
  BY <1>0 DEF TypeOK, LeaderStates
<1>4. /\ leader'[l].phase = "ticking" /\ leader'[l].taken = <<>>
      /\ \A k \in Leaders \ {l} : leader'[k] = leader[k]
      /\ leader' \in [Leaders -> LeaderStates]
  <2>1. [leader[l] EXCEPT !.phase = "ticking", !.taken = <<>>] \in LeaderStates
    BY <1>3, NoLeaderHoldsNothing DEF LeaderStates
  <2>2. leader' = [leader EXCEPT ![l] = [leader[l] EXCEPT !.phase = "ticking", !.taken = <<>>]]
    BY <1>2
  <2>3. leader[l] \in LeaderStates
    BY <1>3
  <2> QED
    BY <1>3, <2>1, <2>2, <2>3 DEF LeaderStates
<1>5. /\ job'[j] = leader[l].taken /\ \A k \in Jobs \ {j} : job'[k] = job[k]
      /\ job' \in [Jobs -> Seq(Calls)]
  BY <1>1, <1>3 DEF LeaderStates
<1>6. TypeOK' /\ HandsAreOrderly'
  BY <1>0, <1>2, <1>4, <1>5 DEF TypeOK, HandsAreOrderly, LeaderStates
<1>7. LedByOne'
  <2>1. leader[l] # NoLeader /\ leader'[l] # NoLeader
    <3>1. leader[l].phase # NoLeader.phase /\ leader'[l].phase # NoLeader.phase
      BY <1>2, <1>4, NoLeaderHoldsNothing
    <3> QED
      BY <3>1
  <2> QED
    BY <1>0, <1>2, <1>4, <2>1, SameLeaders
<1>8. ASSUME NEW c \in Calls
      PROVE  (CarriedOnce(c) => CarriedOnce(c)') /\ (Uncarried(c) => Uncarried(c)')
  <2>1. InQueue(c)' = InQueue(c)
    BY <1>2 DEF InQueue
  <2>2. InHand(c)' = InHand(c) \ {l}
    BY <1>4, NoLeaderHoldsNothing DEF InHand
  <2>3. j \notin InFlight(c)
    BY <1>1, NoLeaderHoldsNothing DEF InFlight
  <2>4. InFlight(c)' = InFlight(c) \cup {k \in {j} : l \in InHand(c)}
    BY <1>5, <2>3 DEF InFlight, InHand
  <2>5. CASE l \notin InHand(c)
    BY <2>1, <2>2, <2>4, <2>5, SameCarriers
  <2>6. CASE l \in InHand(c)
    <3>1. ~Uncarried(c)
      BY <2>6 DEF Uncarried
    <3>2. ASSUME CarriedOnce(c) PROVE CarriedOnce(c)'
      <4>1. InQueue(c) = {} /\ InHand(c) = {l} /\ InFlight(c) = {}
        BY <2>6, <3>2 DEF CarriedOnce
      <4> QED
        BY <2>1, <2>2, <2>4, <4>1 DEF CarriedOnce
    <3> QED
      BY <3>1, <3>2
  <2> QED
    BY <2>5, <2>6
<1>9. EachIsCarried' /\ AnswersAreOwn'
  BY <1>0, <1>2, <1>8 DEF EachIsCarried, Waiting, AnswersAreOwn
<1> QED
  BY <1>2, <1>6, <1>7, <1>9 DEF LaneInv

\* The last tick: the leader fails what is parked, and what it fails is parked
\* no longer.
LEMMA FailPendingKeeps ==
  ASSUME LaneInv, NEW l \in Leaders, FailPending(l)
  PROVE  LaneInv'
<1>0. TypeOK /\ HandsAreOrderly /\ LedByOne /\ EachIsCarried /\ AnswersAreOwn
  BY DEF LaneInv
<1>1. /\ leader[l].phase = "ticking" /\ leader[l].taken = <<>>
      /\ pending' = <<>> /\ oldest' = FALSE /\ leading' = FALSE /\ job' = job
      /\ leader' = [leader EXCEPT ![l] = NoLeader]
  BY <1>0 DEF FailPending, AtTickLimit, HandsAreOrderly
<1>2. /\ call' \in [Calls -> [status : Statuses, of : Calls \cup {None}]]
      /\ \A c \in Calls : IF c \in Elements(pending) \cap Waiting
                          THEN call'[c].status = "failed" ELSE call'[c] = call[c]
  BY <1>0 DEF FailPending, Answered, Failed, Settled, TypeOK, Statuses
<1>3. LedByOne'
  BY <1>0, <1>1, LeaderGoes
<1>4. TypeOK' /\ HandsAreOrderly'
  BY <1>0, <1>1, <1>2, NoLeaderHoldsNothing DEF TypeOK, HandsAreOrderly, LeaderStates
<1>5. \A k \in Leaders : leader'[k].taken = leader[k].taken
  BY <1>0, <1>1, NoLeaderHoldsNothing DEF TypeOK
<1>6. \A c \in Calls : InQueue(c)' = {} /\ InHand(c)' = InHand(c) /\ InFlight(c)' = InFlight(c)
  <2>1. Len(pending') = 0
    BY <1>1, EmptySeq
  <2> QED
    BY <1>1, <1>5, <2>1 DEF InQueue, InHand, InFlight
<1>7. \A c \in Calls : c \in Elements(pending) <=> InQueue(c) # {}
  BY DEF Elements, InQueue
<1>8. EachIsCarried'
  <2>1. \A c \in Calls : c \in Elements(pending) /\ CarriedOnce(c) => Uncarried(c)'
    BY <1>6, <1>7 DEF CarriedOnce, Uncarried
  <2>2. \A c \in Calls : c \notin Elements(pending) /\ CarriedOnce(c) => CarriedOnce(c)'
    BY <1>6, <1>7, SameCarriers
  <2>3. \A c \in Calls : Uncarried(c) => Uncarried(c)'
    BY <1>6 DEF Uncarried
  <2> QED
    BY <1>0, <1>2, <2>1, <2>2, <2>3, SettledAndLetGo
<1>9. AnswersAreOwn'
  BY <1>0, <1>2 DEF AnswersAreOwn
<1> QED
  BY <1>1, <1>3, <1>4, <1>8, <1>9 DEF LaneInv

\* A job that ends lets go of its calls and of no other.
LEMMA JobEnds ==
  ASSUME TypeOK, EachIsCarried, NEW j \in Jobs, job' = [job EXCEPT ![j] = <<>>],
         UNCHANGED <<pending, leader>>,
         \A c \in Calls : IF c \in Elements(job[j]) \cap Waiting
                          THEN call'[c].status \in {"answered", "failed"}
                          ELSE call'[c] = call[c]
  PROVE  EachIsCarried' /\ job' \in [Jobs -> Seq(Calls)]
<1>1. /\ job \in [Jobs -> Seq(Calls)] /\ job' \in [Jobs -> Seq(Calls)]
      /\ \A k \in Jobs : job'[k] = IF k = j THEN <<>> ELSE job[k]
  BY NoLeaderHoldsNothing DEF TypeOK
<1>2. \A c \in Calls : /\ InQueue(c)' = InQueue(c) /\ InHand(c)' = InHand(c)
                       /\ InFlight(c)' = InFlight(c) \ {j}
  BY <1>1, NoLeaderHoldsNothing DEF InQueue, InHand, InFlight
<1>3. \A c \in Calls : c \in Elements(job[j]) <=> j \in InFlight(c)
  BY DEF InFlight
<1>4. \A c \in Calls : c \in Elements(job[j]) /\ CarriedOnce(c) => Uncarried(c)'
  BY <1>2, <1>3 DEF CarriedOnce, Uncarried
<1>5. \A c \in Calls : c \notin Elements(job[j]) /\ CarriedOnce(c) => CarriedOnce(c)'
  <2>1. ASSUME NEW c \in Calls, c \notin Elements(job[j])
        PROVE  InFlight(c)' = InFlight(c)
    BY <1>2, <1>3, <2>1
  <2> QED
    BY <1>2, <2>1, SameCarriers
<1>6. \A c \in Calls : Uncarried(c) => Uncarried(c)'
  BY <1>2 DEF Uncarried
<1> QED
  BY <1>1, <1>4, <1>5, <1>6, SettledAndLetGo

\* A job that fails.
LEMMA JobFailsKeeps ==
  ASSUME LaneInv, NEW j \in Jobs, JobFails(j)
  PROVE  LaneInv'
<1>0. TypeOK /\ HandsAreOrderly /\ LedByOne /\ EachIsCarried /\ AnswersAreOwn
  BY DEF LaneInv
<1>1. /\ call' \in [Calls -> [status : Statuses, of : Calls \cup {None}]]
      /\ \A c \in Calls : IF c \in Elements(job[j]) \cap Waiting
                          THEN call'[c].status = "failed" ELSE call'[c] = call[c]
  BY <1>0 DEF JobFails, Answered, Failed, Settled, TypeOK, Statuses
<1>2. job' = [job EXCEPT ![j] = <<>>] /\ UNCHANGED <<pending, oldest, leading, leader>>
  BY DEF JobFails
<1>3. EachIsCarried' /\ job' \in [Jobs -> Seq(Calls)]
  BY <1>0, <1>1, <1>2, JobEnds
<1>4. TypeOK' /\ HandsAreOrderly' /\ LedByOne' /\ AnswersAreOwn'
  BY <1>0, <1>1, <1>2, <1>3 DEF TypeOK, HandsAreOrderly, LedByOne, AnswersAreOwn
<1> QED
  BY <1>2, <1>3, <1>4 DEF LaneInv

\* A job that completes: whatever the endpoint returns, and in whatever order,
\* a caller gets what came back under the id its request was sent under.
LEMMA JobCompletesKeeps ==
  ASSUME LaneInv, NEW j \in Jobs, JobCompletes(j)
  PROVE  LaneInv'
<1> DEFINE cs == job[j]
<1>0. TypeOK /\ HandsAreOrderly /\ LedByOne /\ EachIsCarried /\ AnswersAreOwn
  BY DEF LaneInv
<1>1. PICK results \in Returned(Len(cs)) : Deliver(j, results)
  BY DEF JobCompletes
<1> DEFINE Answer(c) == ResultInRequestOrder(results, cs, Position(cs, c))
<1>2. /\ job' = [job EXCEPT ![j] = <<>>] /\ UNCHANGED <<pending, oldest, leading, leader>>
      /\ call' = [c \in Calls |-> IF c \in Elements(cs) \cap Waiting
                                  THEN Answer(c) ELSE call[c]]
  BY <1>1 DEF Deliver, Answered
<1>3. ASSUME NEW c \in Calls, c \in Elements(cs)
      PROVE  Answer(c) \in {Settled("answered", c), Settled("failed", None)}
  <2>1. \E i \in 1..Len(cs) : cs[i] = c
    BY <1>3 DEF Elements
  <2>2. cs[Position(cs, c)] = c
    BY <2>1 DEF Position
  <2> QED
    BY <2>2 DEF ResultInRequestOrder, Failed
<1> HIDE DEF Answer
<1>4. /\ call' \in [Calls -> [status : Statuses, of : Calls \cup {None}]]
      /\ \A c \in Calls :
           IF c \in Elements(cs) \cap Waiting
           THEN call'[c] \in {Settled("answered", c), Settled("failed", None)}
           ELSE call'[c] = call[c]
  <2>1. \A c \in Calls : {Settled("answered", c), Settled("failed", None)}
                          \subseteq [status : Statuses, of : Calls \cup {None}]
    BY DEF Settled, Statuses
  <2>2. call \in [Calls -> [status : Statuses, of : Calls \cup {None}]]
    BY <1>0 DEF TypeOK
  <2>3. \A c \in Calls : call'[c] = IF c \in Elements(cs) \cap Waiting
                                     THEN Answer(c) ELSE call[c]
    BY <1>2
  <2>4. \A c \in Calls : call'[c] \in [status : Statuses, of : Calls \cup {None}]
    BY <1>3, <2>1, <2>2, <2>3
  <2> QED
    BY <1>2, <1>3, <2>3, <2>4
<1>5. \A c \in Calls : IF c \in Elements(cs) \cap Waiting
                       THEN /\ call'[c].status \in {"answered", "failed"}
                            /\ call'[c].status = "answered" => call'[c].of = c
                       ELSE call'[c] = call[c]
  BY <1>4 DEF Settled
<1>6. EachIsCarried' /\ job' \in [Jobs -> Seq(Calls)]
  BY <1>0, <1>2, <1>5, JobEnds
<1>7. TypeOK' /\ HandsAreOrderly' /\ LedByOne' /\ AnswersAreOwn'
  BY <1>0, <1>2, <1>4, <1>5, <1>6 DEF TypeOK, HandsAreOrderly, LedByOne, AnswersAreOwn
<1> QED
  BY <1>2, <1>6, <1>7 DEF LaneInv

\* An idle lane is in order.
LEMMA InitLane ==
  Init => LaneInv
<1> SUFFICES ASSUME Init PROVE LaneInv
  OBVIOUS
<1>1. TypeOK
  BY NoLeaderHoldsNothing DEF Init, TypeOK, Settled, Statuses, LeaderStates
<1>2. Len(pending) = 0 /\ pending = <<>>
  BY EmptySeq DEF Init
<1>3. \A c \in Calls : InQueue(c) = {} /\ InHand(c) = {} /\ InFlight(c) = {}
  BY <1>2, NoLeaderHoldsNothing DEF Init, InQueue, InHand, InFlight
<1>4. EachIsCarried
  BY <1>3 DEF Init, EachIsCarried, Uncarried, Waiting, Settled
<1>5. HandsAreOrderly /\ LedByOne /\ AnswersAreOwn
  BY NoLeaderHoldsNothing DEF Init, HandsAreOrderly, LedByOne, AnswersAreOwn, Settled
<1> QED
  BY <1>1, <1>2, <1>4, <1>5 DEF Init, LaneInv

\* Every step of callers, leaders and jobs keeps the lane in order.
LEMMA NextLane ==
  LaneInv /\ [Next]_vars => LaneInv'
<1> SUFFICES ASSUME LaneInv, [Next]_vars PROVE LaneInv'
  OBVIOUS
<1>1. ASSUME NEW c \in Calls, Submit(c) \/ GiveUp(c) PROVE LaneInv'
  BY <1>1, SubmitKeeps, GiveUpKeeps
<1>2. ASSUME NEW l \in Leaders, Lead(l) PROVE LaneInv'
  BY <1>2, TickRetiresKeeps, TickWaitsKeeps, TickTakesKeeps, GetPermitKeeps,
     FailPendingKeeps DEF Lead
<1>3. ASSUME NEW j \in Jobs, RunJob(j) PROVE LaneInv'
  BY <1>3, JobFailsKeeps, JobCompletesKeeps DEF RunJob
<1>4. CASE UNCHANGED vars
  <2>1. \A c \in Calls : (CarriedOnce(c) => CarriedOnce(c)') /\ (Uncarried(c) => Uncarried(c)')
    BY <1>4, SameCarriers DEF vars, InQueue, InHand, InFlight
  <2>2. EachIsCarried'
    BY <1>4, <2>1 DEF vars, LaneInv, EachIsCarried, Waiting
  <2>3. TypeOK' /\ HandsAreOrderly' /\ LedByOne' /\ AnswersAreOwn'
    BY <1>4 DEF vars, LaneInv, TypeOK, HandsAreOrderly, LedByOne, AnswersAreOwn
  <2> QED
    BY <1>4, <2>2, <2>3 DEF vars, LaneInv
<1> QED
  BY <1>1, <1>2, <1>3, <1>4 DEF Next

-----------------------------------------------------------------------------
(* What the lane promises *)

\* The lane is in order in every reachable state: what submit, the leader's
\* ticks and the jobs hand over to each other adds up.
THEOREM LaneIsInOrder ==
  Spec => []LaneInv
<1> QED
  BY InitLane, NextLane, PTL DEF Spec

\* Every call that waits is in one place that will answer it, and an answered
\* one in none: no hand-over between queue, leader and job loses or doubles a
\* call, for queues, caps and permits of any size.
THEOREM CallsAreNeverLost ==
  Spec => []NoCallIsLost
<1>1. LaneInv => NoCallIsLost
  <2> SUFFICES ASSUME LaneInv, NEW c \in Calls
               PROVE  /\ c \in Waiting => Cardinality(Carriers(c)) = 1
                      /\ call[c].status \in {"unmade", "refused", "answered", "failed"}
                           => Carriers(c) = {}
    BY DEF NoCallIsLost
  <2>1. CarriedOnce(c) => \E x : Carriers(c) = {x}
    <3>1. ASSUME NEW i, InQueue(c) = {i}, InHand(c) = {}, InFlight(c) = {}
          PROVE  Carriers(c) = {<<"queue", i>>}
      BY <3>1, Zenon DEF Carriers
    <3>2. ASSUME NEW l, InQueue(c) = {}, InHand(c) = {l}, InFlight(c) = {}
          PROVE  Carriers(c) = {<<"leader", l>>}
      BY <3>2, Zenon DEF Carriers
    <3>3. ASSUME NEW j, InQueue(c) = {}, InHand(c) = {}, InFlight(c) = {j}
          PROVE  Carriers(c) = {<<"job", j>>}
      BY <3>3, Zenon DEF Carriers
    <3> QED
      BY <3>1, <3>2, <3>3 DEF CarriedOnce
  <2>2. Uncarried(c) => Carriers(c) = {}
    BY DEF Uncarried, Carriers
  <2>3. \A x : Cardinality({x}) = 1
    BY FS_Singleton
  <2> QED
    BY <2>1, <2>2, <2>3 DEF LaneInv, EachIsCarried
<1> QED
  BY <1>1, LaneIsInOrder, PTL

\* The lock's flag says whether there is a leader, there are never two, and
\* what is parked has one: no interleaving of submit with the leader's last
\* look at the queue leaves a call without a leader.
THEOREM ParkedAreAlwaysLed ==
  Spec => []ParkedIsLed
<1>1. LaneInv => ParkedIsLed
  <2> SUFFICES ASSUME LaneInv PROVE ParkedIsLed
    OBVIOUS
  <2>1. CASE leading
    <3>1. PICK l : {k \in Leaders : leader[k] # NoLeader} = {l}
      BY <2>1 DEF LaneInv, LedByOne
    <3>2. Cardinality({k \in Leaders : leader[k] # NoLeader}) = 1
      BY <3>1, FS_Singleton
    <3> QED
      BY <2>1, <3>2 DEF LaneInv, ParkedIsLed
  <2>2. CASE ~leading
    <3>1. Cardinality({k \in Leaders : leader[k] # NoLeader}) = 0
      BY <2>2, FS_EmptySet DEF LaneInv, LedByOne
    <3> QED
      BY <2>2, <3>1 DEF LaneInv, ParkedIsLed
  <2> QED
    BY <2>1, <2>2
<1> QED
  BY <1>1, LaneIsInOrder, PTL

\* Nobody is handed the answer to another's request, whatever items the
\* endpoint returns, repeats, leaves out or reorders.
THEOREM AnswersAreNeverCrossed ==
  Spec => []AnswersAreOwn
<1>1. LaneInv => AnswersAreOwn
  BY DEF LaneInv
<1> QED
  BY <1>1, LaneIsInOrder, PTL
=============================================================================
