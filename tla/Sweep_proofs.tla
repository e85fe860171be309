----------------------------- MODULE Sweep_proofs -----------------------------
(***************************************************************************)
(* Sweep: what is marked indexed is searchable, searches find nothing that *)
(* is not there, and a run keeps the promise of WholeSources; for any      *)
(* files, versions, rows, batch sizes, budgets and compositions, and with  *)
(* stops, failures of planner and stage, and crashes at any step.          *)
(***************************************************************************)
EXTENDS Sweep, FiniteSetTheorems, TLAPS

-----------------------------------------------------------------------------
(* The inductive invariant *)

Runs == [phase : Phases, dials : [rebuild : BOOLEAN, budget : Nat], seen : [Files -> Nat],
         deep : SUBSET Items, content : [Items -> Contents], spent : Nat, stopped : BOOLEAN]

Stages == [stream : Seq(StreamItems), landed : Nat, cuts : Seq(Nat), embedded : SUBSET Nat,
           failed : BOOLEAN]

Keyeds == [exists : BOOLEAN, anchors : SUBSET Files, shown : BOOLEAN]

\* The shapes the proofs go by.
Shapes ==
    /\ version \in [Files -> Nat] /\ gone \subseteq Files
    /\ \A f \in Files : version[f] <= VersionMax[f]
    /\ shape \in 1..ShapeMax /\ identity \in 1..IdentityMax /\ built \in 1..IdentityMax
    /\ row \in [Items -> Rows]
    /\ subtree \in [Items -> Contents]
    /\ keyed \in Keyeds
    /\ found \subseteq FoundRows
    /\ run \in Runs
    /\ stage \in Stages

\* What is in the buffer or submitted and has not landed.
Waiting(st) == st.landed + 1 .. Len(st.stream)

\* The cursors of a stage are in order.
Cursors(st) ==
    /\ st.landed <= Len(st.stream)
    /\ \A k \in 1..Len(st.cuts) : st.landed <= st.cuts[k] /\ st.cuts[k] <= Len(st.stream)
    /\ \A k, l \in 1..Len(st.cuts) : k <= l => st.cuts[k] <= st.cuts[l]

RowOf(x) == [of |-> x.of, content |-> x.content, n |-> x.n]

\* Row r waits ahead of position i.
Ahead(st, i, r) ==
    \E j \in Waiting(st) : j < i /\ st.stream[j].kind = "row" /\ RowOf(st.stream[j]) = r

\* Every row of s is searchable or waits ahead of position i.
IsWhole(s, sub, fnd, st, i) ==
    \A r \in Subtree(s, sub[s]) : r \in fnd \/ Ahead(st, i, r)

\* A completion waits behind the rows of its source.
DoneBehindRows(sub, fnd, st) ==
    \A i \in Waiting(st) :
        st.stream[i].kind = "done" => IsWhole(st.stream[i].of, sub, fnd, st, i)

\* A row that waits is one of what its source is made from now.
RowsCurrent(sub, st) ==
    \A i \in Waiting(st) :
        st.stream[i].kind = "row" =>
            RowOf(st.stream[i]) \in Subtree(st.stream[i].of, sub[st.stream[i].of])

KeyedCurrent(kd, st) == \A i \in Waiting(st) : st.stream[i].kind = "keyed" => kd.exists

\* Nothing waits of a source that is still to be written.
Unwritten(deep, st) ==
    \A i \in Waiting(st) : st.stream[i].kind # "keyed" => st.stream[i].of \notin deep

Stamped(st) ==
    \A i \in 1..Len(st.stream) : st.stream[i].kind = "done" => st.stream[i].n \in 1..ShapeMax

\* A re-embed completes nothing, and every source is yet to be pushed or has
\* its rows searchable or waiting.
Reembedding ==
    run.phase = "reembedding" =>
        /\ \A s \in run.deep : subtree[s] # Nothing
        /\ \A i \in Waiting(stage) : stage.stream[i].kind # "done"
        /\ \A s \in Items \ run.deep :
              IsWhole(s, subtree, found, stage, Len(stage.stream) + 1)

\* Outside the passes there is no stage, but for what a failed run submitted.
StageAtWork ==
    /\ run.phase \notin {"idle", "reembedding", "files", "folder"} => stage = NoStage
    /\ run.phase = "idle" /\ stage.cuts = <<>> => stage = NoStage

StageInv ==
    /\ Cursors(stage) /\ Stamped(stage)
    /\ Len(stage.cuts) <= 2 * InFlight
    /\ DoneBehindRows(subtree, found, stage)
    /\ RowsCurrent(subtree, stage)
    /\ KeyedCurrent(keyed, stage)
    /\ Unwritten(run.deep, stage)

StoreInv == IndexedIsSearchable /\ NoStrayRows

IInv == Shapes /\ StageInv /\ Reembedding /\ StageAtWork /\ StoreInv /\ built <= identity

-----------------------------------------------------------------------------
(* Rows, items and empty stages *)

LEMMA RowFacts ==
    ASSUME NEW s, NEW c, NEW r \in Subtree(s, c)
    PROVE  r.of = s /\ c # Nothing
BY DEF Subtree

LEMMA NoStageFacts ==
    /\ NoStage \in Stages
    /\ Cursors(NoStage) /\ Stamped(NoStage) /\ Len(NoStage.cuts) <= 2 * InFlight
    /\ Waiting(NoStage) = {}
    /\ \A sub, fnd : DoneBehindRows(sub, fnd, NoStage)
    /\ \A sub : RowsCurrent(sub, NoStage)
    /\ \A kd : KeyedCurrent(kd, NoStage)
    /\ \A deep : Unwritten(deep, NoStage)
<1>1. NoStage.stream = <<>> /\ NoStage.landed = 0 /\ NoStage.cuts = <<>>
  BY DEF NoStage
<1>2. NoStage \in Stages
  BY DEF NoStage, Stages
<1>3. Waiting(NoStage) = {}
  BY <1>1 DEF Waiting
<1>4. Cursors(NoStage) /\ Stamped(NoStage)
  BY <1>1 DEF Cursors, Stamped
<1>5. Len(NoStage.cuts) <= 2 * InFlight
  BY <1>1, SweepAssumption
<1> QED
  BY <1>2, <1>3, <1>4, <1>5 DEF DoneBehindRows, RowsCurrent, KeyedCurrent, Unwritten

\* A step after which there is no stage.
LEMMA NoStageInv ==
    ASSUME stage' = NoStage, run.phase' # "reembedding"
    PROVE  StageInv' /\ Reembedding' /\ StageAtWork'
BY NoStageFacts DEF StageInv, Reembedding, StageAtWork

LEMMA NoRunFacts == NoRun \in Runs /\ NoRun.phase = "idle" /\ NoRun.deep = {}
<1>1. [s \in Items |-> Nothing] \in [Items -> Contents]
  BY DEF Contents, Nothing
<1>2. [f \in Files |-> NotListed] \in [Files -> Nat]
  BY DEF NotListed
<1> QED
  BY <1>1, <1>2 DEF NoRun, NoDials, Runs, Phases

\* The rows a source sends, in the buffer.
LEMMA RowItemsFacts ==
    ASSUME NEW s \in Items, NEW c \in Contents
    PROVE  /\ RowItems(s, c) \in Seq(StreamItems)
           /\ Len(RowItems(s, c)) = RowCount[s]
           /\ \A k \in 1..RowCount[s] : RowItems(s, c)[k] = RowItem(s, c, k)
<1>1. RowCount[s] \in Nat
  BY SweepAssumption
<1>2. \A k \in 1..RowCount[s] : RowItem(s, c, k) \in StreamItems
  BY <1>1 DEF RowItem, StreamItems
<1> QED
  BY <1>1, <1>2 DEF RowItems

LEMMA RowItemIs ==
    ASSUME NEW s \in Items, NEW c \in Contents, c # Nothing
    PROVE  /\ \A k \in 1..RowCount[s] :
                 /\ RowItem(s, c, k).kind = "row" /\ RowItem(s, c, k).of = s
                 /\ RowOf(RowItem(s, c, k)) \in Subtree(s, c)
           /\ \A r \in Subtree(s, c) : \E k \in 1..RowCount[s] : r = RowOf(RowItem(s, c, k))
BY DEF RowItem, RowOf, Subtree

-----------------------------------------------------------------------------
(* Steps that submit, embed and land *)

\* A step that moves the cuts alone.
LEMMA CutsMove ==
    ASSUME IInv, UNCHANGED <<storeVars, run>>, Cursors(stage'), Len(stage'.cuts) <= 2 * InFlight,
           stage'.stream = stage.stream, stage'.landed = stage.landed
    PROVE  StageInv' /\ Reembedding'
<1>1. Waiting(stage') = Waiting(stage)
  BY DEF Waiting
<1>2. subtree' = subtree /\ found' = found /\ keyed' = keyed /\ run' = run
  BY DEF storeVars
<1>3. \A i, r : Ahead(stage', i, r) <=> Ahead(stage, i, r)
  BY <1>1 DEF Ahead
<1>4. \A s, i : IsWhole(s, subtree', found', stage', i) <=> IsWhole(s, subtree, found, stage, i)
  BY <1>2, <1>3 DEF IsWhole
<1>5. DoneBehindRows(subtree', found', stage')
  BY <1>1, <1>4 DEF DoneBehindRows, IInv, StageInv
<1>6. RowsCurrent(subtree', stage') /\ KeyedCurrent(keyed', stage') /\ Unwritten(run'.deep, stage')
      /\ Stamped(stage')
  BY <1>1, <1>2 DEF RowsCurrent, KeyedCurrent, Unwritten, Stamped, IInv, StageInv
<1>7. Reembedding'
  BY <1>1, <1>2, <1>4 DEF Reembedding, IInv
<1> QED
  BY <1>5, <1>6, <1>7 DEF StageInv

\* The stages a step makes of another.
CutsAre(st, c)       == [st EXCEPT !.cuts = c]
Failed(st)           == [st EXCEPT !.cuts = <<>>, !.embedded = {}, !.failed = TRUE]
LandedTo(st, n)      == [st EXCEPT !.landed = n, !.cuts = Tail(@), !.embedded = @ \ {n}]
StreamIs(st, s)      == [st EXCEPT !.stream = s]

LEMMA StagesAre ==
    ASSUME NEW st \in Stages
    PROVE  /\ \A c \in Seq(Nat) :
                 /\ CutsAre(st, c).stream = st.stream /\ CutsAre(st, c).landed = st.landed
                 /\ CutsAre(st, c).cuts = c /\ CutsAre(st, c) \in Stages
           /\ Failed(st).stream = st.stream /\ Failed(st).landed = st.landed
           /\ Failed(st).cuts = <<>> /\ Failed(st) \in Stages
           /\ \A s \in Seq(StreamItems) :
                 /\ StreamIs(st, s).stream = s /\ StreamIs(st, s).landed = st.landed
                 /\ StreamIs(st, s).cuts = st.cuts /\ StreamIs(st, s).failed = st.failed
                 /\ StreamIs(st, s) \in Stages
<1>1. <<>> \in Seq(Nat) /\ {} \in SUBSET Nat
  OBVIOUS
<1> QED
  BY <1>1 DEF Stages, CutsAre, Failed, StreamIs

LEMMA StageLandedTo ==
    ASSUME NEW st \in Stages, st.cuts # <<>>, NEW n \in Nat
    PROVE  /\ LandedTo(st, n).stream = st.stream /\ LandedTo(st, n).landed = n
           /\ LandedTo(st, n).cuts = Tail(st.cuts) /\ LandedTo(st, n) \in Stages
<1>1. Tail(st.cuts) \in Seq(Nat) /\ st.embedded \ {n} \in SUBSET Nat
  BY DEF Stages
<1> QED
  BY <1>1 DEF Stages, LandedTo

LEMMA SubmittedInside ==
    ASSUME Shapes, Cursors(stage)
    PROVE  /\ Submitted \in Nat /\ stage.landed <= Submitted /\ Submitted <= Len(stage.stream)
           /\ \A k \in 1..Len(stage.cuts) : stage.cuts[k] <= Submitted
<1>1. stage.cuts \in Seq(Nat) /\ stage.landed \in Nat /\ Len(stage.stream) \in Nat
  BY DEF Shapes, Stages
<1>2. CASE stage.cuts = <<>>
  BY <1>1, <1>2 DEF Submitted, Cursors
<1>3. CASE stage.cuts # <<>>
  <2>1. Len(stage.cuts) \in 1..Len(stage.cuts)
    BY <1>1, <1>3
  <2> QED
    BY <1>1, <1>3, <2>1 DEF Submitted, Cursors
<1> QED
  BY <1>2, <1>3

\* One more batch is submitted, up to e.
LEMMA SubmitInv ==
    ASSUME IInv, HasRoom, NEW e \in Submitted + 1 .. Len(stage.stream),
           run.phase \in {"reembedding", "files", "folder"},
           stage' = CutsAre(stage, Append(stage.cuts, e)),
           UNCHANGED <<hostVars, dialVars, storeVars, run>>
    PROVE  IInv'
<1>1. Shapes /\ Cursors(stage) /\ stage \in Stages
  BY DEF IInv, StageInv, Shapes
<1>2. stage.cuts \in Seq(Nat) /\ Len(stage.stream) \in Nat /\ e \in Nat /\ stage.landed \in Nat
      /\ Submitted \in Nat
  BY <1>1, SubmittedInside DEF Stages
<1>3. stage'.stream = stage.stream /\ stage'.landed = stage.landed /\ stage'.cuts = Append(stage.cuts, e)
      /\ stage' \in Stages
  <2> DEFINE cs == Append(stage.cuts, e)
  <2>1. cs \in Seq(Nat)
    BY <1>2
  <2>2. stage' = CutsAre(stage, cs)
    OBVIOUS
  <2>3. /\ stage'.stream = stage.stream /\ stage'.landed = stage.landed /\ stage'.cuts = cs
        /\ stage' \in Stages
    <3> HIDE DEF cs
    <3> QED
      BY SMTT(40), <1>1, <2>1, <2>2, StagesAre
  <2> QED
    BY <2>3
<1>4. Cursors(stage')
  <2> DEFINE cs == Append(stage.cuts, e)  n == Len(stage.cuts)
  <2>1. n \in Nat /\ Len(cs) = n + 1 /\ cs[n + 1] = e /\ \A k \in 1..n : cs[k] = stage.cuts[k]
    BY <1>2
  <2>2. \A k \in 1..n : stage.cuts[k] \in Nat /\ stage.cuts[k] <= Submitted
                        /\ stage.landed <= stage.cuts[k] /\ stage.cuts[k] <= Len(stage.stream)
    BY <1>1, <1>2, SubmittedInside DEF Cursors
  <2>3. \A k \in 1 .. n + 1 : cs[k] \in Nat /\ stage.landed <= cs[k] /\ cs[k] <= Len(stage.stream)
    <3>1. stage.landed <= e /\ e <= Len(stage.stream)
      BY <1>1, <1>2, SubmittedInside
    <3> HIDE DEF cs, n
    <3>2. ASSUME NEW k \in 1 .. n + 1
          PROVE  cs[k] \in Nat /\ stage.landed <= cs[k] /\ cs[k] <= Len(stage.stream)
      <4>1. CASE k = n + 1
        BY <1>2, <2>1, <3>1, <4>1
      <4>2. CASE k # n + 1
        <5>1. k \in 1..n
          BY <2>1, <4>2
        <5> QED
          BY <2>1, <2>2, <5>1
      <4> QED
        BY <4>1, <4>2
    <3> QED
      BY <3>2
  <2>4. \A k, l \in 1 .. n + 1 : k <= l => cs[k] <= cs[l]
    <3> SUFFICES ASSUME NEW k \in 1 .. n + 1, NEW l \in 1 .. n + 1, k <= l
                 PROVE  cs[k] <= cs[l]
      OBVIOUS
    <3>1. CASE l \in 1..n
      BY <1>1, <2>1, <3>1 DEF Cursors
    <3>2. CASE l = n + 1 /\ k \in 1..n
      BY <1>2, <2>1, <2>2, <3>2
    <3>3. CASE k = n + 1
      BY <2>1, <2>3, <3>3
    <3> QED
      BY <2>1, <3>1, <3>2, <3>3
  <2> HIDE DEF cs
  <2> QED
    BY <1>1, <1>3, <2>1, <2>3, <2>4 DEF Cursors, cs
<1>5. Len(stage'.cuts) <= 2 * InFlight
  BY <1>2, <1>3, SweepAssumption DEF HasRoom
<1>6. StageInv' /\ Reembedding'
  BY <1>3, <1>4, <1>5, CutsMove
<1>7. StageAtWork'
  BY DEF StageAtWork
<1>8. Shapes'
  BY <1>1, <1>3 DEF Shapes, hostVars, dialVars, storeVars
<1>9. StoreInv' /\ built' <= identity'
  BY DEF StoreInv, IInv, IndexedIsSearchable, NoStrayRows, Pending, Deep, dialVars, storeVars
<1> QED
  BY <1>6, <1>7, <1>8, <1>9 DEF IInv

LEMMA SubmitBatchInv ==
    ASSUME IInv, SubmitBatch
    PROVE  IInv'
BY SubmitInv DEF SubmitBatch, CutsAre

LEMMA SubmitRestInv ==
    ASSUME IInv, SubmitRest
    PROVE  IInv'
<1>1. Len(stage.stream) \in Submitted + 1 .. Len(stage.stream)
  BY SubmittedInside DEF SubmitRest, IInv, StageInv, Shapes, Stages
<1> QED
  BY <1>1, SubmitInv DEF SubmitRest, CutsAre

\* The store and the dials stay as they are.
LEMMA StoreStays ==
    ASSUME IInv, UNCHANGED <<dialVars, storeVars>>
    PROVE  StoreInv' /\ built' <= identity'
BY DEF StoreInv, IInv, IndexedIsSearchable, NoStrayRows, Pending, Deep, dialVars, storeVars

LEMMA EmbedBatchInv ==
    ASSUME IInv, NEW i \in 1..InFlight, EmbedBatch(i)
    PROVE  IInv'
<1>1. stage \in Stages /\ Cursors(stage) /\ Len(stage.cuts) <= 2 * InFlight
  BY DEF IInv, StageInv, Shapes
<1>2. stage.cuts[i] \in Nat
  BY <1>1 DEF EmbedBatch, Stages
<1>3. stage'.stream = stage.stream /\ stage'.landed = stage.landed /\ stage'.cuts = stage.cuts
      /\ stage' \in Stages
  BY <1>1, <1>2 DEF EmbedBatch, Stages
<1>4. Cursors(stage') /\ Len(stage'.cuts) <= 2 * InFlight
  BY <1>1, <1>3 DEF Cursors
<1>5. StageInv' /\ Reembedding'
  BY <1>3, <1>4, CutsMove DEF EmbedBatch
<1>6. stage.cuts # <<>>
  BY <1>1 DEF EmbedBatch, Stages
<1>7. StageAtWork'
  BY <1>3, <1>6 DEF EmbedBatch, StageAtWork, IInv, NoStage
<1>8. Shapes'
  BY <1>3 DEF EmbedBatch, IInv, Shapes, hostVars, dialVars, storeVars
<1> QED
  BY <1>5, <1>7, <1>8, StoreStays DEF EmbedBatch, IInv

LEMMA StageFailsInv ==
    ASSUME IInv, StageFails
    PROVE  IInv'
<1>1. stage \in Stages /\ Cursors(stage) /\ Len(stage.cuts) <= 2 * InFlight
  BY DEF IInv, StageInv, Shapes
<1>2. CASE run.phase = "idle"
  <2>1. stage' = NoStage /\ run.phase' # "reembedding"
    BY <1>2 DEF StageFails
  <2>2. StageInv' /\ Reembedding' /\ StageAtWork'
    BY <2>1, NoStageInv
  <2>3. Shapes'
    BY <2>1, NoStageFacts DEF StageFails, IInv, Shapes, hostVars, dialVars, storeVars
  <2> QED
    BY <2>2, <2>3, StoreStays DEF StageFails, IInv
<1>3. CASE run.phase # "idle"
  <2>1. stage' = Failed(stage)
    BY <1>3 DEF StageFails, Failed
  <2>2. stage'.stream = stage.stream /\ stage'.landed = stage.landed /\ stage'.cuts = <<>>
        /\ stage' \in Stages
    BY <1>1, <2>1, StagesAre
  <2>3. Cursors(stage') /\ Len(stage'.cuts) <= 2 * InFlight
    BY <1>1, <2>2, SweepAssumption DEF Cursors
  <2>4. StageInv' /\ Reembedding'
    BY <2>2, <2>3, CutsMove DEF StageFails
  <2>5. run.phase \in {"reembedding", "files", "folder"}
    BY <1>3 DEF StageFails, IInv, StageAtWork, NoStage
  <2>6. StageAtWork'
    BY <2>5 DEF StageFails, StageAtWork
  <2>7. Shapes'
    BY <2>2 DEF StageFails, IInv, Shapes, hostVars, dialVars, storeVars
  <2> QED
    BY <2>4, <2>6, <2>7, StoreStays DEF StageFails, IInv
<1> QED
  BY <1>2, <1>3

\* What a batch up to e carries.
LEMMA BatchFacts ==
    ASSUME Shapes, NEW e \in Nat, e <= Len(stage.stream)
    PROVE  /\ \A x \in Batch(e) : \E i \in Waiting(stage) : i <= e /\ x = stage.stream[i]
           /\ \A i \in Waiting(stage) : i <= e => stage.stream[i] \in Batch(e)
           /\ \A x \in Batch(e) : x \in StreamItems
<1>1. stage.landed \in Nat /\ stage.stream \in Seq(StreamItems)
  BY DEF Shapes, Stages
<1>2. \A i \in stage.landed + 1 .. e : i \in Waiting(stage) /\ i \in 1..Len(stage.stream)
  BY <1>1 DEF Waiting
<1>3. \A i \in Waiting(stage) : i <= e => i \in stage.landed + 1 .. e
  BY <1>1 DEF Waiting
<1> QED
  BY <1>1, <1>2, <1>3 DEF Batch

LEMMA RowsOfFacts ==
    ASSUME NEW batch
    PROVE  /\ \A x \in batch : x.kind = "row" => RowOf(x) \in RowsOf(batch)
           /\ \A r \in RowsOf(batch) : \E x \in batch : x.kind = "row" /\ r = RowOf(x)
BY DEF RowsOf, RowOf

\* A batch up to the first cut lands: whatever waited ahead of it is searchable.
LEMMA AheadLands ==
    ASSUME IInv, NEW e \in Nat, e <= Len(stage.stream), stage.landed <= e,
           found' = found \cup RowsOf(Batch(e)), NEW st,
           st.stream = stage.stream, st.landed = e,
           NEW s, NEW i, IsWhole(s, subtree, found, stage, i)
    PROVE  /\ IsWhole(s, subtree, found', st, i)
           /\ i \in Nat /\ i <= e + 1 => Subtree(s, subtree[s]) \subseteq found'
<1>1. Shapes /\ stage.landed \in Nat /\ Len(stage.stream) \in Nat
  BY DEF IInv, Shapes, Stages
<1>2. \A j \in Waiting(stage) : j \in Nat /\ (j <= e \/ j \in Waiting(st))
  BY <1>1 DEF Waiting
<1>3. \A j \in Waiting(stage) : j <= e /\ stage.stream[j].kind = "row" =>
          RowOf(stage.stream[j]) \in found'
  BY <1>1, BatchFacts, RowsOfFacts
<1>4. ASSUME NEW r \in Subtree(s, subtree[s])
      PROVE  /\ r \in found' \/ Ahead(st, i, r)
             /\ i \in Nat /\ i <= e + 1 => r \in found'
  <2>1. CASE r \in found
    BY <2>1
  <2>2. CASE Ahead(stage, i, r)
    <3>1. PICK j \in Waiting(stage) :
             j < i /\ stage.stream[j].kind = "row" /\ RowOf(stage.stream[j]) = r
      BY <2>2 DEF Ahead
    <3>2. CASE j <= e
      BY <1>3, <3>1, <3>2
    <3>3. CASE ~(j <= e)
      <4>1. Ahead(st, i, r)
        BY <1>2, <3>1, <3>3 DEF Ahead
      <4>2. ~(i \in Nat /\ i <= e + 1)
        BY <1>2, <3>1, <3>3
      <4> QED
        BY <4>1, <4>2
    <3> QED
      BY <3>2, <3>3
  <2> QED
    BY <2>1, <2>2 DEF IsWhole
<1> QED
  BY <1>4 DEF IsWhole

LEMMA LandBatchStage ==
    ASSUME IInv, LandBatch
    PROVE  StageInv' /\ Reembedding' /\ StageAtWork' /\ stage' \in Stages
<1> DEFINE e == Head(stage.cuts)
<1>1. stage \in Stages /\ Shapes /\ Cursors(stage)
  BY DEF IInv, Shapes, StageInv
<1>2. stage.cuts \in Seq(Nat) /\ stage.cuts # <<>> /\ stage.landed \in Nat
      /\ Len(stage.stream) \in Nat /\ Len(stage.cuts) \in Nat \ {0}
  BY <1>1 DEF LandBatch, Stages
<1>3. e = stage.cuts[1] /\ e \in Nat /\ stage.landed <= e /\ e <= Len(stage.stream)
      /\ \A k \in 1..Len(stage.cuts) : e <= stage.cuts[k] /\ stage.cuts[k] <= Len(stage.stream)
                                       /\ stage.cuts[k] \in Nat
  BY <1>1, <1>2 DEF Cursors
<1>4. stage' = AfterLanding(e) /\ found' = found \cup RowsOf(Batch(e))
      /\ keyed' = [keyed EXCEPT !.shown = @ \/ \E x \in Batch(e) : x.kind = "keyed"]
      /\ subtree' = subtree /\ run' = run
  BY DEF LandBatch, Landed
<1>5. CASE run.phase = "idle" /\ Len(stage.cuts) = 1
  <2>1. stage' = NoStage
    BY <1>4, <1>5 DEF AfterLanding
  <2> QED
    BY <1>4, <1>5, <2>1, NoStageInv, NoStageFacts
<1>6. CASE ~(run.phase = "idle" /\ Len(stage.cuts) = 1)
  <2>1. stage' = LandedTo(stage, e)
    BY <1>4, <1>6 DEF AfterLanding, LandedTo
  <2>2. stage'.stream = stage.stream /\ stage'.landed = e /\ stage'.cuts = Tail(stage.cuts)
        /\ stage' \in Stages
    <3> HIDE DEF e
    <3> QED
      BY <1>1, <1>2, <1>3, <2>1, StageLandedTo
  <2>3. \A i \in Waiting(stage') : i \in Waiting(stage) /\ i \in Nat
    BY <1>2, <1>3, <2>2 DEF Waiting
  <2>4. Len(stage'.cuts) = Len(stage.cuts) - 1
        /\ \A k \in 1..Len(stage'.cuts) : k + 1 \in 1..Len(stage.cuts) /\ stage'.cuts[k] = stage.cuts[k + 1]
    BY <1>2, <2>2
  <2>5. Cursors(stage') /\ Len(stage'.cuts) <= 2 * InFlight
    <3>1. Len(stage.cuts) <= 2 * InFlight
      BY DEF IInv, StageInv
    <3>2. \A k, l \in 1..Len(stage'.cuts) : k <= l => stage'.cuts[k] <= stage'.cuts[l]
      BY <1>1, <1>2, <2>4 DEF Cursors
    <3> QED
      BY <1>2, <1>3, <2>2, <2>4, <3>1, <3>2, SweepAssumption DEF Cursors
  <2>6. \A s, i : IsWhole(s, subtree, found, stage, i) => IsWhole(s, subtree, found', stage', i)
    <3> HIDE DEF e
    <3> QED
      BY <1>3, <1>4, <2>2, AheadLands
  <2>7. DoneBehindRows(subtree', found', stage')
    BY <1>4, <2>2, <2>3, <2>6 DEF DoneBehindRows, IInv, StageInv
  <2>8. RowsCurrent(subtree', stage') /\ Unwritten(run'.deep, stage') /\ Stamped(stage')
    BY <1>4, <2>2, <2>3 DEF RowsCurrent, Unwritten, Stamped, IInv, StageInv
  <2>9. KeyedCurrent(keyed', stage')
    <3>1. keyed'.exists = keyed.exists
      BY <1>1, <1>4 DEF Shapes, Keyeds
    <3> QED
      BY <2>2, <2>3, <3>1 DEF KeyedCurrent, IInv, StageInv
  <2>10. Reembedding'
    BY <1>4, <2>2, <2>3, <2>6 DEF Reembedding, IInv
  <2>11. StageAtWork'
    <3>1. run.phase \in {"idle", "reembedding", "files", "folder"}
      BY <1>2 DEF IInv, StageAtWork, NoStage
    <3>2. ASSUME run.phase = "idle", stage'.cuts = <<>> PROVE FALSE
      <4>1. Len(stage'.cuts) = 0
        BY <3>2
      <4> HIDE DEF e
      <4> QED
        BY <1>2, <1>6, <2>4, <3>2, <4>1
    <3> QED
      BY <1>4, <3>1, <3>2 DEF StageAtWork
  <2> QED
    BY <2>2, <2>5, <2>7, <2>8, <2>9, <2>10, <2>11 DEF StageInv
<1> QED
  BY <1>5, <1>6

\* The stamp a batch gives is one of a shape there has been.
LEMMA StampIs ==
    ASSUME Shapes, Stamped(stage), NEW e \in Nat, e <= Len(stage.stream), NEW s,
           Completed(Batch(e), s)
    PROVE  StampOf(Batch(e), s) \in 1..ShapeMax
<1> DEFINE x == CHOOSE y \in Batch(e) : y.kind = "done" /\ y.of = s
<1>1. x \in Batch(e) /\ x.kind = "done"
  BY DEF Completed
<1>2. PICK i \in Waiting(stage) : i <= e /\ x = stage.stream[i]
  <2> HIDE DEF x
  <2> QED
    BY <1>1, BatchFacts
<1>3. i \in 1..Len(stage.stream)
  BY DEF Waiting, Shapes, Stages
<1>4. x.n \in 1..ShapeMax
  <2> HIDE DEF x
  <2> QED
    BY <1>1, <1>2, <1>3 DEF Stamped
<1> QED
  BY <1>4 DEF StampOf

Marked(r, st) == [r EXCEPT !.indexed = TRUE, !.stamp = st]

LEMMA RowsAre ==
    ASSUME NEW r \in Rows
    PROVE  /\ \A n \in 0..ShapeMax : Marked(r, n) \in Rows
           /\ \A m \in Nat, d \in Contents :
                 /\ Upserted(r, m, d) \in Rows /\ Upserted(r, m, d).indexed = FALSE
                 /\ Upserted(r, m, d).stamp = r.stamp
           /\ \A m \in Nat : CatalogOnly(r, m) \in Rows /\ CatalogOnly(r, m).stamp = NoStamp
           /\ NoRow \in Rows /\ NoRow.indexed = FALSE
<1>1. Nothing \in Contents
  BY DEF Nothing, Contents
<1>2. 0 \in 0..ShapeMax
  BY SweepAssumption
<1>3. NoRow \in Rows /\ NoRow.indexed = FALSE
  BY <1>1, <1>2 DEF NoRow, Rows, NoStamp
<1>4. \A n \in 0..ShapeMax : Marked(r, n) \in Rows
  BY DEF Marked, Rows
<1>5. \A m \in Nat, d \in Contents :
         /\ Upserted(r, m, d) \in Rows /\ Upserted(r, m, d).indexed = FALSE
         /\ Upserted(r, m, d).stamp = r.stamp
  BY DEF Upserted, Rows
<1>6. \A m \in Nat : CatalogOnly(r, m) \in Rows /\ CatalogOnly(r, m).stamp = NoStamp
  <2> SUFFICES ASSUME NEW m \in Nat
               PROVE  CatalogOnly(r, m) \in Rows /\ CatalogOnly(r, m).stamp = NoStamp
    OBVIOUS
  <2> DEFINE u == Upserted(r, m, Nothing)
  <2>1. u \in Rows
    BY <1>1, <1>5
  <2>2. CatalogOnly(r, m) = [u EXCEPT !.indexed = TRUE, !.stamp = NoStamp]
    BY DEF CatalogOnly
  <2> HIDE DEF u
  <2> QED
    BY <1>2, <2>1, <2>2 DEF Rows, NoStamp
<1> QED
  BY <1>3, <1>4, <1>5, <1>6

\* A source that is completed by the batch that lands is searchable.
LEMMA CompletedIsWhole ==
    ASSUME IInv, LandBatch, NEW s \in Items, Completed(Batch(Head(stage.cuts)), s)
    PROVE  Subtree(s, subtree[s]) \subseteq found'
<1> DEFINE e == Head(stage.cuts)
<1>1. stage \in Stages /\ Shapes /\ Cursors(stage) /\ stage.cuts # <<>>
  BY DEF IInv, Shapes, StageInv, LandBatch
<1>2. e \in Nat /\ e <= Len(stage.stream) /\ stage.landed <= e
  BY <1>1 DEF Stages, Cursors
<1>3. found' = found \cup RowsOf(Batch(e))
  BY DEF LandBatch, Landed
<1>4. PICK x \in Batch(e) : x.kind = "done" /\ x.of = s
  BY DEF Completed
<1> HIDE DEF e
<1>5. PICK i \in Waiting(stage) : i <= e /\ x = stage.stream[i]
  BY <1>1, <1>2, BatchFacts
<1>6. IsWhole(s, subtree, found, stage, i)
  BY <1>4, <1>5 DEF IInv, StageInv, DoneBehindRows
<1>7. i \in Nat
  BY <1>1 DEF Waiting, Stages
<1>8. LandedTo(stage, e).stream = stage.stream /\ LandedTo(stage, e).landed = e
  BY <1>1, <1>2, StageLandedTo
<1> QED
  BY <1>2, <1>3, <1>5, <1>6, <1>7, <1>8, AheadLands

LEMMA LandBatchRest ==
    ASSUME IInv, LandBatch
    PROVE  Shapes' /\ StoreInv' /\ built' <= identity'
<1> DEFINE e == Head(stage.cuts)  b == Batch(e)
<1>1. stage \in Stages /\ Shapes /\ Cursors(stage) /\ Stamped(stage)
  BY DEF IInv, Shapes, StageInv
<1>2. e \in Nat /\ e <= Len(stage.stream) /\ stage.landed <= e
  BY <1>1 DEF LandBatch, Stages, Cursors
<1>3. found' = found \cup RowsOf(b)
      /\ keyed' = [keyed EXCEPT !.shown = @ \/ \E x \in b : x.kind = "keyed"]
      /\ row' = [s \in Items |->
                   IF Completed(b, s) /\ row[s].known THEN Marked(row[s], StampOf(b, s)) ELSE row[s]]
      /\ subtree' = subtree /\ run' = run /\ built' = built /\ identity' = identity
      /\ shape' = shape /\ UNCHANGED hostVars
  BY DEF LandBatch, Landed, Marked, dialVars
<1>4. \A x \in b : x \in StreamItems /\ \E i \in Waiting(stage) : i <= e /\ x = stage.stream[i]
  <2> HIDE DEF e
  <2> QED
    BY <1>1, <1>2, BatchFacts
<1>5. Shapes'
  <2>1. \A s \in Items : row'[s] \in Rows
    <3> SUFFICES ASSUME NEW s \in Items PROVE row'[s] \in Rows
      OBVIOUS
    <3>1. row[s] \in Rows
      BY <1>1 DEF Shapes
    <3>2. CASE Completed(b, s) /\ row[s].known
      <4>1. StampOf(b, s) \in 0..ShapeMax
        <5> HIDE DEF e
        <5> QED
          BY <1>1, <1>2, <3>2, StampIs, SweepAssumption
      <4> HIDE DEF b
      <4> QED
        BY <1>3, <3>1, <3>2, <4>1, RowsAre
    <3>3. CASE ~(Completed(b, s) /\ row[s].known)
      <4> HIDE DEF b
      <4> QED
        BY <1>3, <3>1, <3>3
    <3> QED
      BY <3>2, <3>3
  <2>2. row' \in [Items -> Rows]
    <3> HIDE DEF b
    <3> QED
      BY <1>3, <2>1
  <2>3. keyed' \in Keyeds
    <3> HIDE DEF b
    <3> QED
      BY <1>1, <1>3 DEF Shapes, Keyeds
  <2>4. RowsOf(b) \subseteq FoundRows
    <3> HIDE DEF b
    <3> QED
      BY <1>4 DEF RowsOf, StreamItems, FoundRows
  <2> HIDE DEF b
  <2> QED
    BY <1>1, <1>3, <2>2, <2>3, <2>4, LandBatchStage DEF Shapes, hostVars
<1>6. IndexedIsSearchable'
  <2> SUFFICES ASSUME ~Pending, NEW s \in Items, Deep(s)'
               PROVE  Subtree(s, subtree[s]) \subseteq found'
    BY <1>3 DEF IndexedIsSearchable, Pending
  <2>1. CASE Completed(b, s)
    BY <1>3, <2>1, CompletedIsWhole
  <2>2. CASE ~Completed(b, s)
    <3>1. row'[s] = row[s]
      <4> HIDE DEF b
      <4> QED
        BY <1>3, <2>2
    <3>2. Subtree(s, subtree[s]) \subseteq found
      BY <3>1 DEF Deep, IInv, StoreInv, IndexedIsSearchable
    <3> HIDE DEF b
    <3> QED
      BY <1>3, <3>2
  <2> QED
    BY <2>1, <2>2
<1>7. NoStrayRows'
  <2>1. \A r \in RowsOf(b) : \E s \in Items : r \in Subtree(s, subtree[s])
    <3> SUFFICES ASSUME NEW r \in RowsOf(b) PROVE \E s \in Items : r \in Subtree(s, subtree[s])
      OBVIOUS
    <3>1. PICK x \in b : x.kind = "row" /\ r = RowOf(x)
      <4> HIDE DEF b
      <4> QED
        BY RowsOfFacts
    <3>2. PICK i \in Waiting(stage) : x = stage.stream[i]
      BY <1>4, <3>1
    <3>3. r \in Subtree(x.of, subtree[x.of])
      BY <3>1, <3>2 DEF IInv, StageInv, RowsCurrent
    <3>4. x.of \in Items
      BY <1>4, <3>1 DEF StreamItems
    <3> QED
      BY <3>3, <3>4
  <2>2. (\E x \in b : x.kind = "keyed") => keyed.exists
    BY <1>4 DEF IInv, StageInv, KeyedCurrent
  <2>3. keyed'.exists = keyed.exists /\ (keyed'.shown => keyed.shown \/ \E x \in b : x.kind = "keyed")
    <3> HIDE DEF b
    <3> QED
      BY <1>1, <1>3 DEF Shapes, Keyeds
  <2> HIDE DEF b
  <2> QED
    BY <1>3, <2>1, <2>2, <2>3 DEF NoStrayRows, IInv, StoreInv
<1> QED
  BY <1>1, <1>3, <1>5, <1>6, <1>7 DEF StoreInv, IInv

LEMMA LandBatchInv ==
    ASSUME IInv, LandBatch
    PROVE  IInv'
BY LandBatchStage, LandBatchRest DEF IInv

-----------------------------------------------------------------------------
(* Steps that end a pass or a run, and those between passes *)

\* Shapes, when the store stays.
LEMMA ShapesStay ==
    ASSUME Shapes, run' \in Runs, stage' \in Stages, UNCHANGED <<hostVars, dialVars, storeVars>>
    PROVE  Shapes'
BY DEF Shapes, hostVars, dialVars, storeVars

\* A step of the run alone, after which there is no stage.
LEMMA QuietStep ==
    ASSUME IInv, stage' = NoStage, run' \in Runs, run'.phase # "reembedding",
           UNCHANGED <<hostVars, dialVars, storeVars>>
    PROVE  IInv'
<1>1. StageInv' /\ Reembedding' /\ StageAtWork'
  BY NoStageInv
<1>2. Shapes'
  BY NoStageFacts, ShapesStay DEF IInv
<1> QED
  BY <1>1, <1>2, StoreStays DEF IInv

LEMMA FailInv ==
    ASSUME IInv, Fail
    PROVE  IInv'
<1>1. run' = NoRun /\ run' \in Runs /\ UNCHANGED <<hostVars, dialVars, storeVars>>
      /\ run'.phase = "idle" /\ run'.deep = {}
  BY NoRunFacts DEF Fail
<1>2. CASE stage.cuts = <<>>
  BY <1>1, <1>2, QuietStep DEF Fail
<1>3. CASE stage.cuts # <<>>
  <2> DEFINE s == SubSeq(stage.stream, 1, Submitted)
  <2>1. Shapes /\ stage \in Stages /\ Cursors(stage) /\ Stamped(stage)
    BY DEF IInv, Shapes, StageInv
  <2>2. Submitted \in Nat /\ stage.landed <= Submitted /\ Submitted <= Len(stage.stream)
        /\ \A k \in 1..Len(stage.cuts) : stage.cuts[k] <= Submitted
    BY <2>1, SubmittedInside
  <2>3. s \in Seq(StreamItems) /\ Len(s) = Submitted /\ \A i \in 1..Submitted : s[i] = stage.stream[i]
    BY <2>1, <2>2 DEF Stages
  <2>4. stage' = StreamIs(stage, s)
    BY <1>3 DEF Fail, Abandoned, StreamIs
  <2>5. stage'.stream = s /\ stage'.landed = stage.landed /\ stage'.cuts = stage.cuts
        /\ stage' \in Stages
    <3> HIDE DEF s
    <3> QED
      BY <2>1, <2>3, <2>4, StagesAre
  <2> HIDE DEF s
  <2>6. \A i \in Waiting(stage') : /\ i \in Waiting(stage) /\ i <= Submitted
                                   /\ stage'.stream[i] = stage.stream[i]
    BY <2>1, <2>2, <2>3, <2>5 DEF Waiting, Stages
  <2>7. \A j \in Waiting(stage) : j <= Submitted =>
            j \in Waiting(stage') /\ stage'.stream[j] = stage.stream[j]
    BY <2>1, <2>2, <2>3, <2>5 DEF Waiting, Stages
  <2>8. Cursors(stage')
    BY <2>1, <2>2, <2>3, <2>5 DEF Cursors
  <2>9. Stamped(stage') /\ Len(stage'.cuts) <= 2 * InFlight
    BY <2>1, <2>2, <2>3, <2>5 DEF Stamped, IInv, StageInv
  <2>10. subtree' = subtree /\ found' = found /\ keyed' = keyed
    BY <1>1 DEF storeVars
  <2>11. \A i \in Waiting(stage') : \A r : Ahead(stage, i, r) => Ahead(stage', i, r)
    <3> SUFFICES ASSUME NEW i \in Waiting(stage'), NEW r, Ahead(stage, i, r)
                 PROVE  Ahead(stage', i, r)
      OBVIOUS
    <3>1. PICK j \in Waiting(stage) :
             j < i /\ stage.stream[j].kind = "row" /\ RowOf(stage.stream[j]) = r
      BY DEF Ahead
    <3>2. i \in Nat /\ j \in Nat
      BY <2>1, <2>6 DEF Waiting, Stages
    <3>3. j \in Waiting(stage') /\ stage'.stream[j] = stage.stream[j]
      BY <2>2, <2>6, <2>7, <3>1, <3>2
    <3> QED
      BY <3>1, <3>3 DEF Ahead
  <2>12. DoneBehindRows(subtree', found', stage')
    BY <2>6, <2>10, <2>11 DEF DoneBehindRows, IsWhole, IInv, StageInv
  <2>13. RowsCurrent(subtree', stage') /\ KeyedCurrent(keyed', stage')
    BY <2>6, <2>10 DEF RowsCurrent, KeyedCurrent, IInv, StageInv
  <2>14. Unwritten(run'.deep, stage')
    BY <1>1 DEF Unwritten
  <2>15. StageAtWork' /\ Reembedding'
    BY <1>1, <1>3, <2>5 DEF StageAtWork, Reembedding
  <2>16. Shapes'
    BY <1>1, <2>1, <2>5, ShapesStay
  <2> QED
    BY <1>1, <2>8, <2>9, <2>12, <2>13, <2>14, <2>15, <2>16, StoreStays DEF IInv, StageInv
<1> QED
  BY <1>2, <1>3

LEMMA BeginInv ==
    ASSUME IInv, NEW dials \in Dials, Begin(dials)
    PROVE  IInv'
<1>1. stage' = NoStage
  BY DEF Begin, IInv, StageAtWork
<1>2. dials \in [rebuild : BOOLEAN, budget : Nat]
  BY SweepAssumption
<1>3. run' \in Runs /\ run'.phase = "preparing"
  BY <1>2, NoRunFacts DEF Begin, Runs, Phases
<1> QED
  BY <1>1, <1>3, QuietStep DEF Begin

LEMMA NothingToReembedInv ==
    ASSUME IInv, NothingToReembed
    PROVE  IInv'
<1>1. stage' = NoStage
  BY DEF NothingToReembed, IInv, StageAtWork
<1>2. run' \in Runs /\ run'.phase = "enumerating"
  BY DEF NothingToReembed, IInv, Shapes, Runs, Phases
<1> QED
  BY <1>1, <1>2, QuietStep DEF NothingToReembed

LEMMA EnumerateInv ==
    ASSUME IInv, Enumerate
    PROVE  IInv'
<1>1. stage' = NoStage
  BY DEF Enumerate, IInv, StageAtWork
<1>2. [f \in Files |-> Look(f)] \in [Files -> Nat]
  BY SweepAssumption DEF IInv, Shapes, Look, NotListed
<1>3. run' \in Runs /\ run'.phase = "deciding"
  BY <1>2 DEF Enumerate, IInv, Shapes, Runs, Phases
<1> QED
  BY <1>1, <1>3, QuietStep DEF Enumerate

LEMMA StopEarlyInv ==
    ASSUME IInv, StopEarly
    PROVE  IInv'
BY NoRunFacts, QuietStep DEF StopEarly

LEMMA EndFilesInv ==
    ASSUME IInv, EndFiles
    PROVE  IInv'
<1>1. run' \in Runs /\ run'.phase \in {"finalizing", "reconciling"}
  BY DEF EndFiles, IInv, Shapes, Runs, Phases
<1> QED
  BY <1>1, QuietStep DEF EndFiles

LEMMA EndFolderInv ==
    ASSUME IInv, EndFolder
    PROVE  IInv'
<1>1. run' \in Runs /\ run'.phase = "finalizing"
  BY DEF EndFolder, IInv, Shapes, Runs, Phases
<1> QED
  BY <1>1, QuietStep DEF EndFolder

LEMMA AllReconciledInv ==
    ASSUME IInv, AllReconciled
    PROVE  IInv'
<1>1. stage' = NoStage
  BY DEF AllReconciled, IInv, StageAtWork
<1>2. run' \in Runs /\ run'.phase = "folders"
  BY DEF AllReconciled, IInv, Shapes, Runs, Phases
<1> QED
  BY <1>1, <1>2, QuietStep DEF AllReconciled

LEMMA FinishReembedInv ==
    ASSUME IInv, FinishReembed
    PROVE  IInv'
<1>1. stage' = NoStage /\ run.phase = "reembedding" /\ run.deep = {}
      /\ stage.landed = Len(stage.stream)
  BY DEF FinishReembed, PassIsOver
<1>2. run' \in Runs /\ run'.phase = "enumerating"
  BY DEF FinishReembed, IInv, Shapes, Runs, Phases
<1>3. StageInv' /\ Reembedding' /\ StageAtWork'
  BY <1>1, <1>2, NoStageInv
<1>4. Shapes'
  BY <1>1, <1>2, NoStageFacts DEF FinishReembed, IInv, Shapes, hostVars, storeVars
<1>5. \A s \in Items : Subtree(s, subtree[s]) \subseteq found
  <2>1. Waiting(stage) = {}
    BY <1>1 DEF IInv, Shapes, Stages, Waiting
  <2>2. \A s \in Items : IsWhole(s, subtree, found, stage, Len(stage.stream) + 1)
    BY <1>1 DEF IInv, Reembedding
  <2> QED
    BY <2>1, <2>2 DEF IsWhole, Ahead
<1>6. StoreInv'
  BY <1>5 DEF FinishReembed, storeVars, StoreInv, IInv, IndexedIsSearchable, NoStrayRows
<1>7. built' <= identity'
  BY DEF FinishReembed, IInv, Shapes
<1> QED
  BY <1>3, <1>4, <1>6, <1>7 DEF IInv

\* A step that takes marks, and has no stage.
LEMMA UnmarkStep ==
    ASSUME IInv, stage' = NoStage, run' \in Runs, run'.phase # "reembedding",
           UNCHANGED <<hostVars, dialVars, subtree, keyed, found>>,
           row' \in [Items -> Rows],
           \A s \in Items : Deep(s)' => Deep(s)
    PROVE  IInv'
<1>1. StageInv' /\ Reembedding' /\ StageAtWork'
  BY NoStageInv
<1>2. Shapes'
  BY NoStageFacts DEF IInv, Shapes, hostVars, dialVars
<1>3. StoreInv'
  BY DEF StoreInv, IInv, IndexedIsSearchable, NoStrayRows, Pending, dialVars
<1> QED
  BY <1>1, <1>2, <1>3 DEF IInv, dialVars

LEMMA FilesFinite == IsFiniteSet(Files) /\ Files \subseteq Items /\ Folder \in Items
<1>1. FileCount \in Nat
  BY Zenon, SweepAssumption
<1> QED
  BY <1>1, FS_Interval DEF Files, Items

LEMMA DecideRow ==
    ASSUME IInv, Decide, NEW s \in Items
    PROVE  row'[s] \in Rows /\ (Deep(s)' => Deep(s))
<1>1. row[s] \in Rows /\ run \in Runs
  BY DEF IInv, Shapes
<1>2. Nothing \in Contents
  BY DEF Nothing, Contents
<1>3. CASE s \in Wanted \ Chosen
  <2>1. s \in Files
    BY <1>3 DEF Wanted
  <2>2. run.seen[s] \in Nat
    BY <1>1, <2>1 DEF Runs
  <2> DEFINE m == run.seen[s]
  <2>3. row'[s] = CatalogOnly(row[s], m)
    BY <1>3 DEF Decide
  <2>4. CatalogOnly(row[s], m) \in Rows /\ CatalogOnly(row[s], m).stamp = NoStamp
    <3>1. m \in Nat
      BY <2>2
    <3> HIDE DEF m
    <3> QED
      BY <1>1, <3>1, RowsAre
  <2> QED
    BY <2>3, <2>4 DEF Deep
<1>4. CASE s \notin Wanted \ Chosen /\ s \in NewlySeen
  <2>1. s \in Files
    BY <1>4 DEF NewlySeen
  <2>2. run.seen[s] \in Nat
    BY <1>1, <2>1 DEF Runs
  <2>3. row'[s] = Upserted(row[s], run.seen[s], Nothing)
    BY <1>4 DEF Decide
  <2> QED
    BY ZenonT(40), <1>1, <1>2, <2>2, <2>3, RowsAre DEF Deep
<1>5. CASE s \notin Wanted \ Chosen /\ s \notin NewlySeen
  BY <1>1, <1>5 DEF Decide, Deep
<1> QED
  BY <1>3, <1>4, <1>5

LEMMA DecideInv ==
    ASSUME IInv, Decide
    PROVE  IInv'
<1>1. stage' = NoStage
  BY DEF Decide, IInv, StageAtWork
<1>2. Chosen \in SUBSET Items /\ Cardinality(Chosen) \in Nat
  <2>1. Chosen \subseteq Files
    BY DEF Chosen, Wanted
  <2>2. IsFiniteSet(Chosen)
    BY <2>1, FilesFinite, FS_Subset
  <2> QED
    BY <2>1, <2>2, FilesFinite, FS_CardinalityType
<1>3. run' \in Runs /\ run'.phase = "files"
  BY <1>2 DEF Decide, IInv, Shapes, Runs, Phases
<1>4. row' \in [Items -> Rows]
  BY DecideRow DEF Decide
<1> QED
  BY <1>1, <1>3, <1>4, DecideRow, UnmarkStep DEF Decide

LEMMA ListingIs ==
    ASSUME Shapes
    PROVE  Listing \in Contents
BY FilesFinite DEF Listing, Contents, Shapes

LEMMA DecideFolderInv ==
    ASSUME IInv, DecideFolder
    PROVE  IInv'
<1>1. stage' = NoStage
  BY DEF DecideFolder, IInv, StageAtWork
<1>2. Folder \in Items /\ row \in [Items -> Rows] /\ run \in Runs
  BY FilesFinite DEF IInv, Shapes
<1>3. CASE run' = [run EXCEPT !.phase = "finalizing"] /\ UNCHANGED row
  <2>1. run' \in Runs /\ run'.phase = "finalizing"
    BY <1>2, <1>3 DEF Runs, Phases
  <2> QED
    BY <1>1, <1>2, <1>3, <2>1, UnmarkStep DEF DecideFolder, Deep
<1>4. CASE /\ run' = [run EXCEPT !.phase = "folder", !.deep = {Folder}, !.content[Folder] = Listing]
           /\ UNCHANGED row
  <2>1. [run.content EXCEPT ![Folder] = Listing] \in [Items -> Contents]
    BY <1>2, ListingIs DEF Runs, IInv
  <2>2. run' \in Runs /\ run'.phase = "folder"
    BY <1>2, <1>4, <2>1 DEF Runs, Phases
  <2> QED
    BY <1>1, <1>2, <1>4, <2>2, UnmarkStep DEF DecideFolder, Deep
<1>5. CASE /\ run' = [run EXCEPT !.phase = "finalizing"]
           /\ row' = [row EXCEPT ![Folder] = CatalogOnly(@, 0)]
  <2>1. run' \in Runs /\ run'.phase = "finalizing"
    BY <1>2, <1>5 DEF Runs, Phases
  <2>2. CatalogOnly(row[Folder], 0) \in Rows /\ CatalogOnly(row[Folder], 0).stamp = NoStamp
    BY <1>2, RowsAre
  <2>3. row' \in [Items -> Rows] /\ \A s \in Items : Deep(s)' => Deep(s)
    BY <1>2, <1>5, <2>2 DEF Deep
  <2> QED
    BY <1>1, <2>1, <2>3, UnmarkStep DEF DecideFolder
<1> QED
  BY <1>3, <1>4, <1>5 DEF DecideFolder

LEMMA FinalizeInv ==
    ASSUME IInv, Finalize
    PROVE  IInv'
<1>1. stage' = NoStage /\ run' \in Runs /\ run'.phase # "reembedding"
  BY NoRunFacts DEF Finalize, IInv, StageAtWork
<1>2. StageInv' /\ Reembedding' /\ StageAtWork'
  BY <1>1, NoStageInv
<1>3. keyed' \in Keyeds /\ (keyed'.shown => keyed'.exists)
  BY DEF Finalize, IInv, Shapes, StoreInv, NoStrayRows, Keyeds, NoKeyed
<1>4. Shapes'
  BY <1>1, <1>3, NoStageFacts DEF Finalize, IInv, Shapes, hostVars, dialVars
<1>5. StoreInv'
  BY <1>3 DEF Finalize, dialVars, StoreInv, IInv, IndexedIsSearchable, NoStrayRows, Pending, Deep
<1> QED
  BY <1>2, <1>4, <1>5 DEF IInv, Finalize, dialVars

-----------------------------------------------------------------------------
(* The host and the process *)

LEMMA HostMoves ==
    ASSUME IInv, UNCHANGED <<dialVars, storeVars, run, stage>>,
           version' \in [Files -> Nat], gone' \subseteq Files,
           \A f \in Files : version'[f] <= VersionMax[f]
    PROVE  IInv'
<1>1. StageInv' /\ Reembedding' /\ StageAtWork'
  BY DEF IInv, StageInv, Reembedding, StageAtWork, storeVars
<1>2. Shapes'
  BY DEF IInv, Shapes, dialVars, storeVars
<1> QED
  BY <1>1, <1>2, StoreStays DEF IInv

LEMMA ChangeInv ==
    ASSUME IInv, NEW f \in Files, Change(f) \/ Delete(f)
    PROVE  IInv'
<1>1. /\ version' \in [Files -> Nat] /\ gone' \subseteq Files
      /\ \A g \in Files : version'[g] <= VersionMax[g]
  <2>1. VersionMax \in [Files -> Nat]
    BY Zenon, SweepAssumption
  <2>2. version \in [Files -> Nat] /\ gone \subseteq Files
        /\ \A g \in Files : version[g] <= VersionMax[g]
    BY DEF IInv, Shapes
  <2>3. /\ version[f] < VersionMax[f]
        /\ version' = [version EXCEPT ![f] = version[f] + 1]
        /\ gone' \subseteq Files
    BY <2>2 DEF Change, Delete
  <2> QED
    BY <2>1, <2>2, <2>3
<1> QED
  BY <1>1, HostMoves DEF Change, Delete

LEMMA RestartInv ==
    ASSUME IInv, NEW sh \in 1..ShapeMax, NEW id \in 1..IdentityMax, Restart(sh, id)
    PROVE  IInv'
<1>1. stage' = NoStage /\ run' \in Runs /\ run'.phase # "reembedding"
  BY NoRunFacts DEF Restart
<1>2. StageInv' /\ Reembedding' /\ StageAtWork'
  BY <1>1, NoStageInv
<1>3. Shapes'
  BY <1>1, NoStageFacts DEF Restart, IInv, Shapes, hostVars, storeVars
<1>4. built' <= identity' /\ (Pending => Pending')
  BY SweepAssumption DEF Restart, IInv, Shapes, Pending
<1>5. StoreInv'
  BY <1>4 DEF Restart, storeVars, StoreInv, IInv, IndexedIsSearchable, NoStrayRows, Deep
<1> QED
  BY <1>2, <1>3, <1>4, <1>5 DEF IInv

-----------------------------------------------------------------------------
(* Reading, stopping, and the re-embed *)

\* A step of the run alone, in a pass, that takes sources off the list.
LEMMA PassStays ==
    ASSUME IInv, UNCHANGED <<hostVars, dialVars, storeVars, stage>>, run' \in Runs,
           run'.phase = run.phase, run.phase \in {"files", "folder"}, run'.deep \subseteq run.deep
    PROVE  IInv'
<1>1. Shapes'
  BY ShapesStay DEF IInv, Shapes
<1>2. Unwritten(run'.deep, stage')
  BY DEF IInv, StageInv, Unwritten
<1>3. subtree' = subtree /\ found' = found /\ keyed' = keyed /\ stage' = stage
  BY DEF storeVars
<1>4. StageInv' /\ Reembedding' /\ StageAtWork'
  BY <1>2, <1>3 DEF IInv, StageInv, Reembedding, StageAtWork
<1> QED
  BY <1>1, <1>4, StoreStays DEF IInv

LEMMA ReadContentInv ==
    ASSUME IInv, NEW f \in Files, ReadContent(f)
    PROVE  IInv'
<1>1. CASE f \in gone
  BY <1>1, FailInv DEF ReadContent
<1>2. CASE f \notin gone
  <2>1. run' = [run EXCEPT !.content[f] = FileContent(f)] /\ run.phase = "files"
        /\ UNCHANGED <<hostVars, dialVars, storeVars, stage>>
    BY <1>2 DEF ReadContent
  <2>2. run \in Runs /\ f \in Items
    BY FilesFinite DEF IInv, Shapes
  <2>3. FileContent(f) \in Contents
    BY DEF FileContent, Contents, IInv, Shapes
  <2>4. [run.content EXCEPT ![f] = FileContent(f)] \in [Items -> Contents]
    BY <2>2, <2>3 DEF Runs
  <2>5. run' \in Runs /\ run'.phase = run.phase /\ run'.deep = run.deep
    BY <2>1, <2>2, <2>4 DEF Runs
  <2> QED
    BY <2>1, <2>5, PassStays
<1> QED
  BY <1>1, <1>2

LEMMA StopPassInv ==
    ASSUME IInv, StopPass
    PROVE  IInv'
<1>1. NoRun.content \in [Items -> Contents] /\ run \in Runs
  BY NoRunFacts DEF Runs, IInv, Shapes
<1>2. run' \in Runs /\ run'.phase = run.phase /\ run'.deep = {}
  BY <1>1 DEF StopPass, Runs
<1> QED
  BY <1>2, PassStays DEF StopPass

LEMMA BeginReembedInv ==
    ASSUME IInv, BeginReembed
    PROVE  IInv'
<1> DEFINE s0 == IF keyed.exists THEN <<KeyedItem>> ELSE <<>>
<1>1. s0 \in Seq(StreamItems) /\ Len(s0) \in {0, 1}
      /\ (\A i \in 1..Len(s0) : s0[i] = KeyedItem /\ keyed.exists)
  <2>1. KeyedItem \in StreamItems
    BY FilesFinite DEF KeyedItem, StreamItems, Nothing, Contents
  <2> QED
    BY <2>1
<1>2. stage' = StreamIs(NoStage, s0)
  BY DEF BeginReembed, StreamIs
<1> HIDE DEF s0
<1>3. stage'.stream = s0 /\ stage'.landed = 0 /\ stage'.cuts = <<>> /\ stage' \in Stages
  <2>1. NoStage.landed = 0 /\ NoStage.cuts = <<>>
    BY DEF NoStage
  <2> QED
    BY <1>1, <1>2, <2>1, StagesAre, NoStageFacts
<1>4. \A i \in Waiting(stage') : stage'.stream[i].kind = "keyed" /\ keyed.exists
  BY <1>1, <1>3 DEF Waiting, KeyedItem
<1>5. run' \in Runs /\ run'.phase = "reembedding"
      /\ run'.deep = {s \in Items : subtree[s] # Nothing}
  BY DEF BeginReembed, IInv, Shapes, Runs, Phases
<1>6. found' = {} /\ subtree' = subtree /\ row' = row /\ keyed' = [keyed EXCEPT !.shown = FALSE]
      /\ UNCHANGED <<hostVars, dialVars>> /\ Pending
  BY DEF BeginReembed
<1>7. keyed' \in Keyeds /\ keyed'.exists = keyed.exists /\ keyed'.shown = FALSE
  BY <1>6 DEF IInv, Shapes, Keyeds
<1>8. StageInv'
  <2>1. Cursors(stage') /\ Stamped(stage') /\ Len(stage'.cuts) <= 2 * InFlight
    <3>1. \A i \in 1..Len(s0) : s0[i].kind = "keyed"
      BY <1>1 DEF KeyedItem
    <3> QED
      BY <1>1, <1>3, <3>1, SweepAssumption DEF Cursors, Stamped
  <2> QED
    BY <1>4, <1>7, <2>1 DEF StageInv, DoneBehindRows, RowsCurrent, KeyedCurrent, Unwritten
<1>9. Reembedding'
  BY <1>4, <1>5, <1>6 DEF Reembedding, IsWhole, Subtree
<1>10. StageAtWork'
  BY <1>5 DEF StageAtWork
<1>11. Shapes'
  BY <1>3, <1>5, <1>6, <1>7 DEF IInv, Shapes, hostVars, dialVars
<1>12. StoreInv' /\ built' <= identity'
  BY <1>6, <1>7 DEF StoreInv, IndexedIsSearchable, NoStrayRows, IInv, Pending, dialVars
<1> QED
  BY <1>8, <1>9, <1>10, <1>11, <1>12 DEF IInv

-----------------------------------------------------------------------------
(* Steps that add to the buffer *)

\* More is appended to what waits.
LEMMA Appended ==
    ASSUME Shapes, Cursors(stage), NEW more \in Seq(StreamItems),
           stage' = StreamIs(stage, stage.stream \o more)
    PROVE  /\ stage' \in Stages /\ stage'.cuts = stage.cuts
           /\ Cursors(stage')
           /\ Len(stage'.stream) = Len(stage.stream) + Len(more)
           /\ \A i \in Waiting(stage') :
                 \/ i \in Waiting(stage) /\ stage'.stream[i] = stage.stream[i]
                 \/ \E k \in 1..Len(more) : /\ i = Len(stage.stream) + k
                                            /\ stage'.stream[i] = more[k]
           /\ \A i \in Waiting(stage) : i \in Waiting(stage') /\ stage'.stream[i] = stage.stream[i]
           /\ \A i \in 1..Len(stage.stream) : stage'.stream[i] = stage.stream[i]
           /\ \A k \in 1..Len(more) :
                 /\ Len(stage.stream) + k \in Waiting(stage')
                 /\ stage'.stream[Len(stage.stream) + k] = more[k]
           /\ \A i \in 1..Len(stage'.stream) :
                 \/ i \in 1..Len(stage.stream)
                 \/ \E k \in 1..Len(more) : stage'.stream[i] = more[k]
           /\ \A i, r : Ahead(stage, i, r) => Ahead(stage', i, r)
<1> DEFINE s == stage.stream  n == Len(s)  t == s \o more
<1>1. stage \in Stages /\ s \in Seq(StreamItems) /\ n \in Nat /\ Len(more) \in Nat
      /\ stage.landed \in Nat /\ stage.landed <= n
  BY DEF Shapes, Stages, Cursors
<1>2. t \in Seq(StreamItems) /\ Len(t) = n + Len(more)
      /\ (\A i \in 1..n : t[i] = s[i]) /\ (\A k \in 1..Len(more) : t[n + k] = more[k])
  BY <1>1
<1>3. \A i \in 1..Len(t) : i \in 1..n \/ \E k \in 1..Len(more) : i = n + k
  <2> SUFFICES ASSUME NEW i \in 1..Len(t), i \notin 1..n
               PROVE  \E k \in 1..Len(more) : i = n + k
    OBVIOUS
  <2>1. i - n \in 1..Len(more) /\ i = n + (i - n)
    <3> HIDE DEF t
    <3> QED
      BY <1>1, <1>2
  <2> QED
    BY <2>1
<1> HIDE DEF t
<1>4. stage' = StreamIs(stage, t)
  BY DEF t
<1>5. stage'.stream = t /\ stage'.landed = stage.landed /\ stage'.cuts = stage.cuts /\ stage' \in Stages
  <2>1. t \in Seq(StreamItems) /\ stage \in Stages
    BY <1>1, <1>2
  <2>2. \A x \in Seq(StreamItems) :
           /\ StreamIs(stage, x).stream = x /\ StreamIs(stage, x).landed = stage.landed
           /\ StreamIs(stage, x).cuts = stage.cuts /\ StreamIs(stage, x) \in Stages
    BY <2>1, StagesAre
  <2> DEFINE x == StreamIs(stage, t)
  <2>3. x.stream = t /\ x.landed = stage.landed /\ x.cuts = stage.cuts /\ x \in Stages
    BY <2>1, <2>2
  <2>4. stage' = x
    BY <1>4
  <2> HIDE DEF x
  <2> QED
    BY <2>3, <2>4
<1>6. Cursors(stage')
  BY <1>1, <1>2, <1>5 DEF Cursors, Stages
<1>7. \A i \in Waiting(stage) : i \in Waiting(stage') /\ i \in 1..n
  BY <1>1, <1>2, <1>5 DEF Waiting
<1>8. \A i \in Waiting(stage') : i \in 1..Len(t) /\ (i \in 1..n => i \in Waiting(stage))
  BY <1>1, <1>2, <1>5 DEF Waiting
<1>9. \A k \in 1..Len(more) : n + k \in Waiting(stage')
  BY <1>1, <1>2, <1>5 DEF Waiting
<1>10. \A i, r : Ahead(stage, i, r) => Ahead(stage', i, r)
  BY <1>2, <1>5, <1>7 DEF Ahead
<1>11. \A i \in Waiting(stage') :
          \/ i \in Waiting(stage) /\ t[i] = s[i]
          \/ \E k \in 1..Len(more) : i = n + k /\ t[i] = more[k]
  BY <1>2, <1>3, <1>8
<1>12. \A i \in 1..Len(t) : i \in 1..n \/ \E k \in 1..Len(more) : t[i] = more[k]
  BY <1>2, <1>3
<1> QED
  BY <1>2, <1>5, <1>6, <1>7, <1>9, <1>10, <1>11, <1>12

LEMMA PushTargetInv ==
    ASSUME IInv, NEW s \in Items, PushTarget(s)
    PROVE  IInv'
<1> DEFINE c == subtree[s]  more == RowItems(s, c)
<1>1. Shapes /\ Cursors(stage) /\ stage \in Stages /\ c \in Contents /\ run \in Runs
      /\ Len(stage.cuts) <= 2 * InFlight
  BY DEF IInv, StageInv, Shapes
<1>2. s \in run.deep /\ run.phase = "reembedding" /\ run' = [run EXCEPT !.deep = @ \ {s}]
      /\ UNCHANGED <<hostVars, dialVars, storeVars>>
  BY DEF PushTarget, IsNext
<1>3. c # Nothing
  BY <1>2 DEF IInv, Reembedding
<1>4. more \in Seq(StreamItems) /\ Len(more) = RowCount[s] /\ RowCount[s] \in Nat
      /\ \A k \in 1..RowCount[s] : more[k] = RowItem(s, c, k)
  BY <1>1, RowItemsFacts, SweepAssumption
<1>5. stage' = StreamIs(stage, stage.stream \o more)
  BY DEF PushTarget, StreamIs
<1>6. \A k \in 1..Len(more) : more[k].kind = "row" /\ more[k].of = s
                              /\ RowOf(more[k]) \in Subtree(s, c)
  BY <1>1, <1>3, <1>4, RowItemIs
<1>7. \A r \in Subtree(s, c) : \E k \in 1..Len(more) : r = RowOf(more[k])
  BY <1>1, <1>3, <1>4, RowItemIs
<1> HIDE DEF more
<1>8. run' \in Runs /\ run'.phase = "reembedding" /\ run'.deep = run.deep \ {s}
  BY <1>1, <1>2 DEF Runs
<1>9. subtree' = subtree /\ found' = found /\ keyed' = keyed
  BY <1>2 DEF storeVars
<1>10. Shapes'
  BY <1>1, <1>2, <1>4, <1>5, <1>8, Appended, ShapesStay
<1>11. Cursors(stage') /\ Len(stage'.cuts) <= 2 * InFlight
  BY <1>1, <1>4, <1>5, Appended
<1>12. \A i \in Waiting(stage') :
          \/ i \in Waiting(stage) /\ stage'.stream[i] = stage.stream[i]
          \/ \E k \in 1..Len(more) : /\ i = Len(stage.stream) + k
                                     /\ stage'.stream[i] = more[k]
  BY <1>1, <1>4, <1>5, Appended
<1>13. Stamped(stage')
  <2>1. \A i \in 1..Len(stage'.stream) :
           \/ i \in 1..Len(stage.stream) /\ stage'.stream[i] = stage.stream[i]
           \/ \E k \in 1..Len(more) : stage'.stream[i] = more[k]
    BY <1>1, <1>4, <1>5, Appended
  <2> QED
    BY <1>6, <2>1 DEF Stamped, IInv, StageInv
<1>14. \A i, r : Ahead(stage, i, r) => Ahead(stage', i, r)
  BY <1>1, <1>4, <1>5, Appended
<1>15. \A i \in Waiting(stage') : stage'.stream[i].kind # "done"
  BY <1>2, <1>6, <1>12 DEF IInv, Reembedding
<1>16. DoneBehindRows(subtree', found', stage')
  BY <1>15 DEF DoneBehindRows
<1>17. RowsCurrent(subtree', stage') /\ KeyedCurrent(keyed', stage') /\ Unwritten(run'.deep, stage')
  BY <1>6, <1>8, <1>9, <1>12 DEF RowsCurrent, KeyedCurrent, Unwritten, IInv, StageInv
<1>18. \A x \in Items \ run'.deep : IsWhole(x, subtree, found, stage', Len(stage'.stream) + 1)
  <2> SUFFICES ASSUME NEW x \in Items \ run'.deep, NEW r \in Subtree(x, subtree[x])
               PROVE  r \in found \/ Ahead(stage', Len(stage'.stream) + 1, r)
    BY DEF IsWhole
  <2>0. Len(stage.stream) \in Nat /\ Len(more) \in Nat
        /\ Len(stage'.stream) = Len(stage.stream) + Len(more)
    BY <1>1, <1>4, <1>5, Appended DEF Stages
  <2>1. CASE x = s
    <3>1. PICK k \in 1..Len(more) : r = RowOf(more[k])
      BY <1>7, <2>1
    <3>2. Len(stage.stream) + k \in Waiting(stage')
          /\ stage'.stream[Len(stage.stream) + k] = more[k]
      BY <1>1, <1>4, <1>5, Appended
    <3>3. Len(stage.stream) + k < Len(stage'.stream) + 1
      BY <2>0
    <3> QED
      BY <1>6, <3>1, <3>2, <3>3 DEF Ahead
  <2>2. CASE x # s
    <3>1. r \in found \/ Ahead(stage, Len(stage.stream) + 1, r)
      BY <1>2, <1>8, <2>2 DEF IInv, Reembedding, IsWhole
    <3>2. ASSUME Ahead(stage, Len(stage.stream) + 1, r)
          PROVE  Ahead(stage', Len(stage'.stream) + 1, r)
      <4>1. PICK j \in Waiting(stage) :
               stage.stream[j].kind = "row" /\ RowOf(stage.stream[j]) = r
        BY <3>2 DEF Ahead
      <4>2. j \in Waiting(stage') /\ stage'.stream[j] = stage.stream[j]
        BY <1>1, <1>4, <1>5, Appended
      <4>3. j < Len(stage'.stream) + 1
        BY <2>0, <4>2, <1>1 DEF Waiting, Stages
      <4> QED
        BY <4>1, <4>2, <4>3 DEF Ahead
    <3> QED
      BY <3>1, <3>2
  <2> QED
    BY <2>1, <2>2
<1>19. Reembedding'
  BY <1>2, <1>8, <1>9, <1>15, <1>18 DEF Reembedding, IInv
<1>20. StageAtWork'
  BY <1>8 DEF StageAtWork
<1> QED
  BY <1>2, <1>10, <1>11, <1>13, <1>16, <1>17, <1>19, <1>20, StoreStays DEF IInv, StageInv

Joint(a, b) == a \o b

LEMMA JointFacts ==
    ASSUME NEW a \in Seq(StreamItems), NEW b \in Seq(StreamItems)
    PROVE  /\ Joint(a, b) \in Seq(StreamItems) /\ Len(Joint(a, b)) = Len(a) + Len(b)
           /\ \A k \in 1..Len(a) : Joint(a, b)[k] = a[k]
           /\ \A k \in 1..Len(b) : Joint(a, b)[Len(a) + k] = b[k]
BY DEF Joint

\* What a source sends: its rows, perhaps a keyed one, its completion last.
LEMMA SentFacts ==
    ASSUME Shapes, NEW s \in Items, NEW c \in Contents, c # Nothing, NEW isC \in BOOLEAN
    PROVE  /\ Sent(s, c, isC) \in Seq(StreamItems)
           /\ \A k \in 1..Len(Sent(s, c, isC)) :
                 LET x == Sent(s, c, isC)[k] IN
                 \/ x.kind = "row" /\ x.of = s /\ RowOf(x) \in Subtree(s, c)
                 \/ x.kind = "keyed" /\ isC
                 \/ x.kind = "done" /\ x.of = s /\ x.n = shape /\ k = Len(Sent(s, c, isC))
           /\ \A r \in Subtree(s, c) : \E k \in 1..Len(Sent(s, c, isC)) :
                 /\ k < Len(Sent(s, c, isC))
                 /\ Sent(s, c, isC)[k].kind = "row" /\ RowOf(Sent(s, c, isC)[k]) = r
<1> DEFINE R == RowItems(s, c)
           K == IF isC THEN <<KeyedItem>> ELSE <<>>
           D == <<DoneItem(s, shape)>>
           RK == Joint(R, K)
           all == Joint(RK, D)
           n == RowCount[s]
<1>1. /\ KeyedItem \in StreamItems /\ KeyedItem.kind = "keyed"
      /\ DoneItem(s, shape) \in StreamItems
      /\ DoneItem(s, shape).kind = "done" /\ DoneItem(s, shape).of = s /\ DoneItem(s, shape).n = shape
  <2>1. Nothing \in Contents /\ shape \in Nat /\ Folder \in Items
    BY FilesFinite, SweepAssumption DEF Nothing, Contents, Shapes
  <2> QED
    BY <2>1 DEF KeyedItem, DoneItem, StreamItems
<1>2. R \in Seq(StreamItems) /\ Len(R) = n /\ n \in Nat /\ \A k \in 1..n : R[k] = RowItem(s, c, k)
  BY RowItemsFacts, SweepAssumption
<1>3. K \in Seq(StreamItems) /\ Len(K) \in Nat /\ \A k \in 1..Len(K) : K[k] = KeyedItem /\ isC
  BY <1>1
<1>4. D \in Seq(StreamItems) /\ Len(D) = 1 /\ D[1] = DoneItem(s, shape)
  BY <1>1
<1>5. all = Sent(s, c, isC)
  BY DEF Sent, Joint
<1> HIDE DEF R, K, D
<1>6. RK \in Seq(StreamItems) /\ Len(RK) = n + Len(K)
      /\ (\A k \in 1..n : RK[k] = R[k]) /\ (\A k \in 1..Len(K) : RK[n + k] = K[k])
  <2>1. /\ RK \in Seq(StreamItems) /\ Len(RK) = Len(R) + Len(K)
        /\ \A k \in 1..Len(R) : RK[k] = R[k]
        /\ \A k \in 1..Len(K) : RK[Len(R) + k] = K[k]
    <3> HIDE DEF n
    <3> QED
      BY <1>2, <1>3, JointFacts
  <2> QED
    BY <1>2, <2>1
<1> HIDE DEF RK
<1>7. all \in Seq(StreamItems) /\ Len(all) = n + Len(K) + 1
      /\ (\A k \in 1 .. n + Len(K) : all[k] = RK[k]) /\ all[n + Len(K) + 1] = D[1]
  <2>1. /\ all \in Seq(StreamItems) /\ Len(all) = Len(RK) + Len(D)
        /\ \A k \in 1..Len(RK) : all[k] = RK[k]
        /\ \A k \in 1..Len(D) : all[Len(RK) + k] = D[k]
    <3>1. RK \in Seq(StreamItems) /\ D \in Seq(StreamItems)
      BY <1>4, <1>6
    <3>2. /\ Joint(RK, D) \in Seq(StreamItems) /\ Len(Joint(RK, D)) = Len(RK) + Len(D)
          /\ \A k \in 1..Len(RK) : Joint(RK, D)[k] = RK[k]
          /\ \A k \in 1..Len(D) : Joint(RK, D)[Len(RK) + k] = D[k]
      <4> HIDE DEF all, n
      <4> QED
        BY <3>1, JointFacts
    <3> QED
      BY <3>2
  <2> HIDE DEF all, n
  <2> QED
    BY <1>2, <1>3, <1>4, <1>6, <2>1
<1> HIDE DEF all, n
<1>8. \A k \in 1..n : /\ k \in 1..Len(all) /\ k < Len(all)
                      /\ all[k] = RowItem(s, c, k)
  BY <1>2, <1>3, <1>6, <1>7
<1>9. ASSUME NEW k \in 1..Len(all)
      PROVE  \/ k \in 1..n
             \/ all[k] = KeyedItem /\ isC
             \/ all[k] = DoneItem(s, shape) /\ k = Len(all)
  <2>1. CASE k \in 1..n
    BY <2>1
  <2>2. CASE k \notin 1..n /\ k <= n + Len(K)
    <3>1. k - n \in 1..Len(K) /\ k = n + (k - n) /\ k \in 1 .. n + Len(K)
      BY <1>2, <1>3, <1>7, <2>2
    <3>2. all[k] = K[k - n]
      BY <1>6, <1>7, <3>1
    <3> QED
      BY <1>3, <3>1, <3>2
  <2>3. CASE ~(k <= n + Len(K))
    <3>1. k = n + Len(K) + 1
      BY <1>2, <1>3, <1>7, <2>3
    <3> QED
      BY <1>4, <1>7, <3>1
  <2> QED
    BY <2>1, <2>2, <2>3
<1>10. /\ \A k \in 1..n : /\ RowItem(s, c, k).kind = "row" /\ RowItem(s, c, k).of = s
                          /\ RowOf(RowItem(s, c, k)) \in Subtree(s, c)
       /\ \A r \in Subtree(s, c) : \E k \in 1..n : r = RowOf(RowItem(s, c, k))
  BY RowItemIs DEF n
<1>11. ASSUME NEW k \in 1..Len(all)
       PROVE  LET x == all[k] IN
              \/ x.kind = "row" /\ x.of = s /\ RowOf(x) \in Subtree(s, c)
              \/ x.kind = "keyed" /\ isC
              \/ x.kind = "done" /\ x.of = s /\ x.n = shape /\ k = Len(all)
  BY <1>1, <1>8, <1>9, <1>10
<1>12. ASSUME NEW r \in Subtree(s, c)
       PROVE  \E k \in 1..Len(all) : k < Len(all) /\ all[k].kind = "row" /\ RowOf(all[k]) = r
  BY <1>8, <1>10
<1> QED
  BY <1>5, <1>7, <1>11, <1>12

LEMMA WriteSubtreeInv ==
    ASSUME IInv, NEW s \in Items, WriteSubtree(s)
    PROVE  IInv'
<1> DEFINE c    == run.content[s]
           isC  == s # Folder /\ Emits(c) /\ ~keyed.exists
           more == Sent(s, c, isC)
           n    == Len(stage.stream)
           u    == Upserted(row[s], RecordedAs(s), c)
<1>1. Shapes /\ Cursors(stage) /\ stage \in Stages /\ run \in Runs /\ c \in Contents
      /\ Len(stage.cuts) <= 2 * InFlight /\ n \in Nat /\ stage.landed \in Nat
  BY DEF IInv, StageInv, Shapes, Stages, Runs
<1>2. run.phase \in {"files", "folder"} /\ s \in run.deep /\ c # Nothing
  BY DEF WriteSubtree, IsNext
<1>3. /\ row' = [row EXCEPT ![s] = u]
      /\ subtree' = [subtree EXCEPT ![s] = c]
      /\ found' = {r \in found : r.of # s}
      /\ keyed' = [keyed EXCEPT !.exists = @ \/ isC,
                                !.anchors = IF s # Folder /\ Emits(c) THEN @ \cup {s} ELSE @ \ {s}]
      /\ run' = [run EXCEPT !.deep = @ \ {s}, !.content[s] = Nothing]
      /\ stage' = StreamIs(stage, stage.stream \o more)
      /\ UNCHANGED <<hostVars, dialVars>>
  BY DEF WriteSubtree, StreamIs
<1>4. /\ more \in Seq(StreamItems)
      /\ \A k \in 1..Len(more) :
            \/ more[k].kind = "row" /\ more[k].of = s /\ RowOf(more[k]) \in Subtree(s, c)
            \/ more[k].kind = "keyed" /\ isC
            \/ more[k].kind = "done" /\ more[k].of = s /\ more[k].n = shape /\ k = Len(more)
      /\ \A r \in Subtree(s, c) : \E k \in 1..Len(more) :
            k < Len(more) /\ more[k].kind = "row" /\ RowOf(more[k]) = r
  <2>1. isC \in BOOLEAN
    OBVIOUS
  <2> HIDE DEF c, isC
  <2> QED
    BY <1>1, <1>2, <2>1, SentFacts
<1>5. u \in Rows /\ u.indexed = FALSE
  <2>1. RecordedAs(s) \in Nat
    BY <1>1 DEF RecordedAs, Runs, Items
  <2>2. row[s] \in Rows
    BY <1>1 DEF Shapes
  <2> HIDE DEF c
  <2> QED
    BY <1>1, <2>1, <2>2, RowsAre
<1> HIDE DEF c, isC, more, u
<1>6. run' \in Runs /\ run'.phase = run.phase /\ run'.deep = run.deep \ {s}
  <2>1. [run.content EXCEPT ![s] = Nothing] \in [Items -> Contents]
    BY <1>1 DEF Runs, Nothing, Contents
  <2> QED
    BY <1>1, <1>3, <2>1 DEF Runs
<1>7. keyed' \in Keyeds /\ (keyed.exists => keyed'.exists) /\ (isC => keyed'.exists)
      /\ keyed'.shown = keyed.shown
  <2>1. s # Folder => s \in Files
    BY DEF Items
  <2>2. isC \in BOOLEAN
    BY DEF isC
  <2>3. keyed \in Keyeds
    BY <1>1 DEF Shapes
  <2> QED
    BY <1>3, <2>1, <2>2, <2>3 DEF Keyeds
<1>8. stage' \in Stages /\ Cursors(stage') /\ stage'.cuts = stage.cuts
  BY <1>1, <1>3, <1>4, Appended
<1>9. \A i \in Waiting(stage') :
         \/ i \in Waiting(stage) /\ stage'.stream[i] = stage.stream[i]
         \/ \E k \in 1..Len(more) : i = n + k /\ stage'.stream[i] = more[k]
  BY <1>1, <1>3, <1>4, Appended
<1>10. /\ \A i, r : Ahead(stage, i, r) => Ahead(stage', i, r)
       /\ \A k \in 1..Len(more) : n + k \in Waiting(stage') /\ stage'.stream[n + k] = more[k]
  BY <1>1, <1>3, <1>4, Appended
<1>11. \A i \in Waiting(stage) : stage.stream[i].kind # "keyed" => stage.stream[i].of \in Items \ {s}
  <2>1. \A i \in Waiting(stage) : stage.stream[i] \in StreamItems
    BY <1>1 DEF Waiting, Stages
  <2> QED
    BY <1>2, <2>1 DEF IInv, StageInv, Unwritten, StreamItems
<1>12. \A x \in Items \ {s} : subtree'[x] = subtree[x] /\ row'[x] = row[x]
  BY <1>1, <1>3 DEF Shapes
<1>13. subtree'[s] = c /\ row'[s] = u
  BY <1>1, <1>3 DEF Shapes
<1>14. Shapes'
  <2>1. row' \in [Items -> Rows] /\ subtree' \in [Items -> Contents] /\ found' \subseteq FoundRows
    BY <1>1, <1>3, <1>5 DEF Shapes
  <2> QED
    BY <1>1, <1>3, <1>6, <1>7, <1>8, <2>1 DEF Shapes, hostVars, dialVars
<1>15. Stamped(stage')
  <2>1. \A i \in 1..Len(stage'.stream) :
           \/ i \in 1..Len(stage.stream) /\ stage'.stream[i] = stage.stream[i]
           \/ \E k \in 1..Len(more) : stage'.stream[i] = more[k]
    BY <1>1, <1>3, <1>4, Appended
  <2>2. shape \in 1..ShapeMax
    BY <1>1 DEF Shapes
  <2> QED
    BY <1>4, <2>1, <2>2 DEF Stamped, IInv, StageInv
<1>16. DoneBehindRows(subtree', found', stage')
  <2> SUFFICES ASSUME NEW i \in Waiting(stage'), stage'.stream[i].kind = "done",
                      NEW r \in Subtree(stage'.stream[i].of, subtree'[stage'.stream[i].of])
               PROVE  r \in found' \/ Ahead(stage', i, r)
    BY DEF DoneBehindRows, IsWhole
  <2>1. CASE i \in Waiting(stage) /\ stage'.stream[i] = stage.stream[i]
    <3> DEFINE x == stage.stream[i].of
    <3>1. x \in Items \ {s} /\ stage'.stream[i].of = x
      BY <1>11, <2>1
    <3>2. r \in Subtree(x, subtree[x])
      BY <1>12, <3>1
    <3>3. r \in found \/ Ahead(stage, i, r)
      BY <2>1, <3>2 DEF IInv, StageInv, DoneBehindRows, IsWhole
    <3>4. r.of = x
      BY <3>2, RowFacts
    <3> QED
      BY <1>3, <1>10, <3>1, <3>3, <3>4
  <2>2. CASE \E k \in 1..Len(more) : i = n + k /\ stage'.stream[i] = more[k]
    <3>1. stage'.stream[i].of = s /\ i = n + Len(more)
      BY <1>4, <2>2
    <3>2. r \in Subtree(s, c)
      BY <1>13, <3>1
    <3>3. PICK k \in 1..Len(more) : k < Len(more) /\ more[k].kind = "row" /\ RowOf(more[k]) = r
      BY <1>4, <3>2
    <3>4. n + k \in Waiting(stage') /\ stage'.stream[n + k] = more[k]
      BY <1>10
    <3>5. n + k < i
      BY <1>1, <1>4, <3>1, <3>3
    <3> QED
      BY <3>3, <3>4, <3>5 DEF Ahead
  <2> QED
    BY <1>9, <2>1, <2>2
<1>17. RowsCurrent(subtree', stage')
  <2> SUFFICES ASSUME NEW i \in Waiting(stage'), stage'.stream[i].kind = "row"
               PROVE  RowOf(stage'.stream[i]) \in Subtree(stage'.stream[i].of, subtree'[stage'.stream[i].of])
    BY DEF RowsCurrent
  <2>1. CASE i \in Waiting(stage) /\ stage'.stream[i] = stage.stream[i]
    BY <1>11, <1>12, <2>1 DEF IInv, StageInv, RowsCurrent
  <2>2. CASE \E k \in 1..Len(more) : i = n + k /\ stage'.stream[i] = more[k]
    BY <1>4, <1>13, <2>2
  <2> QED
    BY <1>9, <2>1, <2>2
<1>18. KeyedCurrent(keyed', stage') /\ Unwritten(run'.deep, stage')
  BY SMTT(40), <1>4, <1>6, <1>7, <1>9 DEF KeyedCurrent, Unwritten, IInv, StageInv
<1>19. Reembedding' /\ StageAtWork'
  BY <1>2, <1>6 DEF Reembedding, StageAtWork
<1>20. IndexedIsSearchable'
  <2> SUFFICES ASSUME ~Pending, NEW x \in Items, Deep(x)'
               PROVE  Subtree(x, subtree'[x]) \subseteq found'
    BY <1>3 DEF IndexedIsSearchable, Pending, dialVars
  <2>1. x # s
    BY <1>5, <1>13 DEF Deep
  <2>2. Subtree(x, subtree[x]) \subseteq found
    BY <1>12, <2>1 DEF Deep, IInv, StoreInv, IndexedIsSearchable
  <2> QED
    BY <1>3, <1>12, <2>1, <2>2, RowFacts
<1>21. NoStrayRows'
  <2>1. \A r \in found' : \E x \in Items : r \in Subtree(x, subtree'[x])
    <3> SUFFICES ASSUME NEW r \in found' PROVE \E x \in Items : r \in Subtree(x, subtree'[x])
      OBVIOUS
    <3>1. PICK x \in Items : r \in Subtree(x, subtree[x])
      BY <1>3 DEF IInv, StoreInv, NoStrayRows
    <3>2. x # s
      BY <1>3, <3>1, RowFacts
    <3> QED
      BY <1>12, <3>1, <3>2
  <2> QED
    BY <1>7, <2>1 DEF NoStrayRows, IInv, StoreInv
<1> QED
  BY <1>1, <1>3, <1>8, <1>14, <1>15, <1>16, <1>17, <1>18, <1>19, <1>20, <1>21
  DEF IInv, StageInv, StoreInv, dialVars

LEMMA RemoveVanishedInv ==
    ASSUME IInv, NEW s \in Items, RemoveVanished(s)
    PROVE  IInv'
<1>1. stage' = NoStage /\ run' = run /\ run.phase = "reconciling"
  BY DEF RemoveVanished, IInv, StageAtWork
<1>2. /\ row' = [row EXCEPT ![s] = NoRow]
      /\ subtree' = [subtree EXCEPT ![s] = Nothing]
      /\ found' = {r \in found : r.of # s}
      /\ keyed' = [keyed EXCEPT !.anchors = @ \ {s}]
      /\ UNCHANGED <<hostVars, dialVars>>
  BY DEF RemoveVanished
<1>3. StageInv' /\ Reembedding' /\ StageAtWork'
  BY <1>1, NoStageInv
<1>4. NoRow \in Rows /\ NoRow.indexed = FALSE /\ Nothing \in Contents
  <2>1. row[s] \in Rows
    BY DEF IInv, Shapes
  <2> QED
    BY <2>1, RowsAre DEF Nothing, Contents
<1>5. keyed' \in Keyeds /\ keyed'.exists = keyed.exists /\ keyed'.shown = keyed.shown
  BY <1>2 DEF IInv, Shapes, Keyeds
<1>6. row' \in [Items -> Rows] /\ subtree' \in [Items -> Contents] /\ found' \subseteq FoundRows
      /\ (\A x \in Items \ {s} : subtree'[x] = subtree[x] /\ row'[x] = row[x])
      /\ subtree'[s] = Nothing /\ row'[s] = NoRow
  BY <1>2, <1>4 DEF IInv, Shapes
<1>7. Shapes'
  BY <1>1, <1>2, <1>5, <1>6, NoStageFacts DEF IInv, Shapes, hostVars, dialVars
<1>8. IndexedIsSearchable'
  <2> SUFFICES ASSUME ~Pending, NEW x \in Items, Deep(x)'
               PROVE  Subtree(x, subtree'[x]) \subseteq found'
    BY <1>2 DEF IndexedIsSearchable, Pending, dialVars
  <2>1. x # s
    BY <1>4, <1>6 DEF Deep
  <2>2. Subtree(x, subtree[x]) \subseteq found
    BY <1>6, <2>1 DEF Deep, IInv, StoreInv, IndexedIsSearchable
  <2> QED
    BY <1>2, <1>6, <2>1, <2>2, RowFacts
<1>9. NoStrayRows'
  <2>1. \A r \in found' : \E x \in Items : r \in Subtree(x, subtree'[x])
    <3> SUFFICES ASSUME NEW r \in found' PROVE \E x \in Items : r \in Subtree(x, subtree'[x])
      OBVIOUS
    <3>1. PICK x \in Items : r \in Subtree(x, subtree[x])
      BY <1>2 DEF IInv, StoreInv, NoStrayRows
    <3>2. x # s
      BY <1>2, <3>1, RowFacts
    <3> QED
      BY <1>6, <3>1, <3>2
  <2> QED
    BY <1>5, <2>1 DEF NoStrayRows, IInv, StoreInv
<1> QED
  BY <1>2, <1>3, <1>7, <1>8, <1>9 DEF IInv, StoreInv, dialVars

-----------------------------------------------------------------------------
(* The theorems *)

LEMMA InitInv ==
    ASSUME Init
    PROVE  IInv
<1>1. stage = NoStage /\ run = NoRun /\ found = {} /\ keyed = NoKeyed
      /\ row = [s \in Items |-> NoRow] /\ subtree = [s \in Items |-> Nothing]
  BY DEF Init
<1>2. NoRow \in Rows /\ NoRow.indexed = FALSE /\ Nothing \in Contents
  <2>1. 0 \in 0..ShapeMax /\ Nothing \in Contents
    BY SweepAssumption DEF Nothing, Contents
  <2> QED
    BY <2>1 DEF NoRow, Rows, NoStamp
<1>3. Shapes
  <2>1. NoKeyed \in Keyeds
    BY DEF NoKeyed, Keyeds
  <2>2. row \in [Items -> Rows] /\ subtree \in [Items -> Contents]
    BY <1>1, <1>2
  <2>3. version \in [Files -> Nat] /\ gone \subseteq Files
        /\ shape \in 1..ShapeMax /\ identity \in 1..IdentityMax /\ built \in 1..IdentityMax
        /\ \A f \in Files : version[f] <= VersionMax[f]
    <3>1. VersionMax \in [Files -> Nat]
      BY Zenon, SweepAssumption
    <3>2. ShapeMax \in Nat \ {0} /\ IdentityMax \in Nat \ {0}
      BY Zenon, SweepAssumption
    <3> QED
      BY <3>1, <3>2 DEF Init
  <2> QED
    BY <1>1, <2>1, <2>2, <2>3, NoStageFacts, NoRunFacts DEF Shapes
<1>4. StageInv /\ Reembedding /\ StageAtWork
  BY <1>1, NoStageFacts, NoRunFacts DEF StageInv, Reembedding, StageAtWork
<1>5. StoreInv
  <2>1. \A s \in Items : ~Deep(s)
    BY <1>1, <1>2 DEF Deep
  <2> QED
    BY <1>1, <2>1 DEF StoreInv, IndexedIsSearchable, NoStrayRows, NoKeyed
<1> QED
  BY <1>3, <1>4, <1>5, SweepAssumption DEF IInv, Init

LEMMA ProceedInv ==
    ASSUME IInv, Proceed
    PROVE  IInv'
<1>1. CASE BeginReembed \/ FinishReembed \/ NothingToReembed \/ Enumerate \/ Decide
  BY <1>1, BeginReembedInv, FinishReembedInv, NothingToReembedInv, EnumerateInv, DecideInv
<1>2. CASE \E s \in Items : PushTarget(s) \/ WriteSubtree(s) \/ RemoveVanished(s)
  BY <1>2, PushTargetInv, WriteSubtreeInv, RemoveVanishedInv
<1>3. CASE \E f \in Files : ReadContent(f)
  BY <1>3, ReadContentInv
<1>4. CASE SubmitBatch \/ SubmitRest \/ FailWithStage
  BY <1>4, SubmitBatchInv, SubmitRestInv, FailInv DEF FailWithStage
<1>5. CASE EndFiles \/ AllReconciled \/ DecideFolder \/ EndFolder \/ Finalize
  BY <1>5, EndFilesInv, AllReconciledInv, DecideFolderInv, EndFolderInv, FinalizeInv
<1> QED
  BY <1>1, <1>2, <1>3, <1>4, <1>5 DEF Proceed

\* Every step keeps the invariant: what waits in the buffer and the stage
\* makes up for what a source lacks.
THEOREM NextInv == IInv /\ [Next]_vars => IInv'
<1> SUFFICES ASSUME IInv, [Next]_vars PROVE IInv'
  OBVIOUS
<1>1. CASE \E dials \in Dials : Begin(dials)
  BY <1>1, BeginInv
<1>2. CASE Proceed
  BY <1>2, ProceedInv
<1>3. CASE Land
  BY <1>3, LandBatchInv, EmbedBatchInv DEF Land
<1>4. CASE Stop \/ StageFails
  BY <1>4, StopPassInv, StopEarlyInv, StageFailsInv DEF Stop
<1>5. CASE \E f \in Files : Change(f) \/ Delete(f)
  BY <1>5, ChangeInv
<1>6. CASE \E sh \in 1..ShapeMax, id \in 1..IdentityMax : Restart(sh, id)
  BY <1>6, RestartInv
<1>7. CASE UNCHANGED vars
  <2>1. UNCHANGED <<hostVars, dialVars, storeVars, run, stage>>
    BY <1>7 DEF vars, hostVars, dialVars, storeVars
  <2> QED
    BY <2>1, HostMoves DEF hostVars, IInv, Shapes
<1> QED
  BY <1>1, <1>2, <1>3, <1>4, <1>5, <1>6, <1>7 DEF Next

LEMMA AlwaysInv == Spec => []IInv
<1>1. Init => IInv
  BY InitInv
<1> QED
  BY <1>1, NextInv, PTL DEF Spec

LEMMA InvMeans ==
    ASSUME IInv
    PROVE  TypeOK /\ IndexedIsSearchable /\ NoStrayRows
<1>1. stage.landed <= Submitted /\ Submitted <= Len(stage.stream)
  BY SubmittedInside DEF IInv, StageInv
<1> QED
  BY <1>1 DEF IInv, StoreInv, StageInv, Shapes, TypeOK, Runs, Stages, Keyeds

\* The variables keep their shapes, the cursors of the stage stay in its
\* stream, and the stage takes no more batches than it has room for.
THEOREM TypeCorrect == Spec => []TypeOK
BY AlwaysInv, InvMeans, PTL

\* A source that is marked indexed has all its rows in the search tables, or
\* searches are refused: through batches that embed out of order, failures of
\* planner and stage, stops, interrupted re-embeds and crashes.
THEOREM MarkedAreSearchable == Spec => []IndexedIsSearchable
BY AlwaysInv, InvMeans, PTL

\* Searches find only rows of fragments that are there, also when a failed
\* run's last batches land after it.
THEOREM NoRowsAstray == Spec => []NoStrayRows
BY AlwaysInv, InvMeans, PTL

-----------------------------------------------------------------------------
(* The refinement: every step is one of WholeSources *)

MarkedSources == {s \in Items : Deep(s)}

\* A step that leaves what WholeSources speaks of as it is.
LEMMA Unseen ==
    ASSUME UNCHANGED <<dialVars, storeVars>>
    PROVE  UNCHANGED Whole!vars
BY DEF Whole!vars, dialVars, storeVars, Pending, Deep

LEMMA ReplaceMaps ==
    ASSUME IInv, NEW s \in Items,
           \E c : subtree' = [subtree EXCEPT ![s] = c],
           found' = {r \in found : r.of # s},
           \E r : r.indexed = FALSE /\ row' = [row EXCEPT ![s] = r],
           UNCHANGED dialVars
    PROVE  Whole!Replace(s)
<1>1. subtree' = [subtree EXCEPT ![s] = subtree'[s]]
  BY DEF IInv, Shapes
<1>2. found' = found \ Subtree(s, subtree[s])
  <2>1. \A r \in found : r.of = s => r \in Subtree(s, subtree[s])
    BY RowFacts DEF IInv, StoreInv, NoStrayRows
  <2>2. \A r \in Subtree(s, subtree[s]) : r.of = s
    BY RowFacts
  <2> QED
    BY <2>1, <2>2
<1>3. MarkedSources' = MarkedSources \ {s}
  <2>1. \A x \in Items \ {s} : row'[x] = row[x]
    BY DEF IInv, Shapes
  <2>2. row'[s].indexed = FALSE
    BY DEF IInv, Shapes
  <2> QED
    BY <2>1, <2>2 DEF MarkedSources, Deep
<1>4. Pending' = Pending
  BY DEF Pending, dialVars
<1> QED
  BY <1>1, <1>2, <1>3, <1>4 DEF Whole!Replace, Whole!Of, MarkedSources

LEMMA UnmarkMaps ==
    ASSUME UNCHANGED <<dialVars, subtree, found>>, \A s \in Items : Deep(s)' => Deep(s)
    PROVE  Whole!Unmark
<1>1. Pending' = Pending
  BY DEF Pending, dialVars
<1>2. MarkedSources' \subseteq MarkedSources
  BY DEF MarkedSources
<1> QED
  BY <1>1, <1>2 DEF Whole!Unmark, MarkedSources

\* A batch shows rows of what is there, and marks sources that are whole.
LEMMA LandMaps ==
    ASSUME IInv, IInv', LandBatch
    PROVE  Whole!Show
<1> DEFINE e == Head(stage.cuts)  b == Batch(e)
<1>1. found \subseteq found' /\ subtree' = subtree /\ Pending' = Pending
  BY DEF LandBatch, Landed, Pending, dialVars
<1>2. \A r \in found' : \E s \in Items : r \in Subtree(s, subtree[s])
  BY <1>1 DEF IInv, StoreInv, NoStrayRows
<1>3. \A s \in Items :
         row'[s] = IF Completed(b, s) /\ row[s].known THEN Marked(row[s], StampOf(b, s)) ELSE row[s]
  BY DEF LandBatch, Landed, Marked
<1>4. ASSUME NEW s \in Items
      PROVE  /\ Deep(s) => Deep(s)'
             /\ Deep(s)' /\ ~Deep(s) => Subtree(s, subtree[s]) \subseteq found'
  <2>1. CASE Completed(b, s) /\ row[s].known
    <3>1. Subtree(s, subtree[s]) \subseteq found'
      BY <2>1, CompletedIsWhole
    <3>2. StampOf(b, s) \in 1..ShapeMax
      <4>0. Shapes /\ Stamped(stage) /\ Cursors(stage) /\ stage \in Stages /\ stage.cuts # <<>>
        BY DEF IInv, StageInv, LandBatch, Shapes
      <4>1. Shapes /\ Stamped(stage) /\ e \in Nat /\ e <= Len(stage.stream)
        BY <4>0 DEF Cursors, Stages
      <4> HIDE DEF e
      <4> QED
        BY <2>1, <4>1, StampIs
    <3>3. row[s] \in Rows
      BY DEF IInv, Shapes
    <3>4. Deep(s)'
      <4> DEFINE st == StampOf(b, s)  m == Marked(row[s], st)
      <4>1. m.indexed = TRUE /\ m.stamp = st
        <5> HIDE DEF st
        <5> QED
          BY <3>3 DEF Marked, Rows
      <4>2. st # NoStamp
        <5> HIDE DEF b
        <5> QED
          BY <3>2, SweepAssumption DEF NoStamp
      <4>3. row'[s] = m
        <5> HIDE DEF b
        <5> QED
          BY <1>3, <2>1
      <4> HIDE DEF m, st
      <4> QED
        BY <4>1, <4>2, <4>3 DEF Deep
    <3> QED
      BY <3>1, <3>4
  <2>2. CASE ~(Completed(b, s) /\ row[s].known)
    <3> HIDE DEF b
    <3> QED
      BY <1>3, <2>2 DEF Deep
  <2> QED
    BY <2>1, <2>2
<1> HIDE DEF b, e
<1>5. MarkedSources \subseteq MarkedSources'
      /\ \A s \in MarkedSources' \ MarkedSources : Subtree(s, subtree'[s]) \subseteq found'
  BY <1>1, <1>4 DEF MarkedSources
<1> QED
  BY <1>1, <1>2, <1>5 DEF Whole!Show, Whole!Of, MarkedSources

LEMMA RestartMaps ==
    ASSUME IInv, NEW sh \in 1..ShapeMax, NEW id \in 1..IdentityMax, Restart(sh, id)
    PROVE  Whole!Refuse \/ UNCHANGED Whole!vars
<1>1. UNCHANGED <<subtree, found>> /\ MarkedSources' = MarkedSources
  BY DEF Restart, storeVars, MarkedSources, Deep
<1>2. Pending => Pending'
  BY DEF Restart, IInv, Shapes, Pending
<1>3. CASE Pending'
  BY <1>1, <1>3 DEF Whole!Refuse, MarkedSources
<1>4. CASE ~Pending'
  <2>1. Pending' = Pending
    BY <1>2, <1>4 DEF Pending
  <2> QED
    BY <1>1, <2>1 DEF Whole!vars, MarkedSources
<1> QED
  BY <1>3, <1>4

LEMMA ProceedMaps ==
    ASSUME IInv, IInv', Proceed
    PROVE  Whole!Next \/ UNCHANGED Whole!vars
<1>1. CASE BeginReembed
  <2>1. Pending /\ Pending' = Pending /\ found' = {} /\ subtree' = subtree
        /\ MarkedSources' = MarkedSources
    BY <1>1 DEF BeginReembed, Pending, dialVars, MarkedSources, Deep
  <2>2. Whole!Empty
    BY <2>1 DEF Whole!Empty, MarkedSources
  <2> QED
    BY <2>2 DEF Whole!Next
<1>2. CASE FinishReembed
  <2>1. ~Pending' /\ found' = found /\ subtree' = subtree /\ MarkedSources' = MarkedSources
    BY <1>2 DEF FinishReembed, Pending, storeVars, MarkedSources, Deep, IInv, Shapes
  <2>2. \A s \in MarkedSources : Subtree(s, subtree[s]) \subseteq found
    BY <2>1 DEF IInv, StoreInv, IndexedIsSearchable, MarkedSources
  <2>3. Whole!Answer
    BY <2>1, <2>2 DEF Whole!Answer, Whole!Whole, Whole!Of, MarkedSources
  <2> QED
    BY <2>3 DEF Whole!Next
<1>3. CASE Decide
  <2>1. Whole!Unmark
    BY <1>3, DecideRow, UnmarkMaps DEF Decide
  <2> QED
    BY <2>1 DEF Whole!Next
<1>4. CASE DecideFolder
  <2>1. row' = row \/ row' = [row EXCEPT ![Folder] = CatalogOnly(row[Folder], 0)]
    BY <1>4 DEF DecideFolder
  <2>2. Folder \in Items /\ row \in [Items -> Rows]
    BY FilesFinite DEF IInv, Shapes
  <2>3. CatalogOnly(row[Folder], 0).stamp = NoStamp
    BY <2>2, RowsAre
  <2>4. \A s \in Items : Deep(s)' => Deep(s)
    BY <2>1, <2>2, <2>3 DEF Deep
  <2>5. Whole!Unmark
    BY <1>4, <2>4, UnmarkMaps DEF DecideFolder
  <2> QED
    BY <2>5 DEF Whole!Next
<1>5. ASSUME NEW s \in Items, WriteSubtree(s)
      PROVE  Whole!Next
  <2> DEFINE u == Upserted(row[s], RecordedAs(s), run.content[s])
  <2>1. row[s] \in Rows /\ RecordedAs(s) \in Nat /\ run.content[s] \in Contents
    BY DEF IInv, Shapes, Runs, RecordedAs, Items
  <2>2. u.indexed = FALSE
    <3> DEFINE c == run.content[s]  m == RecordedAs(s)
    <3>1. c \in Contents /\ m \in Nat
      BY <2>1
    <3>2. Upserted(row[s], m, c).indexed = FALSE
      <4> HIDE DEF c, m
      <4> QED
        BY <2>1, <3>1, RowsAre
    <3> QED
      BY <3>2
  <2>3. row' = [row EXCEPT ![s] = u]
    BY <1>5 DEF WriteSubtree
  <2> HIDE DEF u
  <2>4. Whole!Replace(s)
    BY <1>5, <2>2, <2>3, ReplaceMaps DEF WriteSubtree
  <2> QED
    BY <2>4 DEF Whole!Next
<1>6. ASSUME NEW s \in Items, RemoveVanished(s)
      PROVE  Whole!Next
  <2>1. NoRow.indexed = FALSE
    BY DEF NoRow
  <2>2. Whole!Replace(s)
    BY <1>6, <2>1, ReplaceMaps DEF RemoveVanished
  <2> QED
    BY <2>2 DEF Whole!Next
<1>7. CASE \/ \E s \in Items : PushTarget(s)
           \/ \E f \in Files : ReadContent(f)
           \/ NothingToReembed \/ Enumerate \/ SubmitBatch \/ SubmitRest \/ FailWithStage
           \/ EndFiles \/ AllReconciled \/ EndFolder
  <2>1. UNCHANGED <<dialVars, storeVars>>
    BY <1>7 DEF PushTarget, ReadContent, Fail, NothingToReembed, Enumerate, SubmitBatch,
                SubmitRest, FailWithStage, EndFiles, AllReconciled, EndFolder
  <2> QED
    BY <2>1, Unseen
<1>8. CASE Finalize
  BY <1>8 DEF Finalize, Whole!vars, dialVars, Pending, Deep
<1> QED
  BY <1>1, <1>2, <1>3, <1>4, <1>5, <1>6, <1>7, <1>8 DEF Proceed

LEMMA StepMaps ==
    ASSUME IInv, IInv', [Next]_vars
    PROVE  [Whole!Next]_Whole!vars
<1>1. CASE \E dials \in Dials : Begin(dials)
  BY <1>1, Unseen DEF Begin
<1>2. CASE Proceed
  BY <1>2, ProceedMaps
<1>3. CASE LandBatch
  BY <1>3, LandMaps DEF Whole!Next
<1>4. CASE \E i \in 1..InFlight : EmbedBatch(i)
  BY <1>4, Unseen DEF EmbedBatch
<1>5. CASE Stop \/ StageFails
  BY <1>5, Unseen DEF Stop, StopPass, StopEarly, StageFails
<1>6. CASE \E f \in Files : Change(f) \/ Delete(f)
  BY <1>6, Unseen DEF Change, Delete
<1>7. CASE \E sh \in 1..ShapeMax, id \in 1..IdentityMax : Restart(sh, id)
  BY <1>7, RestartMaps DEF Whole!Next
<1>8. CASE UNCHANGED vars
  BY <1>8, Unseen DEF vars, dialVars, storeVars
<1> QED
  BY <1>1, <1>2, <1>3, <1>4, <1>5, <1>6, <1>7, <1>8 DEF Next, Land

\* The sweep implements WholeSources: to whoever reads the store, batches,
\* stages, runs and their failures amount to sources that are replaced whole,
\* shown row by row and marked only when all of them can be found.
THEOREM SweepImplementsWholeSources == Spec => ImplementsWholeSources
<1>1. Init => Whole!Init
  <2> SUFFICES ASSUME Init PROVE Whole!Init
    OBVIOUS
  <2>1. \A s \in Items : ~Deep(s)
    BY DEF Init, Deep, NoRow
  <2>2. ~Pending
    BY DEF Init, Pending
  <2> QED
    BY <2>1, <2>2 DEF Init, Whole!Init, Nothing
<1>2. IInv /\ IInv' /\ [Next]_vars => [Whole!Next]_Whole!vars
  BY StepMaps
<1> QED
  BY <1>1, <1>2, AlwaysInv, PTL DEF Spec, ImplementsWholeSources, Whole!Spec

-----------------------------------------------------------------------------
(* Nothing stale looks clean *)

\* The completion of f waits.
Completing(f) ==
    \E i \in Waiting(stage) : stage.stream[i].kind = "done" /\ stage.stream[i].of = f

\* Version v of f, or one before it, looks like m.
Told(f, m, v) == \E u \in 0..v : Looks[f][u] = m

\* And so does a later one, or one before that.
LEMMA ToldLater ==
    ASSUME NEW f, NEW m, NEW v \in Nat, NEW w \in Nat, v <= w, Told(f, m, v)
    PROVE  Told(f, m, w)
BY DEF Told

\* Nothing is told of a file that was not listed.
LEMMA UnlistedIsTold ==
    ASSUME NEW f \in Files, NEW v \in Nat
    PROVE  Told(f, 0, v)
<1>1. 0 \in 0..v /\ VersionMax[f] \in Nat
  BY SweepAssumption
<1>2. 0 \in 0..VersionMax[f]
  BY <1>1
<1>3. Looks[f][0] = 0
  BY <1>2, SweepAssumption
<1> QED
  BY <1>1, <1>3 DEF Told

\* The subtree of f is made from a version no older than one that looks like
\* the one recorded.
IsCurrent(f) ==
    \E v \in Nat : /\ subtree[f] = {<<f, v>>}
                   /\ Told(f, row[f].modified, v) /\ v <= version[f]

FilesFresh == \A f \in Files : Deep(f) \/ Completing(f) => IsCurrent(f)

\* What was read of f is no older than what was enumerated.
ReadsFresh ==
    \A f \in Files :
        /\ Told(f, run.seen[f], version[f])
        /\ run.content[f] # Nothing =>
             \E v \in Nat : run.content[f] = {<<f, v>>} /\ Told(f, run.seen[f], v) /\ v <= version[f]

NotYetRead ==
    run.phase \in {"idle", "preparing", "reembedding", "enumerating"} =>
        \A f \in Files : run.content[f] = Nothing

FreshInv == FilesFresh /\ ReadsFresh /\ NotYetRead

LEMMA FilesStayFresh ==
    ASSUME Shapes, Shapes', FilesFresh, \A f \in Files : version[f] <= version'[f],
           \A f \in Files : Deep(f)' \/ Completing(f)' =>
               /\ Deep(f) \/ Completing(f)
               /\ row'[f].modified = row[f].modified /\ subtree'[f] = subtree[f]
    PROVE  FilesFresh'
<1> SUFFICES ASSUME NEW f \in Files, Deep(f)' \/ Completing(f)'
             PROVE  IsCurrent(f)'
  BY DEF FilesFresh
<1>1. PICK v \in Nat : subtree[f] = {<<f, v>>} /\ Told(f, row[f].modified, v) /\ v <= version[f]
  BY DEF FilesFresh, IsCurrent
<1>2. version[f] \in Nat /\ version'[f] \in Nat
  BY DEF Shapes
<1>3. v <= version'[f]
  BY <1>1, <1>2
<1> QED
  BY <1>1, <1>3 DEF IsCurrent

LEMMA ReadsStayFresh ==
    ASSUME Shapes, Shapes', ReadsFresh, NotYetRead, \A f \in Files : version[f] <= version'[f],
           run'.seen = run.seen,
           \A f \in Files : run'.content[f] = run.content[f] \/ run'.content[f] = Nothing,
           \/ run'.phase \notin {"idle", "preparing", "reembedding", "enumerating"}
           \/ run.phase \in {"idle", "preparing", "reembedding", "enumerating"}
    PROVE  ReadsFresh' /\ NotYetRead'
<1>1. \A f \in Files : version[f] \in Nat /\ version'[f] \in Nat /\ run.seen[f] \in Nat
  BY DEF Shapes, Runs
<1>2. ASSUME NEW f \in Files
      PROVE  /\ Told(f, run'.seen[f], version'[f])
             /\ run'.content[f] # Nothing =>
                  \E v \in Nat : run'.content[f] = {<<f, v>>} /\ Told(f, run'.seen[f], v) /\ v <= version'[f]
  <2>1. Told(f, run'.seen[f], version'[f])
    BY <1>1, ToldLater DEF ReadsFresh
  <2>2. ASSUME run'.content[f] # Nothing
        PROVE  \E v \in Nat : run'.content[f] = {<<f, v>>} /\ Told(f, run'.seen[f], v) /\ v <= version'[f]
    <3>1. PICK v \in Nat : run.content[f] = {<<f, v>>} /\ Told(f, run.seen[f], v) /\ v <= version[f]
      BY <2>2 DEF ReadsFresh
    <3> QED
      BY <1>1, <2>2, <3>1
  <2> QED
    BY <2>1, <2>2
<1>3. NotYetRead'
  BY DEF NotYetRead
<1> QED
  BY <1>2, <1>3 DEF ReadsFresh

\* After a run there is nothing read.
LEMMA NoRunIsFresh ==
    ASSUME Shapes', run' = NoRun
    PROVE  ReadsFresh' /\ NotYetRead'
<1>1. \A f \in Files : NoRun.content[f] = Nothing /\ NoRun.seen[f] = 0
  BY FilesFinite DEF NoRun, NotListed
<1>2. \A f \in Files : version'[f] \in Nat
  BY DEF Shapes
<1> QED
  BY <1>1, <1>2, UnlistedIsTold DEF ReadsFresh, NotYetRead

\* A step after which nothing waits, and that leaves the store alone.
LEMMA QuietIsFresh ==
    ASSUME Shapes, Shapes', FilesFresh, stage' = NoStage, UNCHANGED <<hostVars, row, subtree>>
    PROVE  FilesFresh'
<1>1. \A f \in Files : ~Completing(f)'
  BY NoStageFacts DEF Completing
<1>2. \A f \in Files : version[f] \in Nat
  BY DEF Shapes
<1>3. \A f \in Files : version[f] <= version'[f]
  BY <1>2 DEF hostVars
<1>4. \A f \in Files : Deep(f)' => Deep(f)
  BY DEF Deep
<1> QED
  BY <1>1, <1>3, <1>4, FilesStayFresh

\* A step of the run between passes.
LEMMA PhaseIsFresh ==
    ASSUME IInv, IInv', FreshInv,
           NothingToReembed \/ EndFiles \/ EndFolder \/ AllReconciled \/ FinishReembed
    PROVE  FreshInv'
<1>1. Shapes /\ Shapes' /\ FilesFresh /\ ReadsFresh /\ NotYetRead /\ run \in Runs
  BY DEF IInv, FreshInv, Shapes
<1>2. stage' = NoStage
  BY DEF IInv, StageAtWork, NothingToReembed, EndFiles, EndFolder, AllReconciled, FinishReembed
<1>3. UNCHANGED <<hostVars, row, subtree>>
  BY DEF NothingToReembed, EndFiles, EndFolder, AllReconciled, FinishReembed, storeVars
<1>4. run'.seen = run.seen /\ run'.content = run.content
      /\ \/ run'.phase \notin {"idle", "preparing", "reembedding", "enumerating"}
         \/ run.phase \in {"idle", "preparing", "reembedding", "enumerating"}
  BY <1>1 DEF NothingToReembed, EndFiles, EndFolder, AllReconciled, FinishReembed, Runs
<1>5. \A f \in Files : version[f] <= version'[f]
  BY <1>1, <1>3 DEF hostVars, Shapes
<1>6. FilesFresh'
  BY <1>1, <1>2, <1>3, QuietIsFresh
<1>7. ReadsFresh' /\ NotYetRead'
  BY <1>1, <1>4, <1>5, ReadsStayFresh
<1> QED
  BY <1>6, <1>7 DEF FreshInv

\* A step that ends a run, or starts one.
LEMMA EndIsFresh ==
    ASSUME IInv, IInv', FreshInv,
           \/ Finalize \/ StopEarly \/ \E dials \in Dials : Begin(dials)
           \/ \E sh \in 1..ShapeMax, id \in 1..IdentityMax : Restart(sh, id)
    PROVE  FreshInv'
<1>1. Shapes /\ Shapes' /\ FilesFresh
  BY DEF IInv, FreshInv
<1>2. stage' = NoStage
  BY DEF IInv, StageAtWork, Finalize, StopEarly, Begin, Restart
<1>3. UNCHANGED <<hostVars, row, subtree>>
  BY DEF Finalize, StopEarly, Begin, Restart, storeVars
<1>4. FilesFresh'
  BY <1>1, <1>2, <1>3, QuietIsFresh
<1>5. run'.content = NoRun.content /\ run'.seen = NoRun.seen
  BY DEF Finalize, StopEarly, Begin, Restart, NoRun
<1>6. \A f \in Files : run'.content[f] = Nothing /\ run'.seen[f] = 0
  BY <1>5, FilesFinite DEF NoRun, NotListed
<1>7. \A f \in Files : version'[f] \in Nat
  BY <1>1 DEF Shapes
<1>8. ReadsFresh' /\ NotYetRead'
  BY <1>6, <1>7, UnlistedIsTold DEF ReadsFresh, NotYetRead
<1> QED
  BY <1>4, <1>8 DEF FreshInv

\* What waits is some of what waited.
LEMMA LessWaits ==
    ASSUME \A i \in Waiting(stage') : i \in Waiting(stage) /\ stage'.stream[i] = stage.stream[i]
    PROVE  \A f : Completing(f)' => Completing(f)
BY DEF Completing

LEMMA StageIsFresh ==
    ASSUME IInv, IInv', FreshInv,
           SubmitBatch \/ SubmitRest \/ StageFails \/ \E i \in 1..InFlight : EmbedBatch(i)
    PROVE  FreshInv'
<1>1. Shapes /\ Shapes' /\ FilesFresh /\ ReadsFresh /\ NotYetRead /\ stage \in Stages
  BY DEF IInv, FreshInv, Shapes
<1>2. UNCHANGED <<hostVars, storeVars, run>>
  BY DEF SubmitBatch, SubmitRest, StageFails, EmbedBatch
<1>3. stage' = NoStage \/ (stage'.stream = stage.stream /\ stage'.landed = stage.landed)
  BY <1>1 DEF SubmitBatch, SubmitRest, StageFails, EmbedBatch, Stages
<1>4. \A i \in Waiting(stage') : i \in Waiting(stage) /\ stage'.stream[i] = stage.stream[i]
  BY <1>3, NoStageFacts DEF Waiting
<1>5. \A f \in Files : version[f] <= version'[f]
  BY <1>1, <1>2 DEF hostVars, Shapes
<1>6. \A f \in Files : Deep(f)' => Deep(f)
  BY <1>2 DEF Deep, storeVars
<1>7. row' = row /\ subtree' = subtree
  BY <1>2 DEF storeVars
<1>8. FilesFresh'
  BY <1>1, <1>4, <1>5, <1>6, <1>7, LessWaits, FilesStayFresh
<1>9. ReadsFresh' /\ NotYetRead'
  BY <1>1, <1>2, <1>5, ReadsStayFresh
<1> QED
  BY <1>8, <1>9 DEF FreshInv

LEMMA LandIsFresh ==
    ASSUME IInv, IInv', FreshInv, LandBatch
    PROVE  FreshInv'
<1> DEFINE e == Head(stage.cuts)  b == Batch(e)
<1>1. Shapes /\ Shapes' /\ FilesFresh /\ ReadsFresh /\ NotYetRead /\ stage \in Stages
      /\ Cursors(stage) /\ stage.cuts # <<>>
  BY DEF IInv, FreshInv, Shapes, StageInv, LandBatch
<1>2. UNCHANGED <<hostVars, subtree, run>> /\ stage' = AfterLanding(e)
      /\ \A f \in Items :
           row'[f] = IF Completed(b, f) /\ row[f].known THEN Marked(row[f], StampOf(b, f)) ELSE row[f]
  BY DEF LandBatch, Landed, Marked
<1>3. e \in Nat /\ stage.landed <= e /\ e <= Len(stage.stream) /\ stage.landed \in Nat
      /\ Len(stage.stream) \in Nat
  BY <1>1 DEF Cursors, Stages
<1>4. stage' = NoStage \/ (stage'.stream = stage.stream /\ stage'.landed = e)
  <2>1. LandedTo(stage, e).stream = stage.stream /\ LandedTo(stage, e).landed = e
    <3> HIDE DEF e
    <3> QED
      BY <1>1, <1>3, StageLandedTo
  <2> QED
    BY <1>2, <2>1 DEF AfterLanding, LandedTo
<1>5. \A i \in Waiting(stage') : i \in Waiting(stage) /\ stage'.stream[i] = stage.stream[i]
  <2> HIDE DEF e
  <2> QED
    BY <1>3, <1>4, NoStageFacts DEF Waiting
<1>6. \A f \in Files : version[f] <= version'[f]
  BY <1>1, <1>2 DEF hostVars, Shapes
<1>7. ASSUME NEW f \in Files
      PROVE  /\ row'[f].modified = row[f].modified
             /\ Deep(f)' => Deep(f) \/ Completing(f)
  <2>1. row[f] \in Rows /\ f \in Items
    BY <1>1, FilesFinite DEF Shapes
  <2>2. CASE Completed(b, f)
    <3>1. PICK x \in b : x.kind = "done" /\ x.of = f
      BY <2>2 DEF Completed
    <3>2. \E i \in Waiting(stage) : x = stage.stream[i]
      <4> HIDE DEF e
      <4> QED
        BY <1>1, <1>3, <3>1, BatchFacts DEF b
    <3>3. Completing(f)
      BY <3>1, <3>2 DEF Completing
    <3>4. \A st : Marked(row[f], st).modified = row[f].modified
      BY <2>1 DEF Marked, Rows
    <3> HIDE DEF b
    <3> QED
      BY <1>2, <2>1, <3>3, <3>4
  <2>3. CASE ~Completed(b, f)
    <3> HIDE DEF b
    <3> QED
      BY <1>2, <2>1, <2>3 DEF Deep
  <2> QED
    BY <2>2, <2>3
<1>8. FilesFresh'
  BY <1>1, <1>2, <1>5, <1>6, <1>7, LessWaits, FilesStayFresh
<1>9. ReadsFresh' /\ NotYetRead'
  BY <1>1, <1>2, <1>6, ReadsStayFresh
<1> QED
  BY <1>8, <1>9 DEF FreshInv

LEMMA FailIsFresh ==
    ASSUME IInv, IInv', FreshInv, Fail
    PROVE  FreshInv'
<1>1. Shapes /\ Shapes' /\ FilesFresh /\ stage \in Stages /\ Cursors(stage)
  BY DEF IInv, FreshInv, Shapes, StageInv
<1>2. UNCHANGED <<hostVars, storeVars>> /\ run' = NoRun
  BY DEF Fail
<1>3. Submitted \in Nat /\ stage.landed <= Submitted /\ Submitted <= Len(stage.stream)
  BY <1>1, SubmittedInside
<1>4. \A i \in Waiting(stage') : i \in Waiting(stage) /\ stage'.stream[i] = stage.stream[i]
  <2>1. CASE stage' = NoStage
    BY <2>1, NoStageFacts
  <2>2. CASE stage' = Abandoned
    <3> DEFINE s == SubSeq(stage.stream, 1, Submitted)
    <3>1. s \in Seq(StreamItems) /\ Len(s) = Submitted /\ \A i \in 1..Submitted : s[i] = stage.stream[i]
      BY <1>1, <1>3 DEF Stages
    <3>2. stage' = StreamIs(stage, s)
      BY <2>2 DEF Abandoned, StreamIs
    <3> HIDE DEF s
    <3>3. stage'.stream = s /\ stage'.landed = stage.landed
      BY <1>1, <3>1, <3>2, StagesAre
    <3> QED
      BY <1>1, <1>3, <3>1, <3>3 DEF Waiting, Stages
  <2> QED
    BY <2>1, <2>2 DEF Fail
<1>5. \A f \in Files : version[f] <= version'[f]
  BY <1>1, <1>2 DEF hostVars, Shapes
<1>6. row' = row /\ subtree' = subtree /\ \A f \in Files : Deep(f)' => Deep(f)
  BY <1>2 DEF storeVars, Deep
<1>7. FilesFresh'
  BY <1>1, <1>4, <1>5, <1>6, LessWaits, FilesStayFresh
<1> QED
  BY <1>1, <1>2, <1>7, NoRunIsFresh DEF FreshInv

LEMMA HostIsFresh ==
    ASSUME IInv, IInv', FreshInv,
           (\E f \in Files : Change(f) \/ Delete(f)) \/ StopPass \/ UNCHANGED vars
    PROVE  FreshInv'
<1>1. Shapes /\ Shapes' /\ FilesFresh /\ ReadsFresh /\ NotYetRead /\ run \in Runs
  BY DEF IInv, FreshInv, Shapes
<1>2. UNCHANGED <<storeVars, stage>>
  BY DEF Change, Delete, StopPass, vars, storeVars
<1>3. ASSUME NEW f \in Files PROVE version[f] <= version'[f]
  <2>1. version[f] \in Nat
    BY <1>1 DEF Shapes
  <2>2. CASE version' = version
    BY <2>1, <2>2
  <2>3. CASE \E g \in Files : version' = [version EXCEPT ![g] = @ + 1]
    BY <1>1, <2>1, <2>3 DEF Shapes
  <2> QED
    BY <2>2, <2>3 DEF Change, Delete, StopPass, vars, hostVars
<1>4. /\ run'.seen = run.seen /\ run'.phase = run.phase
      /\ \A f \in Files : run'.content[f] = run.content[f] \/ run'.content[f] = Nothing
  <2>1. CASE run' = run
    BY <2>1
  <2>2. CASE StopPass
    <3>1. run'.seen = run.seen /\ run'.phase = run.phase /\ run'.content = NoRun.content
      BY <1>1, <2>2 DEF StopPass, Runs
    <3>2. \A f \in Files : NoRun.content[f] = Nothing
      BY FilesFinite DEF NoRun
    <3> QED
      BY <3>1, <3>2
  <2> QED
    BY <2>1, <2>2 DEF Change, Delete, vars
<1>5. row' = row /\ subtree' = subtree /\ \A f \in Files : Deep(f)' => Deep(f)
  BY <1>2 DEF storeVars, Deep
<1>6. FilesFresh'
  BY <1>1, <1>2, <1>3, <1>5, LessWaits, FilesStayFresh
<1>7. ReadsFresh' /\ NotYetRead'
  BY <1>1, <1>3, <1>4, ReadsStayFresh
<1> QED
  BY <1>6, <1>7 DEF FreshInv

LEMMA EnumerateIsFresh ==
    ASSUME IInv, IInv', FreshInv, Enumerate
    PROVE  FreshInv'
<1>1. Shapes /\ Shapes' /\ FilesFresh /\ run \in Runs
  BY DEF IInv, FreshInv, Shapes
<1>2. stage' = NoStage /\ UNCHANGED <<hostVars, row, subtree>>
  BY DEF Enumerate, IInv, StageAtWork, storeVars
<1>3. FilesFresh'
  BY <1>1, <1>2, QuietIsFresh
<1>4. run'.phase = "deciding" /\ run'.content = run.content
      /\ run'.seen = [f \in Files |-> Look(f)]
  BY <1>1 DEF Enumerate, Runs
<1>5. \A f \in Files : run'.content[f] = Nothing
  BY <1>4 DEF Enumerate, FreshInv, NotYetRead
<1>6. ASSUME NEW f \in Files PROVE Told(f, run'.seen[f], version'[f])
  <2>1. version'[f] = version[f] /\ version[f] \in Nat /\ run'.seen[f] = Look(f)
    BY <1>1, <1>2, <1>4 DEF Shapes, hostVars
  <2>2. CASE f \in gone
    BY <2>1, <2>2, UnlistedIsTold DEF Look, NotListed
  <2>3. CASE f \notin gone
    BY <2>1, <2>3 DEF Look, Told
  <2> QED
    BY <2>2, <2>3
<1> QED
  BY <1>3, <1>4, <1>5, <1>6 DEF FreshInv, ReadsFresh, NotYetRead

LEMMA ReadIsFresh ==
    ASSUME IInv, IInv', FreshInv, NEW f \in Files, ReadContent(f)
    PROVE  FreshInv'
<1>1. CASE f \in gone
  BY <1>1, FailIsFresh DEF ReadContent
<1>2. CASE f \notin gone
  <2>1. Shapes /\ Shapes' /\ FilesFresh /\ ReadsFresh /\ run \in Runs /\ f \in Items
        /\ \A g \in Files : version[g] \in Nat
    BY FilesFinite DEF IInv, FreshInv, Shapes
  <2>2. run' = [run EXCEPT !.content[f] = FileContent(f)] /\ run.phase = "files"
        /\ UNCHANGED <<hostVars, storeVars, stage>>
    BY <1>2 DEF ReadContent
  <2>3. run'.phase = "files" /\ run'.seen = run.seen
        /\ run'.content = [run.content EXCEPT ![f] = FileContent(f)]
    BY <2>1, <2>2 DEF Runs
  <2>4. row' = row /\ subtree' = subtree /\ version' = version /\ \A g \in Files : Deep(g)' => Deep(g)
    BY <2>2 DEF storeVars, hostVars, Deep
  <2>5. \A g \in Files : version[g] <= version'[g]
    BY <2>1, <2>4
  <2>6. FilesFresh'
    BY <2>1, <2>2, <2>4, <2>5, LessWaits, FilesStayFresh
  <2>7. run'.content[f] = {<<f, version[f]>>} /\ \A g \in Files \ {f} : run'.content[g] = run.content[g]
    BY <2>1, <2>3 DEF FileContent, Runs
  <2>8. ReadsFresh'
    <3> SUFFICES ASSUME NEW g \in Files
                 PROVE  /\ Told(g, run'.seen[g], version'[g])
                        /\ run'.content[g] # Nothing =>
                             \E v \in Nat : /\ run'.content[g] = {<<g, v>>}
                                            /\ Told(g, run'.seen[g], v) /\ v <= version'[g]
      BY DEF ReadsFresh
    <3>1. CASE g = f
      BY <2>1, <2>3, <2>4, <2>7, <3>1 DEF ReadsFresh
    <3>2. CASE g # f
      BY <2>1, <2>3, <2>4, <2>7, <3>2 DEF ReadsFresh
    <3> QED
      BY <3>1, <3>2
  <2> QED
    BY <2>3, <2>6, <2>8 DEF FreshInv, NotYetRead
<1> QED
  BY <1>1, <1>2

\* A step of the run that may take marks from files, and has no stage.
LEMMA UnmarkIsFresh ==
    ASSUME Shapes, Shapes', FreshInv, stage' = NoStage, UNCHANGED hostVars,
           \A f \in Files : Deep(f)' => row'[f] = row[f] /\ subtree'[f] = subtree[f],
           run'.seen = run.seen,
           \A f \in Files : run'.content[f] = run.content[f],
           run'.phase \notin {"idle", "preparing", "reembedding", "enumerating"}
    PROVE  FreshInv'
<1>1. \A f \in Files : version[f] <= version'[f]
  BY DEF hostVars, Shapes
<1>2. \A f \in Files : ~Completing(f)'
  BY NoStageFacts DEF Completing
<1>3. \A f \in Files : Deep(f)' => Deep(f)
  BY DEF Deep
<1>4. FilesFresh'
  BY <1>1, <1>2, <1>3, FilesStayFresh DEF FreshInv
<1>5. ReadsFresh' /\ NotYetRead'
  BY <1>1, ReadsStayFresh DEF FreshInv
<1> QED
  BY <1>4, <1>5 DEF FreshInv

LEMMA DecideIsFresh ==
    ASSUME IInv, IInv', FreshInv, Decide
    PROVE  FreshInv'
<1>1. Shapes /\ Shapes' /\ stage' = NoStage /\ run \in Runs
  BY DEF IInv, StageAtWork, Decide, Shapes
<1>2. run'.seen = run.seen /\ run'.content = run.content /\ run'.phase = "files"
  BY <1>1 DEF Decide, Runs
<1>3. ASSUME NEW f \in Files, Deep(f)' PROVE row'[f] = row[f]
  <2>1. row[f] \in Rows /\ f \in Items /\ Nothing \in Contents
    BY <1>1, FilesFinite DEF Shapes, Nothing, Contents
  <2> DEFINE m == run.seen[f]
  <2>2. m \in Nat
    BY <1>1 DEF Runs
  <2>3. \/ row'[f] = CatalogOnly(row[f], m)
        \/ row'[f] = Upserted(row[f], m, Nothing)
        \/ row'[f] = row[f]
    BY <2>1 DEF Decide
  <2> HIDE DEF m
  <2>4. CatalogOnly(row[f], m).stamp = NoStamp /\ Upserted(row[f], m, Nothing).indexed = FALSE
    BY <2>1, <2>2, RowsAre
  <2> QED
    BY <1>3, <2>3, <2>4 DEF Deep
<1> QED
  BY <1>1, <1>2, <1>3, UnmarkIsFresh DEF Decide

LEMMA DecideFolderIsFresh ==
    ASSUME IInv, IInv', FreshInv, DecideFolder
    PROVE  FreshInv'
<1>1. Shapes /\ Shapes' /\ stage' = NoStage /\ run \in Runs
  BY DEF IInv, StageAtWork, DecideFolder, Shapes
<1>2. run'.seen = run.seen /\ run'.phase \in {"finalizing", "folder"}
      /\ (run'.content = run.content \/ run'.content = [run.content EXCEPT ![Folder] = Listing])
  BY <1>1 DEF DecideFolder, Runs
<1>3. \A f \in Files : f # Folder /\ f \in Items
  BY SweepAssumption DEF Files, Folder, Items
<1>4. \A f \in Files : run'.content[f] = run.content[f]
  BY <1>1, <1>2, <1>3 DEF Runs
<1>5. \A f \in Files : row'[f] = row[f]
  BY <1>1, <1>3 DEF DecideFolder, Shapes
<1> QED
  BY <1>1, <1>2, <1>4, <1>5, UnmarkIsFresh DEF DecideFolder

LEMMA RemoveIsFresh ==
    ASSUME IInv, IInv', FreshInv, NEW s \in Items, RemoveVanished(s)
    PROVE  FreshInv'
<1>1. Shapes /\ Shapes' /\ stage' = NoStage
  BY DEF IInv, StageAtWork, RemoveVanished
<1>2. run' = run /\ run.phase = "reconciling" /\ UNCHANGED hostVars
  BY DEF RemoveVanished
<1>3. NoRow.indexed = FALSE
  BY DEF NoRow
<1>4. \A f \in Files : Deep(f)' => row'[f] = row[f] /\ subtree'[f] = subtree[f]
  BY <1>1, <1>3, FilesFinite DEF RemoveVanished, Shapes, Deep
<1> QED
  BY <1>1, <1>2, <1>4, UnmarkIsFresh

LEMMA ReembedIsFresh ==
    ASSUME IInv, IInv', FreshInv, BeginReembed
    PROVE  FreshInv'
<1>1. Shapes /\ Shapes' /\ FilesFresh /\ ReadsFresh /\ NotYetRead /\ run \in Runs
  BY DEF IInv, FreshInv, Shapes
<1>2. UNCHANGED <<hostVars, row, subtree>>
  BY DEF BeginReembed
<1>3. run'.seen = run.seen /\ run'.content = run.content /\ run.phase = "preparing"
      /\ run'.phase = "reembedding"
  BY <1>1 DEF BeginReembed, Runs
<1>4. \A f \in Files : version[f] <= version'[f]
  BY <1>1, <1>2 DEF hostVars, Shapes
<1>5. \A f \in Files : ~Completing(f)'
  BY <1>3 DEF Completing, IInv, Reembedding
<1>6. \A f \in Files : Deep(f)' => Deep(f)
  BY <1>2 DEF Deep
<1>7. FilesFresh'
  BY <1>1, <1>2, <1>4, <1>5, <1>6, FilesStayFresh
<1>8. ReadsFresh' /\ NotYetRead'
  BY <1>1, <1>3, <1>4, ReadsStayFresh
<1> QED
  BY <1>7, <1>8 DEF FreshInv

LEMMA PushIsFresh ==
    ASSUME IInv, IInv', FreshInv, NEW s \in Items, PushTarget(s)
    PROVE  FreshInv'
<1>1. Shapes /\ Shapes' /\ FilesFresh /\ ReadsFresh /\ NotYetRead /\ run \in Runs
  BY DEF IInv, FreshInv, Shapes
<1>2. UNCHANGED <<hostVars, storeVars>>
  BY DEF PushTarget
<1>3. run'.seen = run.seen /\ run'.content = run.content /\ run'.phase = "reembedding"
      /\ run.phase = "reembedding"
  BY <1>1 DEF PushTarget, Runs
<1>4. \A f \in Files : version[f] <= version'[f]
  BY <1>1, <1>2 DEF hostVars, Shapes
<1>5. \A f \in Files : ~Completing(f)'
  BY <1>3 DEF Completing, IInv, Reembedding
<1>6. row' = row /\ subtree' = subtree /\ \A f \in Files : Deep(f)' => Deep(f)
  BY <1>2 DEF Deep, storeVars
<1>7. FilesFresh'
  BY <1>1, <1>4, <1>5, <1>6, FilesStayFresh
<1>8. ReadsFresh' /\ NotYetRead'
  BY <1>1, <1>3, <1>4, ReadsStayFresh
<1> QED
  BY <1>7, <1>8 DEF FreshInv

LEMMA WriteIsFresh ==
    ASSUME IInv, IInv', FreshInv, NEW s \in Items, WriteSubtree(s)
    PROVE  FreshInv'
<1> DEFINE c    == run.content[s]
           isC  == s # Folder /\ Emits(c) /\ ~keyed.exists
           more == Sent(s, c, isC)
           n    == Len(stage.stream)
           u    == Upserted(row[s], RecordedAs(s), c)
<1>1. Shapes /\ Shapes' /\ FilesFresh /\ ReadsFresh /\ NotYetRead /\ Cursors(stage)
      /\ stage \in Stages /\ run \in Runs /\ c \in Contents /\ n \in Nat
  <2>1. Shapes /\ FilesFresh /\ ReadsFresh /\ NotYetRead /\ Cursors(stage)
    BY DEF IInv, FreshInv, StageInv
  <2>2. Shapes'
    BY DEF IInv
  <2>3. stage \in Stages /\ run \in Runs
    BY <2>1 DEF Shapes
  <2> QED
    BY <2>1, <2>2, <2>3 DEF Stages, Runs
<1>2. /\ run.phase \in {"files", "folder"} /\ c # Nothing
      /\ row' = [row EXCEPT ![s] = u]
      /\ subtree' = [subtree EXCEPT ![s] = c]
      /\ run' = [run EXCEPT !.deep = @ \ {s}, !.content[s] = Nothing]
      /\ stage' = StreamIs(stage, stage.stream \o more)
      /\ UNCHANGED hostVars
  BY DEF WriteSubtree, StreamIs
<1>3. /\ more \in Seq(StreamItems)
      /\ \A k \in 1..Len(more) :
            \/ more[k].kind = "row" /\ more[k].of = s /\ RowOf(more[k]) \in Subtree(s, c)
            \/ more[k].kind = "keyed" /\ isC
            \/ more[k].kind = "done" /\ more[k].of = s /\ more[k].n = shape /\ k = Len(more)
  <2>1. isC \in BOOLEAN
    OBVIOUS
  <2> HIDE DEF c, isC
  <2> QED
    BY <1>1, <1>2, <2>1, SentFacts
<1>4. u.indexed = FALSE /\ u.modified = RecordedAs(s)
  <2>1. RecordedAs(s) \in Nat
    BY <1>1 DEF RecordedAs, Runs, Items
  <2>2. row[s] \in Rows
    BY <1>1 DEF Shapes
  <2> HIDE DEF c
  <2> QED
    BY <1>1, <2>1, <2>2, RowsAre DEF Upserted, Rows
<1> HIDE DEF isC, more, u
<1>5. \A f \in Files : f \in Items /\ f # Folder /\ version[f] \in Nat
                       /\ version'[f] = version[f]
  BY <1>1, <1>2, SweepAssumption DEF Files, Folder, Items, Shapes, hostVars
<1>6. run'.seen = run.seen /\ run'.phase = run.phase
      /\ run'.content = [run.content EXCEPT ![s] = Nothing]
  BY <1>1, <1>2 DEF Runs
<1>7. \A f \in Files : run'.content[f] = run.content[f] \/ run'.content[f] = Nothing
  BY <1>1, <1>6 DEF Runs
<1>8. ReadsFresh' /\ NotYetRead'
  <2>1. \A f \in Files : version[f] <= version'[f]
    BY <1>5
  <2> QED
    BY <1>1, <1>2, <1>6, <1>7, <2>1, ReadsStayFresh
<1>9. \A i \in Waiting(stage') :
         \/ i \in Waiting(stage) /\ stage'.stream[i] = stage.stream[i]
         \/ \E k \in 1..Len(more) : i = n + k /\ stage'.stream[i] = more[k]
  <2> HIDE DEF c
  <2> QED
    BY <1>1, <1>2, <1>3, Appended
<1>10. FilesFresh'
  <2> SUFFICES ASSUME NEW f \in Files, Deep(f)' \/ Completing(f)'
               PROVE  IsCurrent(f)'
    BY DEF FilesFresh
  <2>1. CASE f = s
    <3>1. PICK v \in Nat : c = {<<f, v>>} /\ Told(f, run.seen[f], v) /\ v <= version[f]
      BY <1>1, <1>2, <2>1 DEF ReadsFresh
    <3>2. subtree'[f] = c /\ row'[f].modified = run.seen[f]
      BY <1>1, <1>2, <1>4, <1>5, <2>1 DEF Shapes, RecordedAs
    <3> HIDE DEF c
    <3> QED
      BY <1>5, <3>1, <3>2 DEF IsCurrent
  <2>2. CASE f # s
    <3>1. row'[f] = row[f] /\ subtree'[f] = subtree[f]
      BY <1>1, <1>2, <1>5, <2>2 DEF Shapes
    <3>2. Deep(f)' => Deep(f)
      BY <3>1 DEF Deep
    <3>3. Completing(f)' => Completing(f)
      BY <1>3, <1>9, <2>2 DEF Completing
    <3>4. IsCurrent(f)
      BY <1>1, <3>2, <3>3 DEF FilesFresh
    <3> QED
      BY <1>5, <3>1, <3>4 DEF IsCurrent
  <2> QED
    BY <2>1, <2>2
<1> QED
  BY <1>8, <1>10 DEF FreshInv

LEMMA FreshNext == IInv /\ IInv' /\ FreshInv /\ [Next]_vars => FreshInv'
<1> SUFFICES ASSUME IInv, IInv', FreshInv, [Next]_vars
             PROVE  FreshInv'
  OBVIOUS
<1>1. ASSUME Proceed PROVE FreshInv'
  <2>1. CASE BeginReembed
    BY <2>1, ReembedIsFresh
  <2>2. CASE FinishReembed \/ NothingToReembed \/ EndFiles \/ AllReconciled \/ EndFolder
    BY <2>2, PhaseIsFresh
  <2>3. CASE Enumerate
    BY <2>3, EnumerateIsFresh
  <2>4. CASE Decide
    BY <2>4, DecideIsFresh
  <2>5. CASE DecideFolder
    BY <2>5, DecideFolderIsFresh
  <2>6. CASE \E s \in Items : PushTarget(s) \/ WriteSubtree(s) \/ RemoveVanished(s)
    BY <2>6, PushIsFresh, WriteIsFresh, RemoveIsFresh
  <2>7. CASE \E f \in Files : ReadContent(f)
    BY <2>7, ReadIsFresh
  <2>8. CASE SubmitBatch \/ SubmitRest
    BY <2>8, StageIsFresh
  <2>9. CASE FailWithStage
    BY <2>9, FailIsFresh DEF FailWithStage
  <2>10. CASE Finalize
    BY <2>10, EndIsFresh
  <2> QED
    BY <1>1, <2>1, <2>2, <2>3, <2>4, <2>5, <2>6, <2>7, <2>8, <2>9, <2>10 DEF Proceed
<1>2. CASE Land
  BY <1>2, LandIsFresh, StageIsFresh DEF Land
<1>3. CASE Stop
  BY <1>3, HostIsFresh, EndIsFresh DEF Stop
<1>4. CASE StageFails
  BY <1>4, StageIsFresh
<1>5. CASE (\E f \in Files : Change(f) \/ Delete(f)) \/ UNCHANGED vars
  BY <1>5, HostIsFresh
<1>6. CASE \/ \E dials \in Dials : Begin(dials)
           \/ \E sh \in 1..ShapeMax, id \in 1..IdentityMax : Restart(sh, id)
  BY <1>6, EndIsFresh
<1> QED
  BY <1>1, <1>2, <1>3, <1>4, <1>5, <1>6 DEF Next

LEMMA InitIsFresh == Init => FreshInv
<1> SUFFICES ASSUME Init PROVE FreshInv
  OBVIOUS
<1>1. \A f \in Files : ~Deep(f) /\ ~Completing(f)
  BY NoStageFacts, FilesFinite DEF Init, Deep, NoRow, Completing
<1>2. \A f \in Files : NoRun.content[f] = Nothing /\ NoRun.seen[f] = 0
  BY FilesFinite DEF NoRun, NotListed
<1> QED
  BY <1>1, <1>2, UnlistedIsTold DEF Init, FreshInv, FilesFresh, ReadsFresh, NotYetRead

\* A file that the catalog calls indexed and unchanged since it was enumerated
\* has the subtree of what the host holds, or of a version read after one
\* that no listing tells from it, however often it changed while the run read,
\* wrote, embedded and landed it, and whatever ended the run.
THEOREM StaleNeverLooksClean == Spec => []NothingStaleLooksClean
<1>1. FreshInv /\ Shapes => NothingStaleLooksClean
  <2> SUFFICES ASSUME FreshInv, Shapes, NEW f \in Files \ gone,
                      Deep(f), row[f].modified = Look(f)
               PROVE  IsUpToDate(f)
    BY DEF NothingStaleLooksClean
  <2>1. PICK v \in Nat : subtree[f] = {<<f, v>>} /\ Told(f, row[f].modified, v) /\ v <= version[f]
    BY DEF FreshInv, FilesFresh, IsCurrent
  <2>2. version[f] \in Nat /\ row[f].modified = Looks[f][version[f]]
    BY DEF Shapes, Look
  <2>3. v \in 0..version[f]
    BY <2>1, <2>2
  <2> QED
    BY <2>1, <2>2, <2>3 DEF IsUpToDate, Told
<1>2. IInv => Shapes
  BY DEF IInv
<1> QED
  BY <1>1, <1>2, InitIsFresh, FreshNext, AlwaysInv, PTL DEF Spec

\* A second edit in one second always changes the size.
TellingLooks ==
    \A f \in Files : \A u, v \in 0..VersionMax[f] : Looks[f][u] = Looks[f][v] => u = v

NothingStaleAtAll ==
    \A f \in Files \ gone : Deep(f) /\ row[f].modified = Look(f) => subtree[f] = FileContent(f)

\* Then what the catalog calls indexed and unchanged is what the host holds: the
\* comparison of seconds and sizes (decide) is the only thing that can miss a
\* change.
THEOREM TellingLooksAreEnough == TellingLooks => (Spec => []NothingStaleAtAll)
<1> SUFFICES ASSUME TellingLooks PROVE Spec => []NothingStaleAtAll
  OBVIOUS
<1>1. NothingStaleLooksClean /\ Shapes => NothingStaleAtAll
  <2> SUFFICES ASSUME NothingStaleLooksClean, Shapes, NEW f \in Files \ gone,
                      Deep(f), row[f].modified = Look(f)
               PROVE  subtree[f] = FileContent(f)
    BY DEF NothingStaleAtAll
  <2>1. PICK v \in 0..version[f] : /\ subtree[f] = {<<f, v>>}
                                  /\ \E u \in 0..v : Looks[f][u] = Looks[f][version[f]]
    BY DEF NothingStaleLooksClean, IsUpToDate
  <2>2. PICK u \in 0..v : Looks[f][u] = Looks[f][version[f]]
    BY <2>1
  <2>3. version[f] \in Nat /\ version[f] <= VersionMax[f] /\ VersionMax[f] \in Nat
    BY SweepAssumption DEF Shapes
  <2>4. u \in 0..VersionMax[f] /\ version[f] \in 0..VersionMax[f]
    BY <2>1, <2>2, <2>3
  <2>5. u = version[f]
    BY <2>2, <2>4 DEF TellingLooks
  <2>6. v = version[f]
    BY <2>1, <2>2, <2>3, <2>5
  <2> QED
    BY <2>1, <2>6 DEF FileContent
<1>2. IInv => Shapes
  BY DEF IInv
<1> QED
  BY <1>1, <1>2, StaleNeverLooksClean, AlwaysInv, PTL
=============================================================================
