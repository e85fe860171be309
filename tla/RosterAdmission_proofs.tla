------------------------ MODULE RosterAdmission_proofs ------------------------
(***************************************************************************)
(* RosterAdmission: an expulsion nobody's refresh overlapped bars its node *)
(* for good, a token is redeemed once, newcomers are kept, and no verdict  *)
(* is without a reason, for any peers, tokens, callers and limits.         *)
(***************************************************************************)
EXTENDS RosterAdmission, SequenceTheorems, WellFoundedInduction, TLAPS

Progress == {"idle", "members", "expelled", "replace", "confirm", "dead"}

Readings == [at : Progress, target : Nodes \cup {None}, alone : BOOLEAN,
             known : SUBSET Nodes, expelled : SUBSET Nodes]

\* The shapes the proofs go by; the invited list matters to none of them.
Shapes ==
    /\ rows \subseteq Peers /\ expelled \subseteq Nodes
    /\ \E q : view \in [known : SUBSET Nodes, expelled : SUBSET Nodes, invited : {q}]
    /\ task \in [Tasks -> Readings]
    /\ open \subseteq minted /\ redeeming \subseteq Peers \X Tokens
    /\ spent \subseteq Peers \X Tokens

\* The call has published and not yet returned, and nobody was refreshing
\* when it did.
Pending(t) == task[t].at \in {"members", "expelled", "replace", "confirm"} /\ task[t].alone

\* What was published alone: every reading taken since has it.
PublishedAlone == barred \cup {task[t].target : t \in {c \in Tasks : Pending(c)}}

\* Why the barred stay in the view: they are in the store for good, and in
\* whatever is about to replace the view.
BarredInv ==
    /\ PublishedAlone \subseteq expelled
    /\ \A t \in Tasks : task[t].at = "replace" => PublishedAlone \subseteq task[t].expelled
    /\ \A t \in Tasks : task[t].at = "confirm" /\ task[t].alone => task[t].target \in view.expelled
    /\ barred \subseteq view.expelled
    /\ ~task[Reconciler].alone

\* Why a token admits one: a spent token is closed and never minted again.
TokenInv ==
    /\ \A s \in spent : s[2] \in minted \ open
    /\ TokenAdmitsOne

IInv == Shapes /\ BarredInv /\ TokenInv

LEMMA InitIInv == Init => IInv
  BY AdmissionAssumption
  DEF Init, IInv, Shapes, BarredInv, TokenInv, TokenAdmitsOne, PublishedAlone, Pending,
      FirstView, Resting, Readings, Progress, Nodes, Listed, Tasks, Reconciler, None

\* Steps that leave every refresh, the view and the barred alone, and only
\* add expulsions.
Calm == /\ task' = task /\ barred' = barred /\ expelled \subseteq expelled'
        /\ view'.expelled = view.expelled

\* The actions that are calm, and what they do to the store and the ledger.
LEMMA CalmSteps ==
    ASSUME Shapes,
           \/ StoreChanges \/ Handshakes \/ \E k \in Tokens : Mint(k) \/ Expire(k)
           \/ UNCHANGED vars
    PROVE  Calm /\ Shapes'
<1>1. PICK q : view \in [known : SUBSET Nodes, expelled : SUBSET Nodes, invited : {q}]
  BY DEF Shapes
<1>2. CASE StoreChanges
  BY <1>2, AdmissionAssumption
  DEF StoreChanges, Hear, Supersede, HearExpulsion, Expulsion, ledger, Calm, Shapes, Nodes
<1>3. CASE \E k \in Tokens : Mint(k) \/ Expire(k)
  BY <1>3 DEF Mint, Expire, store, Calm, Shapes
<1>4. CASE \E p \in Peers, k \in Tokens : Present(p, k) \/ Redeem(p, k)
  BY <1>4 DEF Present, Redeem, store, Calm, Shapes
<1>5. CASE \E p \in Peers : Remember(p)
  <2>1. PICK p \in Peers : Remember(p)
    BY <1>5
  <2>2. view'.expelled = view.expelled /\ \E r : view' \in [known : SUBSET Nodes, expelled : SUBSET Nodes, invited : {r}]
    <3>1. \A r : LET v == [view EXCEPT !.invited = r] IN
              /\ v.expelled = view.expelled
              /\ v \in [known : SUBSET Nodes, expelled : SUBSET Nodes, invited : {r}]
      BY <1>1
    <3>2. view' = view \/ \E r : view' = [view EXCEPT !.invited = r]
      BY <2>1 DEF Remember
    <3> QED
      BY <1>1, <3>1, <3>2
  <2> QED
    BY <2>1, <2>2 DEF Remember, store, Calm, Shapes
<1>6. CASE UNCHANGED vars
  BY <1>6 DEF vars, store, ledger, Calm, Shapes
<1> QED
  BY <1>2, <1>3, <1>4, <1>5, <1>6 DEF Handshakes

\* A calm step keeps the barred in the view.
LEMMA CalmKeepsBarred ==
    ASSUME BarredInv, Calm
    PROVE  BarredInv'
  BY DEF BarredInv, Calm, PublishedAlone, Pending

\* Every other step keeps the shapes.
LEMMA RefreshShapes ==
    ASSUME Shapes, NEW t \in Tasks,
           \/ Refreshes(t) \/ StartRefresh(t) \/ Restart
           \/ t \in Callers /\ (Confirm(t) \/ \E x \in Nodes : StartExpel(t, x))
    PROVE  Shapes'
<1> USE DEF Shapes
<1>1. /\ Resting \in Readings
      /\ \A r \in Readings : \A a \in Progress : [r EXCEPT !.at = a] \in Readings
      /\ \A x \in Nodes, b \in BOOLEAN :
            [Resting EXCEPT !.at = "members", !.target = x, !.alone = b] \in Readings
      /\ [Resting EXCEPT !.at = "dead"] \in Readings
  <2>1. Resting \in Readings
    BY DEF Resting, Readings, Progress
  <2>2. ASSUME NEW r \in Readings, NEW a \in Progress
        PROVE  [r EXCEPT !.at = a] \in Readings
    BY DEF Readings
  <2>3. ASSUME NEW x \in Nodes, NEW b \in BOOLEAN
        PROVE  [Resting EXCEPT !.at = "members", !.target = x, !.alone = b] \in Readings
    BY <2>1 DEF Readings, Progress
  <2>4. "dead" \in Progress
    BY DEF Progress
  <2> QED
    BY <2>1, <2>2, <2>3, <2>4
<1>2. Reconciler \in Tasks /\ Listed \cup {Local} \subseteq Nodes
  BY DEF Tasks, Nodes, Listed
<1>3. {"members", "expelled", "replace", "confirm"} \subseteq Progress
  BY DEF Progress
<1>4. CASE StartRefresh(t)
  BY <1>1, <1>2, <1>3, <1>4 DEF StartRefresh, store, ledger
<1>5. CASE ReadMembers(t) \/ ReadExpelled(t) \/ FailRead(t)
  <2>1. ASSUME ReadMembers(t) PROVE task' \in [Tasks -> Readings]
    <3> DEFINE r == [task[t] EXCEPT !.at = "expelled", !.known = Listed \cup {Local}]
    <3>1. task' = [task EXCEPT ![t] = r]
      BY <2>1 DEF ReadMembers
    <3>2. r \in Readings
      BY <1>2 DEF Readings, Progress
    <3> HIDE DEF r
    <3> QED
      BY <3>1, <3>2
  <2>2. ASSUME ReadExpelled(t) PROVE task' \in [Tasks -> Readings]
    <3> DEFINE r == [task[t] EXCEPT !.at = "replace", !.expelled = expelled]
    <3>1. task' = [task EXCEPT ![t] = r]
      BY <2>2 DEF ReadExpelled
    <3>2. r \in Readings
      BY DEF Readings, Progress
    <3> HIDE DEF r
    <3> QED
      BY <3>1, <3>2
  <2>3. ASSUME FailRead(t) PROVE task' \in [Tasks -> Readings]
    BY <1>1, <2>3 DEF FailRead
  <2>4. UNCHANGED <<store, view, ledger, heard, barred>>
    BY <1>5 DEF ReadMembers, ReadExpelled, FailRead
  <2> QED
    BY <1>5, <2>1, <2>2, <2>3, <2>4 DEF store, ledger
<1>6. CASE Replace(t)
  <2>1. task[t].known \subseteq Nodes /\ task[t].expelled \subseteq Nodes
    BY DEF Readings
  <2>2. \E q : view' \in [known : SUBSET Nodes, expelled : SUBSET Nodes, invited : {q}]
    BY <1>6, <2>1 DEF Replace
  <2>3. task' \in [Tasks -> Readings]
    BY <1>1, <1>3, <1>6 DEF Replace, Refreshed
  <2> QED
    BY <1>6, <2>2, <2>3 DEF Replace, store, ledger
<1>7. CASE FailAssertion(t)
  BY <1>1, <1>7 DEF FailAssertion, store, ledger
<1>8. CASE t \in Callers /\ Confirm(t)
  BY <1>1, <1>8 DEF Confirm, store, ledger
<1>9. CASE t \in Callers /\ \E x \in Nodes : StartExpel(t, x)
  <2>1. PICK x \in Nodes : StartExpel(t, x)
    BY <1>9
  <2>2. task' \in [Tasks -> Readings]
    BY <1>1, <2>1 DEF StartExpel
  <2> QED
    BY <2>1, <2>2 DEF StartExpel, Expulsion, ledger
<1>10. CASE Restart
  <2>1. \E q : view' \in [known : SUBSET Nodes, expelled : SUBSET Nodes, invited : {q}]
    BY <1>2, <1>10 DEF Restart, FirstView
  <2>2. task' \in [Tasks -> Readings]
    BY <1>1, <1>10 DEF Restart
  <2> QED
    BY <1>10, <2>1, <2>2 DEF Restart, store
<1> QED
  BY <1>4, <1>5, <1>6, <1>7, <1>8, <1>9, <1>10 DEF Refreshes

\* A refresh moves on without publishing: what it is about to replace the
\* view with, and the view, have all that was published alone.
LEMMA RefreshKeepsBarred ==
    ASSUME Shapes, BarredInv, NEW t \in Tasks, NEW r \in Readings,
           task' = [task EXCEPT ![t] = r],
           expelled' = expelled /\ barred \subseteq barred' /\ barred' \subseteq PublishedAlone,
           \/ r.at \notin {"members", "expelled", "replace", "confirm"}
           \/ ~r.alone
           \/ Pending(t) /\ r.target = task[t].target,
           r.at = "replace" => PublishedAlone \subseteq r.expelled,
           \/ PublishedAlone \subseteq view'.expelled
           \/ view' = view /\ barred' \subseteq view.expelled /\ r.at # "confirm",
           t = Reconciler => ~r.alone
    PROVE  BarredInv'
<1>1. task \in [Tasks -> Readings] /\ Reconciler \in Tasks
  BY DEF Shapes, Tasks
<1>2. task'[t] = r /\ \A u \in Tasks \ {t} : task'[u] = task[u]
  BY <1>1
<1>3. PublishedAlone' \subseteq PublishedAlone
  <2>1. ASSUME NEW u \in Tasks, Pending(u)'
        PROVE  task'[u].target \in PublishedAlone
    <3>1. CASE u = t
      BY <1>2, <2>1, <3>1 DEF Pending, PublishedAlone
    <3>2. CASE u # t
      BY <1>2, <2>1, <3>2 DEF Pending, PublishedAlone
    <3> QED
      BY <3>1, <3>2
  <2> QED
    BY <2>1 DEF PublishedAlone
<1>4. PublishedAlone' \subseteq expelled'
  BY <1>3 DEF BarredInv
<1>5. \A u \in Tasks : task'[u].at = "replace" => PublishedAlone' \subseteq task'[u].expelled
  BY <1>2, <1>3 DEF BarredInv
<1>6. \A u \in Tasks : task'[u].at = "confirm" /\ task'[u].alone => task'[u].target \in view'.expelled
  <2>1. CASE PublishedAlone \subseteq view'.expelled
    <3>1. ASSUME NEW u \in Tasks, task'[u].at = "confirm", task'[u].alone
          PROVE  task'[u].target \in PublishedAlone'
      BY <3>1 DEF PublishedAlone, Pending
    <3> QED
      BY <1>3, <2>1, <3>1
  <2>2. CASE view' = view /\ r.at # "confirm"
    BY <1>2, <2>2 DEF BarredInv
  <2> QED
    BY <2>1, <2>2
<1>7. barred' \subseteq view'.expelled
  BY <1>3 DEF PublishedAlone
<1>8. ~task'[Reconciler].alone
  BY <1>1, <1>2 DEF BarredInv
<1> QED
  BY <1>4, <1>5, <1>6, <1>7, <1>8 DEF BarredInv

\* An expel call publishes: alone, no reading is under way that could lack
\* the expulsion; otherwise it counts for nothing.
LEMMA ExpelKeepsBarred ==
    ASSUME Shapes, BarredInv, NEW c \in Callers, NEW x \in Nodes, StartExpel(c, x)
    PROVE  BarredInv'
<1> DEFINE alone == \A t \in Tasks : ~ReadsNow(t)
           r == [Resting EXCEPT !.at = "members", !.target = x, !.alone = alone]
<1>1. task \in [Tasks -> Readings] /\ c \in Tasks /\ c # Reconciler /\ Reconciler \in Tasks
  BY AdmissionAssumption DEF Shapes, Tasks
<1>2. r.at = "members" /\ r.target = x /\ r.alone = alone
  BY DEF Resting
<1>3. /\ task'[c] = r /\ \A u \in Tasks \ {c} : task'[u] = task[u]
      /\ expelled' = expelled \cup {x} /\ view' = view /\ barred' = barred
  BY <1>1 DEF StartExpel, Expulsion
<1>4. alone => \A u \in Tasks : task[u].at # "replace"
  BY DEF ReadsNow
<1> HIDE DEF r, alone
<1>5. /\ PublishedAlone' \subseteq PublishedAlone \cup {x}
      /\ ~alone => PublishedAlone' \subseteq PublishedAlone
  <2>1. ASSUME NEW u \in Tasks, Pending(u)'
        PROVE  task'[u].target \in PublishedAlone \/ (alone /\ task'[u].target = x)
    <3>1. CASE u = c
      BY <1>2, <1>3, <2>1, <3>1 DEF Pending
    <3>2. CASE u # c
      BY <1>3, <2>1, <3>2 DEF Pending, PublishedAlone
    <3> QED
      BY <3>1, <3>2
  <2> QED
    BY <1>3, <2>1 DEF PublishedAlone
<1>6. PublishedAlone' \subseteq expelled'
  BY <1>3, <1>5 DEF BarredInv
<1>7. \A u \in Tasks : task'[u].at = "replace" => PublishedAlone' \subseteq task'[u].expelled
  <2> SUFFICES ASSUME NEW u \in Tasks, task'[u].at = "replace"
               PROVE  PublishedAlone' \subseteq task'[u].expelled
    OBVIOUS
  <2>1. u # c /\ task[u].at = "replace" /\ task'[u] = task[u]
    BY <1>2, <1>3
  <2> QED
    BY <1>4, <1>5, <2>1 DEF BarredInv
<1>8. \A u \in Tasks : task'[u].at = "confirm" /\ task'[u].alone => task'[u].target \in view'.expelled
  BY <1>2, <1>3 DEF BarredInv
<1> QED
  BY <1>1, <1>3, <1>6, <1>7, <1>8 DEF BarredInv

\* Everything the reconciler and the calls do keeps the barred in the
\* view.
LEMMA RefreshesKeepBarred ==
    ASSUME Shapes, BarredInv, NEW t \in Tasks, Refreshes(t)
    PROVE  BarredInv'
<1>1. task \in [Tasks -> Readings] /\ task[t] \in Readings /\ Reconciler \in Tasks
  BY DEF Shapes, Tasks
<1>2. Resting \in Readings /\ Resting.at = "idle" /\ ~Resting.alone
  BY DEF Resting, Readings, Progress
<1>3. /\ barred \subseteq PublishedAlone /\ PublishedAlone \subseteq expelled
      /\ barred \subseteq view.expelled /\ ~task[Reconciler].alone
  BY DEF BarredInv, PublishedAlone
<1>4. CASE ReadMembers(t)
  <2> DEFINE r == [task[t] EXCEPT !.at = "expelled", !.known = Listed \cup {Local}]
  <2>1. task' = [task EXCEPT ![t] = r]
    BY <1>4 DEF ReadMembers
  <2>2. r \in Readings /\ r.at = "expelled" /\ r.alone = task[t].alone /\ r.target = task[t].target
    BY <1>1 DEF Readings, Progress, Shapes, Listed, Nodes
  <2>3. r.alone => Pending(t)
    BY <1>4, <2>2 DEF ReadMembers, Pending
  <2>4. expelled' = expelled /\ barred' = barred /\ view' = view
    BY <1>4 DEF ReadMembers, store
  <2> HIDE DEF r
  <2> QED
    BY <1>3, <2>1, <2>2, <2>3, <2>4, RefreshKeepsBarred
<1>5. CASE ReadExpelled(t)
  <2> DEFINE r == [task[t] EXCEPT !.at = "replace", !.expelled = expelled]
  <2>1. task' = [task EXCEPT ![t] = r]
    BY <1>5 DEF ReadExpelled
  <2>2. /\ r \in Readings /\ r.at = "replace" /\ r.expelled = expelled
        /\ r.alone = task[t].alone /\ r.target = task[t].target
    BY <1>1 DEF Readings, Progress, Shapes
  <2>3. r.alone => Pending(t)
    BY <1>5, <2>2 DEF ReadExpelled, Pending
  <2>4. expelled' = expelled /\ barred' = barred /\ view' = view
    BY <1>5 DEF ReadExpelled, store
  <2> HIDE DEF r
  <2> QED
    BY <1>3, <2>1, <2>2, <2>3, <2>4, RefreshKeepsBarred
<1>6. CASE FailRead(t)
  <2>1. /\ task' = [task EXCEPT ![t] = Resting]
        /\ expelled' = expelled /\ barred' = barred /\ view' = view
    BY <1>6 DEF FailRead, store
  <2> QED
    BY <1>2, <1>3, <2>1, RefreshKeepsBarred
<1>7. CASE FailAssertion(t)
  <2> DEFINE r == IF t = Reconciler THEN [Resting EXCEPT !.at = "dead"] ELSE Resting
  <2>1. /\ task' = [task EXCEPT ![t] = r]
        /\ expelled' = expelled /\ barred' = barred /\ view' = view
    BY <1>7 DEF FailAssertion, store
  <2>2. r \in Readings /\ r.at \in {"idle", "dead"} /\ ~r.alone
    BY <1>2 DEF Readings, Progress, Resting
  <2> HIDE DEF r
  <2> QED
    BY <1>3, <2>1, <2>2, RefreshKeepsBarred
<1>8. CASE Replace(t)
  <2> DEFINE r == IF task[t].target = None THEN Resting ELSE [task[t] EXCEPT !.at = "confirm"]
  <2>1. task' = [task EXCEPT ![t] = r]
    BY <1>8 DEF Replace, Refreshed
  <2>2. /\ r \in Readings /\ r.at \in {"idle", "confirm"}
        /\ r.alone => Pending(t) /\ r.target = task[t].target
        /\ t = Reconciler => ~r.alone
    <3>1. CASE task[t].target = None
      BY <1>2, <3>1
    <3>2. CASE task[t].target # None
      <4>1. task[t].at = "replace"
        BY <1>8 DEF Replace
      <4> QED
        BY <1>1, <1>3, <3>2, <4>1 DEF Readings, Progress, Pending
    <3> QED
      BY <3>1, <3>2
  <2>3. expelled' = expelled /\ barred' = barred /\ view'.expelled = task[t].expelled
    BY <1>8 DEF Replace, store
  <2>4. PublishedAlone \subseteq view'.expelled
    BY <1>8, <2>3 DEF Replace, BarredInv
  <2> HIDE DEF r
  <2> QED
    BY <1>3, <2>1, <2>2, <2>3, <2>4, RefreshKeepsBarred
<1> QED
  BY <1>4, <1>5, <1>6, <1>7, <1>8 DEF Refreshes

LEMMA OtherStepsKeepBarred ==
    ASSUME Shapes, BarredInv,
           \/ \E t \in Tasks : StartRefresh(t)
           \/ Restart \/ \E c \in Callers : Confirm(c)
    PROVE  BarredInv'
<1>1. task \in [Tasks -> Readings] /\ Reconciler \in Tasks /\ Callers \subseteq Tasks
  BY DEF Shapes, Tasks
<1>2. Resting \in Readings /\ Resting.at = "idle" /\ ~Resting.alone
  BY DEF Resting, Readings, Progress
<1>3. /\ barred \subseteq PublishedAlone /\ PublishedAlone \subseteq expelled
      /\ barred \subseteq view.expelled /\ ~task[Reconciler].alone
  BY DEF BarredInv, PublishedAlone
<1>4. ASSUME NEW t \in Tasks, StartRefresh(t) PROVE BarredInv'
  <2> DEFINE r == [Resting EXCEPT !.at = "members"]
  <2>1. /\ task' = [task EXCEPT ![t] = r]
        /\ expelled' = expelled /\ barred' = barred /\ view' = view
    BY <1>4 DEF StartRefresh, store
  <2>2. r \in Readings /\ r.at = "members" /\ ~r.alone
    BY <1>2 DEF Resting, Readings, Progress
  <2> HIDE DEF r
  <2> QED
    BY <1>1, <1>3, <2>1, <2>2, RefreshKeepsBarred
<1>5. CASE \E c \in Callers : Confirm(c)
  <2>1. PICK c \in Callers : Confirm(c)
    BY <1>5
  <2>2. /\ task' = [task EXCEPT ![c] = Resting]
        /\ expelled' = expelled /\ view' = view /\ barred \subseteq barred'
    BY <2>1 DEF Confirm, store
  <2>3. barred' \subseteq PublishedAlone /\ barred' \subseteq view.expelled
    <3>1. \/ barred' = barred
          \/ /\ barred' = barred \cup {task[c].target}
             /\ Pending(c) /\ task[c].target \in view.expelled
      BY <2>1 DEF Confirm, Pending
    <3>2. Pending(c) => task[c].target \in PublishedAlone
      BY <1>1 DEF PublishedAlone
    <3> QED
      BY <1>3, <3>1, <3>2
  <2> QED
    BY <1>1, <1>2, <2>2, <2>3, RefreshKeepsBarred
<1>6. CASE Restart
  <2>1. /\ \A t \in Tasks : task'[t] = Resting
        /\ expelled' = expelled /\ barred' = barred /\ view'.expelled = expelled
    BY <1>6 DEF Restart, FirstView, store
  <2>2. PublishedAlone' = barred
    BY <1>2, <2>1 DEF PublishedAlone, Pending
  <2> QED
    BY <1>1, <1>2, <1>3, <2>1, <2>2 DEF BarredInv
<1> QED
  BY <1>4, <1>5, <1>6

\* A token is spent only while open, and never opened twice.
LEMMA StepsKeepTokens ==
    ASSUME Shapes, TokenInv, [Next]_vars
    PROVE  TokenInv'
<1> USE DEF TokenInv, TokenAdmitsOne
<1>1. ASSUME NEW k \in Tokens, Mint(k) \/ Expire(k) PROVE TokenInv'
  BY <1>1 DEF Mint, Expire
<1>2. ASSUME NEW p \in Peers, NEW k \in Tokens, Redeem(p, k) PROVE TokenInv'
  <2>1. minted' = minted /\ open' = open \ {k}
    BY <1>2 DEF Redeem
  <2>2. CASE k \notin open
    BY <1>2, <2>1, <2>2 DEF Redeem
  <2>3. CASE k \in open
    <3>1. spent' = spent \cup {<<p, k>>} /\ \A s \in spent : s[2] # k
      BY <1>2, <2>3 DEF Redeem
    <3> QED
      BY <2>1, <2>3, <3>1 DEF Shapes
  <2> QED
    BY <2>2, <2>3
<1>3. ASSUME open' \subseteq open, minted' = minted, spent' = spent PROVE TokenInv'
  BY <1>3
<1>4. ASSUME NEW p \in Peers, Remember(p) \/ \E k \in Tokens : Present(p, k) PROVE TokenInv'
  BY <1>3, <1>4 DEF Remember, Present
<1>5. CASE StoreChanges
  BY <1>3, <1>5 DEF StoreChanges, Hear, Supersede, HearExpulsion, ledger
<1>6. CASE \E t \in Tasks : StartRefresh(t) \/ Refreshes(t)
  BY <1>3, <1>6 DEF StartRefresh, Refreshes, ReadMembers, ReadExpelled, FailRead, Replace,
                    FailAssertion, ledger
<1>7. CASE \E c \in Callers : Confirm(c) \/ \E x \in Nodes : StartExpel(c, x)
  BY <1>3, <1>7 DEF Confirm, StartExpel, ledger
<1>8. CASE Restart
  BY <1>3, <1>8 DEF Restart
<1>9. CASE UNCHANGED vars
  BY <1>3, <1>9 DEF vars, ledger
<1> QED
  BY <1>1, <1>2, <1>4, <1>5, <1>6, <1>7, <1>8, <1>9 DEF Next, Handshakes

LEMMA NextIInv == IInv /\ [Next]_vars => IInv'
<1> SUFFICES ASSUME Shapes, BarredInv, TokenInv, [Next]_vars PROVE Shapes' /\ BarredInv'
  BY StepsKeepTokens DEF IInv
<1>1. CASE \/ StoreChanges \/ Handshakes \/ \E k \in Tokens : Mint(k) \/ Expire(k)
           \/ UNCHANGED vars
  BY <1>1, CalmSteps, CalmKeepsBarred
<1>2. CASE \E t \in Tasks : StartRefresh(t) \/ Refreshes(t)
  BY <1>2, RefreshShapes, RefreshesKeepBarred, OtherStepsKeepBarred
<1>3. CASE Restart
  <2>1. Reconciler \in Tasks
    BY DEF Tasks
  <2> QED
    BY <1>3, <2>1, RefreshShapes, OtherStepsKeepBarred
<1>4. ASSUME NEW c \in Callers, Confirm(c) \/ \E x \in Nodes : StartExpel(c, x)
      PROVE  Shapes' /\ BarredInv'
  <2>1. c \in Tasks
    BY DEF Tasks
  <2> QED
    BY <1>4, <2>1, RefreshShapes, OtherStepsKeepBarred, ExpelKeepsBarred
<1> QED
  BY <1>1, <1>2, <1>3, <1>4 DEF Next

LEMMA AdmissionIsSound == Spec => []IInv
  BY InitIInv, NextIInv, PTL DEF Spec

-----------------------------------------------------------------------------
(* The theorems *)

\* Whatever refreshes, records, invitations and restarts follow, a node whose
\* expulsion nobody's refresh overlapped is refused for good.
THEOREM ExpelledStayOut == Spec => []BarredAreRefused
<1>1. IInv => BarredAreRefused
  BY DEF IInv, BarredInv, BarredAreRefused, Verdict
<1> QED
  BY <1>1, AdmissionIsSound, PTL

\* A token is redeemed by one peer, through expiry, concurrent handshakes and
\* restarts.
THEOREM TokensAdmitOne == Spec => []TokenAdmitsOne
<1>1. IInv => TokenAdmitsOne
  BY DEF IInv, TokenInv
<1> QED
  BY <1>1, AdmissionIsSound, PTL
-----------------------------------------------------------------------------
(* What is retained of the invited *)

\* A set of natural numbers that is not empty has a least member.  What
\* Retained computes is found by it: the library's induction principles take
\* operators, its theorem on well-founded relations takes a set.
LEMMA LeastNatural ==
  ASSUME NEW T \in SUBSET Nat, T # {}
  PROVE  \E m \in T : \A k \in T : m <= k
<1> DEFINE R == {p \in Nat \X Nat : p[1] < p[2]}
<1>1. IsWellFoundedOn(OpToRel(<, Nat), Nat)
  BY NatLessThanWellFounded, Zenon
<1>2. OpToRel(<, Nat) = R
  BY DEF OpToRel
<1>3. IsWellFoundedOn(R, Nat)
  BY <1>1, <1>2
<1>4. PICK m \in T : \A k \in T : ~ (<<k, m>> \in R)
  <2>1. \A U : U \subseteq Nat /\ U # {} => \E x \in U : \A y \in U : ~ (<<y, x>> \in R)
    BY <1>3, WFMin
  <2> QED
    BY <2>1
<1>5. ASSUME NEW k \in T PROVE m <= k
  <2>1. m \in Nat /\ k \in Nat
    OBVIOUS
  <2>2. <<k, m>> \in Nat \X Nat
    BY <2>1
  <2>3. ~ (<<k, m>>[1] < <<k, m>>[2])
    BY <1>4, <2>2
  <2> QED
    BY <2>1, <2>3
<1> QED
  BY <1>5

\* The list as it grows, entry by entry, up to the n-th.
Builds(f, list, settled, n) ==
    f = [i \in 0..n |-> IF i = 0 THEN <<>>
                        ELSE IF list[i] \in settled THEN f[i - 1] ELSE Append(f[i - 1], list[i])]

LEMMA BuildsUp ==
  ASSUME NEW P, NEW list \in Seq(P), NEW settled
  PROVE  \E f : Builds(f, list, settled, Len(list)) /\ f \in [0..Len(list) -> Seq(P)]
<1> DEFINE Has(n) == \E f : Builds(f, list, settled, n) /\ f \in [0..n -> Seq(P)]
           T == {n \in 0..Len(list) : ~Has(n)}
<1>0. Len(list) \in Nat
  OBVIOUS
<1>1. Has(0)
  <2> DEFINE f == [i \in 0..0 |-> <<>>]
  <2>1. Builds(f, list, settled, 0)
    BY DEF Builds
  <2>2. f \in [0..0 -> Seq(P)]
    BY EmptySeq
  <2> QED
    BY <2>1, <2>2
<1>2. ASSUME NEW n \in 1..Len(list), Has(n - 1) PROVE Has(n)
  <2>1. PICK f : Builds(f, list, settled, n - 1) /\ f \in [0..n - 1 -> Seq(P)]
    BY <1>2
  <2> DEFINE last == IF list[n] \in settled THEN f[n - 1] ELSE Append(f[n - 1], list[n])
             g == [i \in 0..n |-> IF i = n THEN last ELSE f[i]]
  <2>2. n \in Nat /\ n - 1 \in 0..n - 1 /\ n # 0 /\ list[n] \in P
    BY <1>0
  <2>3. last \in Seq(P)
    BY <2>1, <2>2
  <2>4. g \in [0..n -> Seq(P)]
    <3> HIDE DEF last
    <3>1. \A i \in 0..n : i = n \/ i \in 0..n - 1
      BY <2>2
    <3> QED
      BY <2>1, <2>3, <3>1
  <2>5. ASSUME NEW i \in 0..n
        PROVE  g[i] = IF i = 0 THEN <<>>
                      ELSE IF list[i] \in settled THEN g[i - 1] ELSE Append(g[i - 1], list[i])
    <3>1. CASE i = n
      <4>1. g[i] = last /\ g[i - 1] = f[n - 1]
        BY <2>2, <3>1
      <4> QED
        BY <2>2, <3>1, <4>1
    <3>2. CASE i # n
      <4>1. i \in 0..n - 1 /\ (i # 0 => i - 1 \in 0..n /\ i - 1 # n)
        BY <2>2, <3>2
      <4>2. g[i] = f[i] /\ (i # 0 => g[i - 1] = f[i - 1])
        BY <3>2, <4>1
      <4>3. f[i] = IF i = 0 THEN <<>>
                   ELSE IF list[i] \in settled THEN f[i - 1] ELSE Append(f[i - 1], list[i])
        <5> HIDE DEF g
        <5> QED
          BY <2>1, <4>1 DEF Builds
      <4> QED
        BY <4>2, <4>3
    <3> QED
      BY <3>1, <3>2
  <2>6. Builds(g, list, settled, n)
    <3>1. g = [i \in 0..n |-> g[i]]
      OBVIOUS
    <3> HIDE DEF g
    <3> QED
      BY <2>5, <3>1 DEF Builds
  <2> QED
    BY <2>4, <2>6
<1> HIDE DEF Has
<1>3. T = {}
  <2> SUFFICES ASSUME T # {} PROVE FALSE
    OBVIOUS
  <2>1. PICK m \in T : \A k \in T : m <= k
    <3>1. T \in SUBSET Nat
      BY <1>0
    <3> HIDE DEF T
    <3> QED
      BY <3>1, LeastNatural
  <2>2. m # 0 /\ m \in 1..Len(list)
    BY <1>0, <1>1
  <2>3. m - 1 \in 0..Len(list) /\ m - 1 \notin T
    BY <1>0, <2>1, <2>2
  <2> QED
    BY <1>2, <2>2, <2>3
<1>4. Has(Len(list))
  BY <1>0, <1>3
<1> QED
  BY <1>4 DEF Has

\* What is retained: nothing new, and no longer a list; everything not settled.
LEMMA RetainedIs ==
  ASSUME NEW P, NEW list \in Seq(P), NEW settled
  PROVE  /\ Retained(list, settled) \in Seq(P)
         /\ Len(Retained(list, settled)) <= Len(list)
         /\ \A i \in 1..Len(list) :
              list[i] \in settled \/ \E j \in 1..Len(Retained(list, settled)) : Retained(list, settled)[j] = list[i]
<1> DEFINE f == CHOOSE f : Builds(f, list, settled, Len(list))
<1>0. Len(list) \in Nat
  OBVIOUS
<1>1. Retained(list, settled) = f[Len(list)]
  BY DEF Retained, Builds
<1>2. Builds(f, list, settled, Len(list))
  BY BuildsUp
<1> HIDE DEF f
<1>3. \A i \in 0..Len(list) :
        f[i] = IF i = 0 THEN <<>>
               ELSE IF list[i] \in settled THEN f[i - 1] ELSE Append(f[i - 1], list[i])
  BY <1>2 DEF Builds
<1> DEFINE Good(n) == /\ f[n] \in Seq(P) /\ Len(f[n]) <= n
                      /\ \A i \in 1..n : list[i] \in settled \/ \E j \in 1..Len(f[n]) : f[n][j] = list[i]
           T == {n \in 0..Len(list) : ~Good(n)}
<1>4. Good(0)
  <2>1. f[0] = <<>>
    BY <1>0, <1>3
  <2>2. f[0] \in Seq(P) /\ Len(f[0]) = 0 /\ 1..0 = {}
    BY <2>1, EmptySeq
  <2> QED
    BY <2>2
<1>5. ASSUME NEW n \in 1..Len(list), Good(n - 1) PROVE Good(n)
  <2>1. n \in Nat /\ n # 0 /\ n \in 0..Len(list) /\ list[n] \in P
    BY <1>0
  <2>2. f[n] = IF list[n] \in settled THEN f[n - 1] ELSE Append(f[n - 1], list[n])
    BY <1>3, <2>1
  <2>3. f[n - 1] \in Seq(P) /\ Len(f[n - 1]) <= n - 1
        /\ \A i \in 1..n - 1 : list[i] \in settled \/ \E j \in 1..Len(f[n - 1]) : f[n - 1][j] = list[i]
    BY <1>5
  <2>4. CASE list[n] \in settled
    <3>1. f[n] = f[n - 1]
      BY <2>2, <2>4
    <3>2. \A i \in 1..n : i = n \/ i \in 1..n - 1
      BY <2>1
    <3> QED
      BY <2>1, <2>3, <2>4, <3>1, <3>2
  <2>5. CASE list[n] \notin settled
    <3>0. f[n] = Append(f[n - 1], list[n])
      BY <2>2, <2>5
    <3>1. /\ f[n] \in Seq(P) /\ Len(f[n]) = Len(f[n - 1]) + 1 /\ Len(f[n - 1]) \in Nat
          /\ \A j \in 1..Len(f[n - 1]) : f[n][j] = f[n - 1][j]
          /\ f[n][Len(f[n - 1]) + 1] = list[n]
      BY <2>1, <2>3, <3>0, AppendProperties
    <3>2. \A i \in 1..n : i = n \/ i \in 1..n - 1
      BY <2>1
    <3>3. ASSUME NEW i \in 1..n, list[i] \notin settled
          PROVE  \E j \in 1..Len(f[n]) : f[n][j] = list[i]
      <4>1. CASE i = n
        BY <3>1, <4>1
      <4>2. CASE i # n
        <5>1. PICK j \in 1..Len(f[n - 1]) : f[n - 1][j] = list[i]
          BY <2>3, <3>2, <3>3, <4>2
        <5>2. j \in 1..Len(f[n])
          BY <3>1, <5>1
        <5> QED
          BY <3>1, <5>1, <5>2
      <4> QED
        BY <4>1, <4>2
    <3> QED
      BY <2>1, <2>3, <3>1, <3>3
  <2> QED
    BY <2>4, <2>5
<1> HIDE DEF Good
<1>6. T = {}
  <2> SUFFICES ASSUME T # {} PROVE FALSE
    OBVIOUS
  <2>1. PICK m \in T : \A k \in T : m <= k
    <3>1. T \in SUBSET Nat
      BY <1>0
    <3> HIDE DEF T
    <3> QED
      BY <3>1, LeastNatural
  <2>2. m # 0 /\ m \in 1..Len(list)
    BY <1>0, <1>4
  <2>3. m - 1 \in 0..Len(list) /\ m - 1 \notin T
    BY <1>0, <2>1, <2>2
  <2> QED
    BY <1>5, <2>2, <2>3
<1>7. Good(Len(list))
  BY <1>0, <1>6
<1> QED
  BY <1>1, <1>7 DEF Good

-----------------------------------------------------------------------------
(* Newcomers *)

\* The list holds peers and keeps its limit; what a refresh knows was in the
\* store, and what it has read of expulsions is in the store for good.
KeptInv ==
    /\ view.invited \in Seq(Peers) /\ Len(view.invited) <= InvitedMax
    /\ newcomers \subseteq Peers
    /\ rows \subseteq heard
    /\ \A t \in Tasks : /\ task[t].known \subseteq heard \cup {Local}
                       /\ task[t].expelled \subseteq expelled

\* Nobody is forgotten but for the reasons NewcomersAreKept gives.
KeepsNewcomers ==
    \A i \in DOMAIN view.invited :
        LET p == view.invited[i] IN
        \/ \E j \in DOMAIN view'.invited : view'.invited[j] = p
        \/ p \in heard \cup expelled
        \/ i = 1 /\ Len(view.invited) = InvitedMax /\ Len(view'.invited) = InvitedMax

\* Whoever leaves the list alone forgets nobody.
LEMMA SameListKeeps ==
    ASSUME view'.invited = view.invited
    PROVE  KeepsNewcomers
  BY DEF KeepsNewcomers

\* remember_invited: the oldest makes room, and only in a full list.
LEMMA RememberKeeps ==
    ASSUME Shapes, KeptInv, NEW p \in Peers, Remember(p)
    PROVE  KeptInv' /\ KeepsNewcomers
<1>1. PICK q : view \in [known : SUBSET Nodes, expelled : SUBSET Nodes, invited : {q}]
  BY DEF Shapes
<1> DEFINE list == view.invited
           room == IF Len(list) >= InvitedMax THEN Tail(list) ELSE list
<1>2. list \in Seq(Peers) /\ Len(list) \in Nat /\ Len(list) <= InvitedMax
      /\ InvitedMax \in Nat /\ InvitedMax >= 1 /\ DOMAIN list = 1..Len(list)
  BY AdmissionAssumption DEF KeptInv
<1>3. CASE view' = view
  <2>1. KeptInv'
    BY <1>3 DEF Remember, KeptInv, store
  <2> QED
    BY <1>3, <2>1, SameListKeeps
<1>4. CASE view' = [view EXCEPT !.invited = Append(room, p)]
  <2>1. view'.invited = Append(room, p)
    BY <1>1, <1>4
  <2>2. room \in Seq(Peers) /\ Len(room) \in Nat /\ Len(room) + 1 <= InvitedMax
        /\ \A i \in 1..Len(list) :
             \/ i = 1 /\ Len(list) = InvitedMax /\ Len(room) + 1 = InvitedMax
             \/ \E j \in 1..Len(room) : room[j] = list[i]
    <3>1. CASE Len(list) >= InvitedMax
      <4>1. room = Tail(list) /\ list # <<>> /\ Len(list) = InvitedMax
        BY <1>2, <3>1, EmptySeq
      <4>2. room \in Seq(Peers) /\ Len(room) = Len(list) - 1
            /\ \A i \in 1..Len(room) : room[i] = list[i + 1]
        BY <1>2, <4>1, HeadTailProperties
      <4>3. ASSUME NEW i \in 1..Len(list), i # 1 PROVE \E j \in 1..Len(room) : room[j] = list[i]
        <5>1. i - 1 \in 1..Len(room) /\ room[i - 1] = list[(i - 1) + 1] /\ (i - 1) + 1 = i
          BY <1>2, <4>2, <4>3
        <5> QED
          BY <5>1
      <4> HIDE DEF room, list
      <4> QED
        BY <1>2, <4>1, <4>2, <4>3
    <3>2. CASE ~(Len(list) >= InvitedMax)
      BY <1>2, <3>2
    <3> QED
      BY <3>1, <3>2
  <2> HIDE DEF room
  <2>3. view'.invited \in Seq(Peers) /\ Len(view'.invited) = Len(room) + 1
        /\ \A j \in 1..Len(room) : view'.invited[j] = room[j]
        /\ DOMAIN view'.invited = 1..Len(room) + 1
    BY <2>1, <2>2, AppendProperties
  <2>4. KeptInv'
    BY <2>2, <2>3 DEF Remember, KeptInv, store
  <2>5. KeepsNewcomers
    <3> SUFFICES ASSUME NEW i \in 1..Len(list),
                        ~(i = 1 /\ Len(list) = InvitedMax /\ Len(view'.invited) = InvitedMax)
                 PROVE  \E j \in DOMAIN view'.invited : view'.invited[j] = list[i]
      BY <1>2 DEF KeepsNewcomers
    <3>1. PICK j \in 1..Len(room) : room[j] = list[i]
      BY <2>2, <2>3
    <3>2. j \in DOMAIN view'.invited /\ view'.invited[j] = room[j]
      BY <2>2, <2>3
    <3> QED
      BY <3>1, <3>2
  <2> QED
    BY <2>4, <2>5
<1> QED
  BY <1>3, <1>4 DEF Remember

\* replace: what is not retained is in the readings.
LEMMA ReplaceKeeps ==
    ASSUME Shapes, KeptInv, NEW t \in Tasks, Replace(t)
    PROVE  KeptInv' /\ KeepsNewcomers
<1> DEFINE settled == task[t].known \cup task[t].expelled
           left == Retained(view.invited, settled)
<1>1. view.invited \in Seq(Peers) /\ Len(view.invited) \in Nat /\ Len(view.invited) <= InvitedMax
      /\ InvitedMax \in Nat /\ DOMAIN view.invited = 1..Len(view.invited)
  BY AdmissionAssumption DEF KeptInv
<1>2. view'.invited = left
  BY DEF Replace
<1>3. /\ left \in Seq(Peers) /\ Len(left) <= Len(view.invited)
      /\ \A i \in 1..Len(view.invited) :
           view.invited[i] \in settled \/ \E j \in 1..Len(left) : left[j] = view.invited[i]
  BY <1>1, RetainedIs
<1>4. settled \subseteq heard \cup {Local} \cup expelled
  BY DEF KeptInv
<1> HIDE DEF left, settled
<1>5. Len(left) \in Nat /\ DOMAIN left = 1..Len(left)
  BY <1>3
<1>6. KeepsNewcomers
  <2> SUFFICES ASSUME NEW i \in 1..Len(view.invited), view.invited[i] \notin heard \cup expelled
               PROVE  \E j \in DOMAIN view'.invited : view'.invited[j] = view.invited[i]
    BY <1>1 DEF KeepsNewcomers
  <2>1. view.invited[i] \in Peers
    BY <1>1
  <2>2. view.invited[i] \notin settled
    BY <1>4, <2>1, AdmissionAssumption
  <2> QED
    BY <1>2, <1>3, <1>5, <2>2
<1>7. \A u \in Tasks :
        \/ task'[u].known = task[u].known /\ task'[u].expelled = task[u].expelled
        \/ task'[u].known = {} /\ task'[u].expelled = {}
  <2>1. task[t] \in Readings /\ task \in [Tasks -> Readings]
    BY DEF Shapes
  <2> DEFINE confirming == [task[t] EXCEPT !.at = "confirm"]
  <2>2. confirming.known = task[t].known /\ confirming.expelled = task[t].expelled
    BY <2>1 DEF Readings
  <2>3. Resting.known = {} /\ Resting.expelled = {}
    BY DEF Resting
  <2>4. task' = [task EXCEPT ![t] = Resting] \/ task' = [task EXCEPT ![t] = confirming]
    BY DEF Replace, Refreshed
  <2> HIDE DEF confirming
  <2>5. \A u \in Tasks \ {t} : task'[u] = task[u]
    BY <2>1, <2>4
  <2>6. task'[t] = Resting \/ task'[t] = confirming
    BY <2>1, <2>4
  <2> QED
    BY <2>2, <2>3, <2>5, <2>6
<1>8. Len(left) <= InvitedMax
  BY <1>1, <1>3, <1>5
<1>9. KeptInv'
  <2>1. newcomers' = newcomers /\ rows' = rows /\ heard' = heard /\ expelled' = expelled
    BY DEF Replace, store, ledger
  <2> QED
    BY <1>2, <1>3, <1>7, <1>8, <2>1 DEF KeptInv
<1> QED
  BY <1>6, <1>9

\* What the other steps do to what has been read.
LEMMA ReadingsStay ==
    ASSUME Shapes, KeptInv, NEW t \in Tasks,
           \/ ReadMembers(t) \/ ReadExpelled(t) \/ FailRead(t) \/ FailAssertion(t) \/ StartRefresh(t)
           \/ t \in Callers /\ (Confirm(t) \/ \E x \in Nodes : StartExpel(t, x))
    PROVE  KeptInv' /\ KeepsNewcomers
<1>1. task \in [Tasks -> Readings] /\ Reconciler \in Tasks
  BY DEF Shapes, Tasks
<1>2. Resting \in Readings /\ Resting.known = {} /\ Resting.expelled = {}
  BY DEF Resting, Readings, Progress
<1>4. PICK u \in Tasks :
        \E r : /\ task' = [task EXCEPT ![u] = r]
               /\ r.known \subseteq task[u].known \cup Listed \cup {Local}
               /\ r.expelled \subseteq task[u].expelled \cup expelled
  <2>1. CASE ReadMembers(t)
    <3> DEFINE r == [task[t] EXCEPT !.at = "expelled", !.known = Listed \cup {Local}]
    <3>1. task' = [task EXCEPT ![t] = r]
      BY <2>1 DEF ReadMembers
    <3>2. r.known = Listed \cup {Local} /\ r.expelled = task[t].expelled
      BY <1>1 DEF Readings
    <3> HIDE DEF r
    <3> QED
      BY <1>1, <3>1, <3>2
  <2>2. CASE ReadExpelled(t)
    <3> DEFINE r == [task[t] EXCEPT !.at = "replace", !.expelled = expelled]
    <3>1. task' = [task EXCEPT ![t] = r]
      BY <2>2 DEF ReadExpelled
    <3>2. r.known = task[t].known /\ r.expelled = expelled
      BY <1>1 DEF Readings
    <3> HIDE DEF r
    <3> QED
      BY <1>1, <3>1, <3>2
  <2>3. CASE FailRead(t) \/ (t \in Callers /\ Confirm(t))
    <3>1. task' = [task EXCEPT ![t] = Resting]
      BY <2>3 DEF FailRead, Confirm
    <3> QED
      BY <1>2, <3>1
  <2>4. CASE FailAssertion(t)
    <3> DEFINE r == [Resting EXCEPT !.at = "dead"]
    <3>1. task' = [task EXCEPT ![t] = r] \/ task' = [task EXCEPT ![t] = Resting]
      BY <2>4 DEF FailAssertion
    <3>2. r.known = {} /\ r.expelled = {}
      BY DEF Resting
    <3> HIDE DEF r
    <3> QED
      BY <1>2, <3>1, <3>2
  <2>5. CASE StartRefresh(t)
    <3> DEFINE r == [Resting EXCEPT !.at = "members"]
    <3>1. task' = [task EXCEPT ![t] = r]
      BY <2>5 DEF StartRefresh
    <3>2. r.known = {} /\ r.expelled = {}
      BY DEF Resting
    <3> HIDE DEF r
    <3> QED
      BY <1>1, <3>1, <3>2
  <2>6. CASE \E x \in Nodes : StartExpel(t, x)
    <3>0. PICK x \in Nodes : StartExpel(t, x)
      BY <2>6
    <3> DEFINE r == [Resting EXCEPT !.at = "members", !.target = x,
                                    !.alone = \A v \in Tasks : ~ReadsNow(v)]
    <3>1. task' = [task EXCEPT ![t] = r]
      BY <3>0 DEF StartExpel
    <3>2. r.known = {} /\ r.expelled = {}
      BY DEF Resting
    <3> HIDE DEF r
    <3> QED
      BY <3>1, <3>2
  <2> QED
    BY <2>1, <2>2, <2>3, <2>4, <2>5, <2>6
<1>5. view' = view /\ newcomers' = newcomers /\ heard' = heard
      /\ rows' \subseteq rows /\ expelled \subseteq expelled'
  BY DEF ReadMembers, ReadExpelled, FailRead, FailAssertion, StartRefresh, Confirm, StartExpel,
         Expulsion, store, ledger
<1>6. KeptInv'
  BY <1>1, <1>4, <1>5 DEF KeptInv, Listed
<1> QED
  BY <1>5, <1>6, SameListKeeps

LEMMA InitKept == Init => KeptInv
  BY AdmissionAssumption, EmptySeq DEF Init, KeptInv, FirstView, Resting

\* Every step keeps the list within its limit, and forgets nobody but the
\* settled and the oldest of a full list.
LEMMA NextKept ==
    ASSUME Shapes, KeptInv, [Next]_vars
    PROVE  KeptInv' /\ (Restart \/ KeepsNewcomers)
<1>1. CASE StoreChanges \/ (\E k \in Tokens : Mint(k) \/ Expire(k))
           \/ (\E p \in Peers, k \in Tokens : Present(p, k) \/ Redeem(p, k)) \/ UNCHANGED vars
  <2>1. /\ view' = view /\ task' = task /\ heard \subseteq heard' /\ expelled \subseteq expelled'
        /\ rows' \subseteq rows \cup (heard' \cap rows')
    BY <1>1 DEF StoreChanges, Hear, Supersede, HearExpulsion, Expulsion, Mint, Expire, Present,
                Redeem, vars, store, ledger
  <2>2. rows' \subseteq heard' /\ newcomers' \subseteq Peers
    BY <1>1 DEF KeptInv, StoreChanges, Hear, Supersede, HearExpulsion, Expulsion, Mint, Expire,
                Present, Redeem, vars, store, ledger
  <2>3. KeptInv'
    BY <2>1, <2>2 DEF KeptInv
  <2> QED
    BY <2>1, <2>3, SameListKeeps
<1>2. CASE \E p \in Peers : Remember(p)
  BY <1>2, RememberKeeps
<1>3. CASE \E t \in Tasks : StartRefresh(t) \/ Refreshes(t)
  BY <1>3, ReplaceKeeps, ReadingsStay DEF Refreshes
<1>4. CASE \E c \in Callers : Confirm(c) \/ \E x \in Nodes : StartExpel(c, x)
  <2>1. Callers \subseteq Tasks
    BY DEF Tasks
  <2> QED
    BY <1>4, <2>1, ReadingsStay
<1>5. CASE Restart
  <2>1. /\ view'.invited = <<>> /\ newcomers' = {} /\ UNCHANGED <<rows, expelled, heard>>
        /\ \A t \in Tasks : task'[t] = Resting
    BY <1>5 DEF Restart, FirstView, store
  <2>2. KeptInv'
    BY <2>1, AdmissionAssumption, EmptySeq DEF KeptInv, Resting
  <2> QED
    BY <1>5, <2>2
<1> QED
  BY <1>1, <1>2, <1>3, <1>4, <1>5 DEF Next, Handshakes

\* A newcomer whose invitation was redeemed stays remembered until the store
\* has shown its record or its expulsion or a full list needs its place,
\* whatever refreshes replace the view meanwhile; only a restart forgets the
\* list.  For limits and lists of any length.
THEOREM NewcomersStay == Spec => NewcomersAreKept
<1>1. Init => IInv /\ KeptInv
  BY InitIInv, InitKept
<1>2. (IInv /\ KeptInv) /\ [Next]_vars => (IInv /\ KeptInv)'
  BY NextIInv, NextKept DEF IInv
<1>3. (IInv /\ KeptInv) /\ [Next]_vars => [Restart \/ KeepsNewcomers]_vars
  BY NextKept DEF IInv
<1>4. [Restart \/ KeepsNewcomers]_vars =>
        [\/ Restart
         \/ \A i \in DOMAIN view.invited :
              LET p == view.invited[i] IN
              \/ \E j \in DOMAIN view'.invited : view'.invited[j] = p
              \/ p \in heard \cup expelled
              \/ i = 1 /\ Len(view.invited) = InvitedMax /\ Len(view'.invited) = InvitedMax]_vars
  BY DEF KeepsNewcomers
<1> QED
  BY <1>1, <1>2, <1>3, <1>4, PTL DEF Spec, NewcomersAreKept

-----------------------------------------------------------------------------
(* Reasons to admit and to refuse *)

Redeemers == {s[1] : s \in spent}

\* Whatever the view says of a peer has come to it from the store, or from an
\* invitation that was redeemed.
ReasonsInv ==
    /\ view.expelled \subseteq expelled
    /\ view.known \subseteq heard \cup {Local}
    /\ newcomers \subseteq Redeemers
    /\ view.invited \in Seq(Redeemers)

\* A list of redeemers is one when there are more of them.
LEMMA MoreRedeemers ==
    ASSUME NEW A, NEW B, A \subseteq B, NEW list \in Seq(A)
    PROVE  list \in Seq(B)
<1>1. list \in [1..Len(list) -> A] /\ Len(list) \in Nat
  OBVIOUS
<1>2. list \in [1..Len(list) -> B]
  BY <1>1
<1> QED
  BY <1>1, <1>2

\* A view that stays has its reasons still: they only grow.
LEMMA ReasonsGrow ==
    ASSUME ReasonsInv, view' = view, newcomers' \subseteq Redeemers',
           expelled \subseteq expelled', heard \subseteq heard', spent \subseteq spent'
    PROVE  ReasonsInv'
<1>1. Redeemers \subseteq Redeemers'
  BY DEF Redeemers
<1>2. view'.invited \in Seq(Redeemers')
  BY <1>1, MoreRedeemers DEF ReasonsInv
<1> QED
  BY <1>2 DEF ReasonsInv

\* remember_invited remembers one who redeemed.
LEMMA RememberHasReasons ==
    ASSUME Shapes, ReasonsInv, NEW p \in Peers, Remember(p)
    PROVE  ReasonsInv'
<1>1. PICK q : view \in [known : SUBSET Nodes, expelled : SUBSET Nodes, invited : {q}]
  BY DEF Shapes
<1> DEFINE list == view.invited
           room == IF Len(list) >= InvitedMax THEN Tail(list) ELSE list
<1>2. /\ list \in Seq(Redeemers) /\ p \in Redeemers /\ Redeemers' = Redeemers
      /\ newcomers' \subseteq Redeemers
      /\ expelled' = expelled /\ heard' = heard
      /\ view' = view \/ view' = [view EXCEPT !.invited = Append(room, p)]
  BY DEF Remember, ReasonsInv, Redeemers, store
<1>3. Append(room, p) \in Seq(Redeemers)
  <2>1. InvitedMax \in Nat /\ InvitedMax >= 1
    BY AdmissionAssumption
  <2>2. room \in Seq(Redeemers)
    <3>1. CASE Len(list) >= InvitedMax
      <4>1. list # <<>>
        BY <2>1, <3>1, EmptySeq
      <4> QED
        BY <1>2, <3>1, <4>1, HeadTailProperties
    <3> QED
      BY <1>2, <3>1
  <2> HIDE DEF room
  <2> QED
    BY <1>2, <2>2, AppendProperties
<1> HIDE DEF room
<1>4. /\ view'.expelled = view.expelled /\ view'.known = view.known
      /\ view'.invited = list \/ view'.invited = Append(room, p)
  BY <1>1, <1>2
<1> QED
  BY <1>2, <1>3, <1>4 DEF ReasonsInv

\* replace: the readings are of the store, and nobody is invited by it.
LEMMA ReplaceHasReasons ==
    ASSUME KeptInv, ReasonsInv, NEW t \in Tasks, Replace(t)
    PROVE  ReasonsInv'
<1> DEFINE left == Retained(view.invited, task[t].known \cup task[t].expelled)
<1>1. /\ view'.known = task[t].known /\ view'.expelled = task[t].expelled /\ view'.invited = left
      /\ newcomers' = newcomers /\ expelled' = expelled /\ heard' = heard /\ spent' = spent
  BY DEF Replace, store, ledger
<1>2. left \in Seq(Redeemers)
  BY RetainedIs DEF ReasonsInv
<1> HIDE DEF left
<1> QED
  BY <1>1, <1>2 DEF ReasonsInv, KeptInv, Redeemers

LEMMA NextReasons ==
    ASSUME Shapes, KeptInv, ReasonsInv, [Next]_vars
    PROVE  ReasonsInv'
<1>1. CASE StoreChanges
  <2>1. /\ view' = view /\ newcomers' = newcomers /\ spent' = spent
        /\ expelled \subseteq expelled' /\ heard \subseteq heard'
    BY <1>1 DEF StoreChanges, Hear, Supersede, HearExpulsion, Expulsion, ledger
  <2> QED
    BY <2>1, ReasonsGrow DEF ReasonsInv, Redeemers
<1>2. CASE \/ \E k \in Tokens : Mint(k) \/ Expire(k)
           \/ \E p \in Peers, k \in Tokens : Present(p, k)
           \/ (\E t \in Tasks : StartRefresh(t)) \/ UNCHANGED vars
  <2>1. /\ view' = view /\ newcomers' = newcomers /\ spent' = spent
        /\ expelled' = expelled /\ heard' = heard
    BY <1>2 DEF Mint, Expire, Present, StartRefresh, vars, store, ledger
  <2> QED
    BY <2>1, ReasonsGrow DEF ReasonsInv, Redeemers
<1>3. ASSUME NEW p \in Peers, NEW k \in Tokens, Redeem(p, k) PROVE ReasonsInv'
  <2>1. /\ view' = view /\ expelled' = expelled /\ heard' = heard
        /\ \/ newcomers' = newcomers /\ spent' = spent
           \/ newcomers' = newcomers \cup {p} /\ spent' = spent \cup {<<p, k>>}
    BY <1>3 DEF Redeem, store
  <2>2. newcomers' \subseteq Redeemers' /\ spent \subseteq spent'
    BY <2>1 DEF ReasonsInv, Redeemers
  <2> QED
    BY <2>1, <2>2, ReasonsGrow
<1>4. ASSUME NEW p \in Peers, Remember(p) PROVE ReasonsInv'
  BY <1>4, RememberHasReasons
<1>5. ASSUME NEW t \in Tasks, Refreshes(t) PROVE ReasonsInv'
  <2>1. CASE Replace(t)
    BY <2>1, ReplaceHasReasons
  <2>2. CASE ReadMembers(t) \/ ReadExpelled(t) \/ FailRead(t) \/ FailAssertion(t)
    <3>1. /\ view' = view /\ newcomers' = newcomers /\ spent' = spent
          /\ expelled' = expelled /\ heard' = heard
      BY <2>2 DEF ReadMembers, ReadExpelled, FailRead, FailAssertion, store, ledger
    <3> QED
      BY <3>1, ReasonsGrow DEF ReasonsInv, Redeemers
  <2> QED
    BY <1>5, <2>1, <2>2 DEF Refreshes
<1>6. ASSUME NEW c \in Callers, Confirm(c) \/ \E x \in Nodes : StartExpel(c, x) PROVE ReasonsInv'
  <2>1. /\ view' = view /\ newcomers' = newcomers /\ spent' = spent
        /\ expelled \subseteq expelled' /\ heard' = heard
    BY <1>6 DEF Confirm, StartExpel, Expulsion, store, ledger
  <2> QED
    BY <2>1, ReasonsGrow DEF ReasonsInv, Redeemers
<1>7. CASE Restart
  <2>1. /\ view'.known = Listed \cup {Local} /\ view'.expelled = expelled /\ view'.invited = <<>>
        /\ newcomers' = {} /\ spent' = spent /\ UNCHANGED <<rows, expelled, heard>>
    BY <1>7 DEF Restart, FirstView, store
  <2>2. view'.invited \in Seq(Redeemers')
    BY <2>1, EmptySeq
  <2> QED
    BY <2>1, <2>2 DEF ReasonsInv, KeptInv, Listed
<1> QED
  BY <1>1, <1>2, <1>3, <1>4, <1>5, <1>6, <1>7 DEF Next, Handshakes

VerdictsHaveReasons ==
    \A p \in Peers :
      /\ Verdict(p) = "admitted" => p \in heard \/ \E k \in Tokens : <<p, k>> \in spent
      /\ Verdict(p) = "refused" => p \in expelled

\* A peer is admitted only if its node record has been in the store or it has
\* redeemed an invitation itself, and refused only if an expulsion in the
\* store names it: no overlap of refreshes, restarts and handshakes lets a
\* stranger in or shuts a member out (the policy's admit).  A stale view
\* can be late, never wrong about what was.
THEOREM VerdictsAreDue == Spec => []VerdictsHaveReasons
<1>1. Init => ReasonsInv
  BY EmptySeq DEF Init, ReasonsInv, FirstView, Listed, Redeemers
<1>2. Init => IInv /\ KeptInv /\ ReasonsInv
  BY <1>1, InitIInv, InitKept
<1>3. (IInv /\ KeptInv /\ ReasonsInv) /\ [Next]_vars => (IInv /\ KeptInv /\ ReasonsInv)'
  BY NextIInv, NextKept, NextReasons DEF IInv
<1>4. IInv /\ ReasonsInv => VerdictsHaveReasons
  <2> SUFFICES ASSUME IInv, ReasonsInv, NEW p \in Peers
               PROVE  /\ Verdict(p) = "admitted" => p \in heard \/ \E k \in Tokens : <<p, k>> \in spent
                      /\ Verdict(p) = "refused" => p \in expelled
    BY DEF VerdictsHaveReasons
  <2>1. /\ Verdict(p) = "admitted" => p \in view.known \/ IsInvited(p)
        /\ Verdict(p) = "refused" => p \in view.expelled
    BY DEF Verdict
  <2>2. p \in view.known => p \in heard
    BY AdmissionAssumption DEF ReasonsInv
  <2>3. IsInvited(p) => \E k \in Tokens : <<p, k>> \in spent
    <3>1. IsInvited(p) => p \in Redeemers
      BY DEF IsInvited, ReasonsInv
    <3> QED
      BY <3>1 DEF IInv, Shapes, Redeemers
  <2> QED
    BY <2>1, <2>2, <2>3 DEF ReasonsInv
<1> QED
  BY <1>2, <1>3, <1>4, PTL DEF Spec
=============================================================================
