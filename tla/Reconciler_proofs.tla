-------------------------- MODULE Reconciler_proofs --------------------------
(***************************************************************************)
(* What the reconciler guarantees for every set of entries, plugins and    *)
(* compositions.  The inductive invariant adds to the properties of        *)
(* Reconciler what relates handles to bindings while a closure is being    *)
(* unwound, and what a reconcile still has to remove and mount.            *)
(***************************************************************************)
EXTENDS Reconciler, TLAPS

Fibers == \A e \in Entries : state[e] = "none" <=> plugin[e] = None

\* A handle that has not gone is the binding of an injected key.
HandlesTrue ==
    \A e \in Active, k \in Keys : handle[e][k] \in Entries =>
        k \in Injected(plugin[e]) /\ bound[k] = handle[e][k]

\* What is being unwound is active, and so is nothing else that consumes it.
UnloadClosed ==
    /\ unloading \subseteq Active
    /\ \A m \in unloading, c \in Active : Consumes(c, m) => c \in unloading

\* What is gone has no place in the target, what is to be mounted has one.
AgendaFits ==
    /\ \A e \in gone : target[e] = None
    /\ \A e \in mounts : target[e] # None

\* What is left to do takes the tree to the target.
AgendaLeads == \A e \in Entries : plugin[e] # target[e] => e \in gone \cup mounts

\* And the target is what the file says, except after a rollback to a file
\* that cannot be built.
FileLeads ==
    /\ edit.stage = "refused" => phase = "busy" /\ gone = {} /\ mounts = {}
    /\ phase = "busy" /\ edit.stage \in {"none", "attempt", "rollback"} =>
         \/ target = overlay /\ AgendaLeads
         \/ Refused(overlay) /\ gone = {} /\ mounts = {}

\* An idle kernel has settled.
IdleIsSettled ==
    /\ phase # "busy" => gone = {} /\ mounts = {} /\ unloading = {} /\ restarts = {}
    /\ phase = "idle" => \A e \in Entries : ~Activatable(e)

\* No set of active fibers requires itself: one of them could go first.
Grounded ==
    \A C \in (SUBSET Active) \ {{}} :
        \E e \in C : \A k \in Required[plugin[e]] : bound[k] \notin C

TreeInv == /\ Fibers /\ BindingsBelong /\ HandlesTrue
           /\ UnloadClosed /\ RequirementsMet /\ HandlesFresh /\ Grounded

IInv == TypeOK /\ TreeInv /\ AgendaFits /\ FileLeads /\ IdleIsSettled

-----------------------------------------------------------------------------
(* The closure *)

\* The closure of an active fiber has it, holds active fibers only, and every
\* active consumer of a member (dependent_closure).
LEMMA ClosureCloses ==
    ASSUME NEW e \in Active
    PROVE  /\ e \in Closure(e)
           /\ Closure(e) \subseteq Active
           /\ \A m \in Closure(e), c \in Active : Consumes(c, m) => c \in Closure(e)
BY DEF Closure

-----------------------------------------------------------------------------
(* Steps that leave the tree alone *)

LEMMA QuietSteps ==
    ASSUME TreeInv, UNCHANGED <<tree, unloading, restarts>>
    PROVE  TreeInv'
<1> USE DEF tree
<1>1. Fibers' BY DEF TreeInv, Fibers
<1>2. BindingsBelong' BY DEF TreeInv, BindingsBelong, Active
<1>3. HandlesTrue' BY DEF TreeInv, HandlesTrue, Active, Injected
<1>4. UnloadClosed' BY DEF TreeInv, UnloadClosed, Active, Consumes, Injected
<1>5. RequirementsMet' BY DEF TreeInv, RequirementsMet, Active
<1>6. HandlesFresh' BY DEF TreeInv, HandlesFresh, Active, Injected
<1>7. Grounded' BY DEF TreeInv, Grounded, Active
<1>8. QED BY <1>1, <1>2, <1>3, <1>4, <1>5, <1>6, <1>7 DEF TreeInv

-----------------------------------------------------------------------------
(* Steps that start an unload *)

LEMMA UnloadKeepsTree ==
    ASSUME TypeOK, TreeInv, NEW e \in Entries, unloading = {},
           Unload(e), UNCHANGED tree,
           restarts' = restarts \/ restarts' = restarts \ {e}
    PROVE  TreeInv'
<1> USE DEF tree
<1>1. Fibers' BY DEF TreeInv, Fibers
<1>2. BindingsBelong' BY DEF TreeInv, BindingsBelong, Active
<1>3. HandlesTrue' BY DEF TreeInv, HandlesTrue, Active, Injected
<1>4. UnloadClosed'
  <2>1. CASE e \in Active
    <3>1. unloading' = Closure(e) /\ Active' = Active BY <2>1 DEF Unload, Active
    <3>2. \A c, m : Consumes(c, m)' <=> Consumes(c, m) BY DEF Consumes, Injected
    <3>3. QED BY <3>1, <3>2, <2>1, ClosureCloses DEF UnloadClosed
  <2>2. CASE e \notin Active
    BY <2>2 DEF Unload, UnloadClosed
  <2>3. QED BY <2>1, <2>2
<1>5. RequirementsMet' BY DEF TreeInv, RequirementsMet, Active
<1>6. HandlesFresh'
  <2>1. CASE e \in Active
    <3>1. e \in unloading' BY <2>1, ClosureCloses DEF Unload
    <3>2. QED BY <3>1 DEF TreeInv, HandlesFresh, Active, Injected
  <2>2. CASE e \notin Active
    <3>1. unloading' = {} BY <2>2 DEF Unload
    <3>2. QED BY <2>2, <3>1 DEF TreeInv, HandlesFresh, Active, Injected
  <2>3. QED BY <2>1, <2>2
<1>7. Grounded' BY DEF TreeInv, Grounded, Active
<1>8. QED BY <1>1, <1>2, <1>3, <1>4, <1>5, <1>6, <1>7 DEF TreeInv

-----------------------------------------------------------------------------
(* Steps that change one fiber that is not active, and stays so *)

LEMMA InactiveKeepsTree ==
    ASSUME TypeOK, TreeInv, NEW e \in Entries, e \notin Active,
           NEW p, NEW s, s # "active", s = "none" <=> p = None,
           plugin' = [plugin EXCEPT ![e] = p], state' = [state EXCEPT ![e] = s],
           UNCHANGED <<bound, handle, unloading, restarts>>
    PROVE  TreeInv'
<1>1. Active' = Active BY DEF Active, TypeOK
<1>2. \A d \in Active : plugin'[d] = plugin[d] BY DEF TypeOK, Active
<1>3. Fibers' BY DEF TreeInv, Fibers, TypeOK
<1>4. BindingsBelong' BY <1>1, <1>2 DEF TreeInv, BindingsBelong
<1>5. HandlesTrue' BY <1>1, <1>2 DEF TreeInv, HandlesTrue, Injected
<1>6. UnloadClosed' BY <1>1, <1>2 DEF TreeInv, UnloadClosed, Consumes, Injected
<1>7. RequirementsMet' BY <1>1, <1>2 DEF TreeInv, RequirementsMet
<1>8. HandlesFresh' BY <1>1, <1>2 DEF TreeInv, HandlesFresh, Injected
<1>9. Grounded' BY <1>1, <1>2 DEF TreeInv, Grounded
<1>10. QED BY <1>3, <1>4, <1>5, <1>6, <1>7, <1>8, <1>9 DEF TreeInv

-----------------------------------------------------------------------------
(* Unwinding a member *)

LEMMA UnwindKeepsTree ==
    ASSUME TypeOK, TreeInv, NEW v \in Entries, Unwind(v)
    PROVE  TreeInv'
<1> USE ReconcilerAssumption
<1>1. /\ v \in unloading /\ v \in Active
      /\ unloading' = unloading \ {v}
      /\ UNCHANGED <<plugin, restarts>>
      BY DEF Unwind, UnloadClosed, TreeInv
<1>2. Active' = Active \ {v} BY DEF Unwind, Active, TypeOK
<1>3. /\ \A k \in Keys : bound'[k] = IF bound[k] = v THEN None ELSE bound[k]
      /\ \A e \in Entries \ {v}, k \in Keys :
            handle'[e][k] = IF handle[e][k] = v THEN Gone ELSE handle[e][k]
      BY DEF Unwind, Unbound
<1>4. \A e \in Active, k \in Keys :
        k \in Injected(plugin[e]) /\ bound[k] = v => e \in unloading
      BY <1>1 DEF TreeInv, UnloadClosed, Consumes
<1>5. \A e \in Entries : plugin[e] # None =>
        Required[plugin[e]] \subseteq Keys /\ Injected(plugin[e]) \subseteq Keys
        /\ Provided[plugin[e]] \subseteq Keys
      BY DEF Injected, TypeOK
<1>6. \A e \in Active : plugin[e] # None /\ e \in Entries
      BY DEF TreeInv, Fibers, Active
<1>7. Fibers' BY <1>1, <1>6 DEF Unwind, TreeInv, Fibers, TypeOK
<1>8. BindingsBelong'
      BY <1>1, <1>2, <1>3, <1>5, <1>6 DEF TreeInv, BindingsBelong
<1>9. HandlesTrue'
      BY <1>1, <1>2, <1>3, <1>6 DEF TreeInv, HandlesTrue, Injected
<1>10. UnloadClosed'
  <2>1. unloading' \subseteq Active' BY <1>1, <1>2 DEF TreeInv, UnloadClosed
  <2>2. ASSUME NEW m \in unloading', NEW c \in Active', Consumes(c, m)'
        PROVE  c \in unloading'
    <3>1. PICK k \in Injected(plugin[c]) : bound'[k] = m
          BY <1>1, <2>2 DEF Consumes, Injected
    <3>2. k \in Keys BY <1>2, <1>5, <1>6
    <3>3. m \in Entries /\ m # None BY <1>1 DEF TypeOK
    <3>4. bound[k] = m BY <1>3, <3>1, <3>2, <3>3
    <3>5. Consumes(c, m) BY <3>1, <3>4 DEF Consumes
    <3>6. c \in unloading BY <1>1, <1>2, <3>5 DEF TreeInv, UnloadClosed
    <3>7. QED BY <3>6, <1>1, <1>2
  <2>3. QED BY <2>1, <2>2 DEF UnloadClosed
<1>11. ASSUME NEW e \in Active' \ unloading', NEW k \in Injected(plugin[e])
       PROVE  k \in Keys /\ e \in Active \ unloading /\ bound[k] # v /\ bound'[k] = bound[k]
       BY <1>1, <1>2, <1>3, <1>4, <1>5, <1>6
<1>12. RequirementsMet'
  <2> SUFFICES ASSUME NEW e \in Active' \ unloading', NEW k \in Required[plugin[e]]
               PROVE  bound'[k] \in Active'
      BY <1>1 DEF RequirementsMet
  <2>1. k \in Injected(plugin[e]) BY DEF Injected
  <2>2. bound[k] \in Active BY <1>11, <2>1 DEF TreeInv, RequirementsMet
  <2>3. QED BY <1>2, <1>11, <2>1, <2>2
<1>13. HandlesFresh'
  <2> SUFFICES ASSUME NEW e \in Active' \ (unloading' \cup restarts'),
                      NEW k \in Injected(plugin[e]) \ Provided[plugin[e]]
               PROVE  handle'[e][k] = bound'[k]
      BY <1>1 DEF HandlesFresh, Injected
  <2>1. handle[e][k] = bound[k] BY <1>1, <1>11 DEF TreeInv, HandlesFresh
  <2>2. e \in Entries \ {v} BY <1>2, <1>6
  <2>3. QED BY <1>3, <1>11, <2>1, <2>2
<1>14. Grounded'
  <2> SUFFICES ASSUME NEW C \in SUBSET Active', C # {}
               PROVE  \E e \in C : \A k \in Required[plugin[e]] : bound'[k] \notin C
    BY <1>1 DEF Grounded
  <2>1. C \subseteq Active /\ None \notin C BY <1>2, <1>6
  <2>2. PICK e \in C : \A k \in Required[plugin[e]] : bound[k] \notin C
    BY <2>1 DEF TreeInv, Grounded
  <2>3. \A k \in Required[plugin[e]] : bound'[k] = bound[k] \/ bound'[k] = None
    BY <1>3, <1>5, <1>6, <2>1
  <2>4. QED BY <2>1, <2>2, <2>3
<1>15. QED BY <1>7, <1>8, <1>9, <1>10, <1>12, <1>13, <1>14 DEF TreeInv

-----------------------------------------------------------------------------
(* Activating a fiber *)

LEMMA ActivateKeepsTree ==
    ASSUME TypeOK, TreeInv, NEW e \in Entries, Activate(e)
    PROVE  TreeInv'
<1> USE ReconcilerAssumption
<1>1. /\ state[e] = "pending" /\ e \notin Active
      /\ unloading = {} /\ restarts = {}
      /\ UNCHANGED <<plugin, unloading>>
      /\ \A k \in Required[plugin[e]] : bound[k] # None
      /\ \A k \in Provided[plugin[e]] : bound[k] = None
      /\ restarts' = {d \in Active : Injected(plugin[d]) \cap Provided[plugin[e]] # {}}
      BY DEF Activate, Next_activatable, Settling, Activatable, Conflict, Bind, Active
<1>2. Active' = Active \cup {e} BY DEF Activate, Bind, Active, TypeOK
<1>3. \A d \in Active' : plugin[d] # None /\ d \in Entries
      BY <1>1, <1>2 DEF TreeInv, Fibers, Active
<1>4. \A d \in Active' : Required[plugin[d]] \subseteq Keys
        /\ Injected(plugin[d]) \subseteq Keys /\ Provided[plugin[d]] \subseteq Keys
      BY <1>3 DEF Injected, TypeOK
<1>5. /\ \A k \in Keys : bound'[k] = IF k \in Provided[plugin[e]] THEN e ELSE bound[k]
      /\ \A k \in Keys : handle'[e][k] = IF k \in Injected(plugin[e]) THEN bound[k] ELSE None
      /\ \A d \in Entries \ {e} : handle'[d] = handle[d]
      BY DEF Activate, Bind, TypeOK
<1>6. Fibers' BY <1>1, <1>2, <1>3 DEF Activate, Bind, TreeInv, Fibers, TypeOK
<1>7. BindingsBelong'
      BY <1>1, <1>2, <1>3, <1>4, <1>5 DEF TreeInv, BindingsBelong
<1>8. HandlesTrue'
  <2> SUFFICES ASSUME NEW d \in Active', NEW k \in Keys, handle'[d][k] \in Entries
               PROVE  k \in Injected(plugin[d]) /\ bound'[k] = handle'[d][k]
      BY <1>1 DEF HandlesTrue, Injected
  <2>1. CASE d = e BY <1>1, <1>5, <2>1
  <2>2. CASE d # e
    <3>1. d \in Active /\ handle'[d][k] = handle[d][k] BY <1>2, <1>3, <1>5, <2>2
    <3>2. k \in Injected(plugin[d]) /\ bound[k] = handle[d][k]
          BY <3>1 DEF TreeInv, HandlesTrue
    <3>3. k \notin Provided[plugin[e]] BY <1>1, <3>1, <3>2
    <3>4. QED BY <1>5, <3>1, <3>2, <3>3
  <2>3. QED BY <2>1, <2>2
<1>9. UnloadClosed' BY <1>1 DEF UnloadClosed
<1>10. RequirementsMet'
  <2> SUFFICES ASSUME NEW d \in Active', NEW k \in Required[plugin[d]]
               PROVE  bound'[k] \in Active'
      BY <1>1 DEF RequirementsMet
  <2>1. k \in Keys BY <1>4
  <2>2. bound[k] \in Active
    <3>1. CASE d = e BY <1>1, <2>1, <3>1 DEF TreeInv, BindingsBelong
    <3>2. CASE d # e BY <1>1, <1>2, <3>2 DEF TreeInv, RequirementsMet
    <3>3. QED BY <3>1, <3>2
  <2>3. QED BY <1>2, <1>5, <2>1, <2>2
<1>11. HandlesFresh'
  <2> SUFFICES ASSUME NEW d \in Active' \ restarts',
                      NEW k \in Injected(plugin[d]) \ Provided[plugin[d]]
               PROVE  handle'[d][k] = bound'[k]
      BY <1>1 DEF HandlesFresh, Injected
  <2>1. k \in Keys BY <1>4
  <2>2. CASE d = e BY <1>5, <2>1, <2>2
  <2>3. CASE d # e
    <3>1. d \in Active /\ k \notin Provided[plugin[e]] BY <1>1, <1>2, <2>3
    <3>2. handle[d][k] = bound[k] BY <1>1, <3>1 DEF TreeInv, HandlesFresh
    <3>3. QED BY <1>3, <1>5, <2>1, <2>3, <3>1, <3>2
  <2>4. QED BY <2>2, <2>3
<1>12. Grounded'
  <2> SUFFICES ASSUME NEW C \in SUBSET Active', C # {}
               PROVE  \E d \in C : \A k \in Required[plugin[d]] : bound'[k] \notin C
    BY <1>1 DEF Grounded
  <2>1. ASSUME NEW d \in Active', NEW k \in Required[plugin[d]]
        PROVE  bound'[k] = bound[k] /\ bound[k] \in Active
    <3>1. k \in Keys BY <1>4
    <3>2. bound[k] \in Active
      <4>1. CASE d = e BY <1>1, <3>1, <4>1 DEF TreeInv, BindingsBelong
      <4>2. CASE d # e BY <1>1, <1>2, <4>2 DEF TreeInv, RequirementsMet
      <4>3. QED BY <4>1, <4>2
    <3>3. bound[k] # None BY <3>2 DEF Active
    <3>4. k \notin Provided[plugin[e]] BY <1>1, <3>3
    <3>5. QED BY <1>5, <3>1, <3>2, <3>4
  <2>2. CASE C \ {e} = {}
    <3>1. C = {e} BY <2>2
    <3>2. QED BY <1>1, <2>1, <3>1
  <2>3. CASE C \ {e} # {}
    <3>1. C \ {e} \in SUBSET Active BY <1>2
    <3>2. PICK d \in C \ {e} : \A k \in Required[plugin[d]] : bound[k] \notin C \ {e}
      BY <2>3, <3>1 DEF TreeInv, Grounded
    <3>3. \A k \in Required[plugin[d]] : bound'[k] \notin C
      BY <1>1, <2>1, <3>2
    <3>4. QED BY <3>2, <3>3
  <2>4. QED BY <2>2, <2>3
<1>13. QED BY <1>6, <1>7, <1>8, <1>9, <1>10, <1>11, <1>12 DEF TreeInv

-----------------------------------------------------------------------------
(* Every step keeps the tree *)

\* Whatever the kernel does to its fibers, it keeps TreeInv.
LEMMA StepKeepsTree ==
    ASSUME TypeOK, TreeInv, AgendaFits, Next
    PROVE  TreeInv'
<1> USE ReconcilerAssumption
<1>1. ASSUME NEW e \in Entries, Remove(e) PROVE TreeInv'
  <2>1. CASE e \in Active
    BY <1>1, <2>1, UnloadKeepsTree DEF Remove, Replacing, tree
  <2>2. CASE e \notin Active
    BY <1>1, <2>2, InactiveKeepsTree DEF Remove, Replacing
  <2>3. QED BY <2>1, <2>2
<1>2. ASSUME NEW e \in Entries, Mount(e) PROVE TreeInv'
  <2>1. CASE e \in Active
    BY <1>2, <2>1, UnloadKeepsTree DEF Mount, Replacing, tree
  <2>2. CASE e \notin Active
    BY <1>2, <2>2, InactiveKeepsTree DEF Mount, Replacing, AgendaFits
  <2>3. QED BY <2>1, <2>2
<1>3. ASSUME NEW e \in Entries, Unwind(e) PROVE TreeInv'
  BY <1>3, UnwindKeepsTree
<1>4. ASSUME NEW e \in Entries, Activate(e) PROVE TreeInv'
  BY <1>4, ActivateKeepsTree
<1>5. ASSUME NEW e \in Entries, FailApply(e) \/ Exhaust(e) PROVE TreeInv'
  <2>1. /\ state[e] = "pending" /\ e \notin Active
        /\ state' = [state EXCEPT ![e] = "failed"]
        /\ UNCHANGED <<plugin, bound, handle, unloading, restarts>>
    <3>1. CASE FailApply(e)
      BY <3>1 DEF FailApply, Next_activatable, Activatable, Active
    <3>2. CASE Exhaust(e)
      BY <3>2 DEF Exhaust, Next_activatable, Activatable, Active, agenda
    <3>3. QED BY <1>5, <3>1, <3>2
  <2>2. plugin[e] # None BY <2>1 DEF TreeInv, Fibers
  <2>3. plugin' = [plugin EXCEPT ![e] = plugin[e]] BY <2>1 DEF TypeOK
  <2>4. QED BY <2>1, <2>2, <2>3, InactiveKeepsTree
<1>6. ASSUME NEW e \in Entries, Restart(e) PROVE TreeInv'
  BY <1>6, UnloadKeepsTree DEF Restart, Settling
<1>7. CASE Finish \/ RollBack \/ Boot \/ Shutdown
  BY <1>7, QuietSteps DEF Finish, RollBack, Boot, Shutdown, Plan, agenda
<1>8. CASE Exit \/ Crash
  <2>1. /\ plugin' = Nothing /\ state' = NoStates /\ Active' = {}
        /\ bound' = NoOne /\ unloading' = {}
    BY <1>8 DEF Exit, Crash, Ended, Active, NoStates
  <2>2. QED
    BY <2>1 DEF TreeInv, Fibers, BindingsBelong, HandlesTrue, UnloadClosed,
       RequirementsMet, HandlesFresh, Grounded, Nothing, NoStates, NoOne
<1>9. CASE Edits \/ \E c \in Compositions : EditFile(c)
  <2>1. UNCHANGED <<tree, unloading, restarts>>
    BY <1>9 DEF Edits, MountEdit, ConfigureEdit, Apply, EditFile, Plan, agenda
  <2>2. QED BY <2>1, QuietSteps
<1>10. QED
  BY <1>1, <1>2, <1>3, <1>4, <1>5, <1>6, <1>7, <1>8, <1>9 DEF Next, Work

-----------------------------------------------------------------------------
(* Types *)

LEMMA PlanTypes ==
    ASSUME TypeOK, NEW c \in [Entries -> Plugins \cup {None}], Plan(c)
    PROVE  /\ target' \in [Entries -> Plugins \cup {None}]
           /\ gone' \subseteq Entries /\ mounts' \subseteq Entries
           /\ spent' \in [Entries -> 0 .. ActivationsMax]
           /\ UNCHANGED <<plugin, state, bound, handle, unloading, restarts>>
BY ReconcilerAssumption DEF Plan, tree, Mounted, Unspent

\* Shapes are kept, and no fiber is activated beyond its allowance.
LEMMA StepKeepsTypes ==
    ASSUME TypeOK, TreeInv, Next
    PROVE  TypeOK'
<1> USE ReconcilerAssumption
<1> USE DEF TypeOK
<1>0. ASSUME NEW e, Unload(e) PROVE unloading' \subseteq Entries
  BY <1>0 DEF Unload, Closure, Active
<1>1. ASSUME NEW e \in Entries, Remove(e) PROVE TypeOK'
  BY <1>0, <1>1 DEF Remove
<1>2. ASSUME NEW e \in Entries, Mount(e) PROVE TypeOK'
  <2>1. /\ plugin' \in [Entries -> Plugins \cup {None}]
        /\ state' \in [Entries -> {"none", "pending", "active", "failed"}]
        /\ mounts' \subseteq Entries
    <3>1. CASE e \in Active BY <1>2, <3>1 DEF Mount
    <3>2. CASE e \notin Active
      <4>1. target[e] \in Plugins \cup {None} OBVIOUS
      <4>2. QED BY <1>2, <3>2, <4>1 DEF Mount
    <3>3. QED BY <3>1, <3>2
  <2>2. unloading' \subseteq Entries BY <1>0, <1>2 DEF Mount
  <2>3. QED BY <1>2, <2>1, <2>2 DEF Mount
<1>3. ASSUME NEW e \in Entries, Unwind(e) PROVE TypeOK'
  <2>1. /\ bound' \in [Keys -> Entries \cup {None}]
        /\ handle' \in [Entries -> [Keys -> Entries \cup {None, Gone}]]
    BY <1>3 DEF Unwind, Unbound
  <2>2. QED BY <1>3, <2>1 DEF Unwind
<1>4. ASSUME NEW e \in Entries, Activate(e) PROVE TypeOK'
  <2>1. /\ bound' \in [Keys -> Entries \cup {None}]
        /\ state' \in [Entries -> {"none", "pending", "active", "failed"}]
    BY <1>4 DEF Activate, Bind
  <2>2. handle' \in [Entries -> [Keys -> Entries \cup {None, Gone}]]
    BY <1>4 DEF Activate, Bind
  <2>3. spent' \in [Entries -> 0 .. ActivationsMax]
    BY <1>4 DEF Activate
  <2>4. restarts' \subseteq Entries BY <1>4 DEF Activate, Active
  <2>5. QED BY <1>4, <2>1, <2>2, <2>3, <2>4 DEF Activate, Bind
<1>5. ASSUME NEW e \in Entries, FailApply(e) PROVE TypeOK'
  BY <1>5 DEF FailApply
<1>6. ASSUME NEW e \in Entries, Exhaust(e) PROVE TypeOK'
  BY <1>6 DEF Exhaust, agenda
<1>7. ASSUME NEW e \in Entries, Restart(e) PROVE TypeOK'
  BY <1>0, <1>7 DEF Restart, tree
<1>8. CASE Finish
  BY <1>8 DEF Finish, NoEdit, Nothing, tree, agenda
<1>9. CASE RollBack
  <2>1. CASE Refused(edit.before)
    BY <1>9, <2>1 DEF RollBack, tree, agenda
  <2>2. CASE ~Refused(edit.before)
    <3>1. Plan(edit.before) BY <1>9, <2>2 DEF RollBack
    <3>2. edit' \in [stage : {"none", "attempt", "refused", "rollback", "shutdown"},
                     before : [Entries -> Plugins \cup {None}], watched : SUBSET Entries]
          /\ overlay' \in [Entries -> Plugins \cup {None}] /\ UNCHANGED phase
      BY <1>9 DEF RollBack
    <3>3. QED BY <3>1, <3>2, PlanTypes
  <2>3. QED BY <2>1, <2>2
<1>10. CASE Exit \/ Crash
  BY <1>10 DEF Exit, Crash, Ended, NoEdit, Nothing, NoStates, NoOne, Unspent
<1>11. CASE Boot
  BY <1>11, PlanTypes DEF Boot
<1>12. CASE Shutdown
  <2>1. Nothing \in [Entries -> Plugins \cup {None}] BY DEF Nothing
  <2>2. Plan(Nothing) BY <1>12 DEF Shutdown
  <2>3. edit' \in [stage : {"none", "attempt", "refused", "rollback", "shutdown"},
                   before : [Entries -> Plugins \cup {None}], watched : SUBSET Entries]
    BY <1>12, <2>1 DEF Shutdown, NoEdit
  <2>4. QED BY <1>12, <2>1, <2>2, <2>3, PlanTypes DEF Shutdown
<1>13. ASSUME NEW c, NEW w \in SUBSET Entries, Apply(c, w) PROVE TypeOK'
  <2>1. c \in [Entries -> Plugins \cup {None}] BY <1>13 DEF Apply
  <2>2. CASE Refused(c) BY <1>13, <2>1, <2>2 DEF Apply, tree, agenda
  <2>3. CASE ~Refused(c)
    <3>1. Plan(c) BY <1>13, <2>3 DEF Apply
    <3>2. phase' = "busy" /\ overlay' = c
          /\ edit' \in [stage : {"none", "attempt", "refused", "rollback", "shutdown"},
                        before : [Entries -> Plugins \cup {None}], watched : SUBSET Entries]
      BY <1>13 DEF Apply
    <3>3. QED BY <2>1, <3>1, <3>2, PlanTypes
  <2>4. QED BY <2>2, <2>3
<1>14. ASSUME NEW c \in Compositions, EditFile(c) PROVE TypeOK'
  BY <1>14 DEF EditFile, tree, agenda
<1>15. CASE Edits
  <2>1. ASSUME NEW e \in Entries, NEW p \in Plugins, MountEdit(e, p) PROVE TypeOK'
    <3>1. Apply([overlay EXCEPT ![e] = p], {e}) BY <2>1 DEF MountEdit
    <3> HIDE DEF TypeOK
    <3>2. QED BY <3>1, <1>13
  <2>2. ASSUME NEW c \in Compositions, NEW w \in SUBSET Entries, ConfigureEdit(c, w)
        PROVE  TypeOK'
    <3>1. Apply(c, w) BY <2>2 DEF ConfigureEdit
    <3> HIDE DEF TypeOK
    <3>2. QED BY <3>1, <1>13
  <2> HIDE DEF TypeOK
  <2>3. QED BY <1>15, <2>1, <2>2 DEF Edits
<1>16. QED
  BY <1>1, <1>2, <1>3, <1>4, <1>5, <1>6, <1>7, <1>8, <1>9, <1>10, <1>11, <1>12,
     <1>14, <1>15 DEF Next, Work

-----------------------------------------------------------------------------
(* What is left to do, and the file *)

\* A plan takes the tree to its composition.
LEMMA PlanLeads ==
    ASSUME TypeOK, NEW c, Plan(c)
    PROVE  target' = c /\ AgendaFits' /\ AgendaLeads'
BY DEF Plan, AgendaFits, AgendaLeads, Mounted, tree, TypeOK

LEMMA StepKeepsAgenda ==
    ASSUME TypeOK, AgendaFits, Next
    PROVE  AgendaFits'
<1>1. ASSUME NEW e \in Entries, Remove(e) \/ Mount(e) PROVE AgendaFits'
  BY <1>1 DEF Remove, Mount, AgendaFits
<1>2. ASSUME NEW e \in Entries,
             Unwind(e) \/ Activate(e) \/ FailApply(e) \/ Exhaust(e) \/ Restart(e)
      PROVE  UNCHANGED <<target, gone, mounts>>
  BY <1>2 DEF Unwind, Activate, Bind, FailApply, Exhaust, Restart, agenda
<1>3. CASE Finish \/ \E c \in Compositions : EditFile(c)
  BY <1>3 DEF Finish, EditFile, AgendaFits, agenda
<1>4. CASE RollBack \/ Boot \/ Shutdown
  <2>1. (\E c : Plan(c)) \/ UNCHANGED agenda BY <1>4 DEF RollBack, Boot, Shutdown
  <2>2. QED BY <2>1, PlanLeads DEF agenda, AgendaFits
<1>5. CASE Edits
  <2>1. (\E c : Plan(c)) \/ UNCHANGED agenda
    BY <1>5 DEF Edits, MountEdit, ConfigureEdit, Apply
  <2>2. QED BY <2>1, PlanLeads DEF agenda, AgendaFits
<1>6. CASE Exit \/ Crash
  BY <1>6 DEF Exit, Crash, Ended, AgendaFits
<1>7. QED BY <1>1, <1>2, <1>3, <1>4, <1>5, <1>6 DEF Next, Work, AgendaFits

\* A kernel that is not reconciling has nothing left to do.
LEMMA StepKeepsIdle ==
    ASSUME TypeOK, FileLeads, IdleIsSettled, Next
    PROVE  IdleIsSettled'
<1>1. ASSUME NEW e \in Entries,
             \/ Remove(e) \/ Mount(e) \/ Unwind(e) \/ Activate(e)
             \/ FailApply(e) \/ Exhaust(e) \/ Restart(e)
      PROVE  phase = "busy" /\ phase' = "busy"
  <2>1. CASE Unwind(e)
    <3>1. unloading # {} BY <2>1 DEF Unwind
    <3>2. phase = "busy" BY <3>1 DEF IdleIsSettled
    <3>3. QED BY <2>1, <3>2 DEF Unwind
  <2>2. CASE ~Unwind(e)
    BY <1>1, <2>2 DEF Remove, Mount, Replacing, Activate, Bind, FailApply, Exhaust,
       Restart, Next_activatable, Settling
  <2>3. QED BY <2>1, <2>2
<1>2. CASE Finish
  BY <1>2 DEF Finish, Settled, Settling, IdleIsSettled, Activatable, tree, agenda
<1>3. CASE RollBack \/ Boot \/ Shutdown \/ Edits
  <2>1. phase' = "busy"
    BY <1>3 DEF RollBack, MustRollBack, Settled, Settling, FileLeads, Boot, Shutdown,
       Edits, MountEdit, ConfigureEdit, Apply
  <2>2. QED BY <2>1 DEF IdleIsSettled
<1>4. CASE Exit \/ Crash
  BY <1>4 DEF Exit, Crash, Ended, IdleIsSettled
<1>5. CASE \E c \in Compositions : EditFile(c)
  BY <1>5 DEF EditFile, IdleIsSettled, Activatable, tree, agenda
<1>6. QED
  BY <1>1, <1>2, <1>3, <1>4, <1>5 DEF Next, Work, IdleIsSettled

\* Between edits and within them, the tree is on its way to what the file
\* says.
LEMMA StepKeepsFile ==
    ASSUME TypeOK, AgendaFits, FileLeads, IdleIsSettled, Next
    PROVE  FileLeads'
<1>1. ASSUME NEW e \in Entries, Remove(e) \/ Mount(e) PROVE FileLeads'
  <2>1. /\ phase = "busy" /\ UNCHANGED <<phase, overlay, edit, target>>
        /\ e \in gone \cup mounts /\ edit.stage # "refused"
    BY <1>1 DEF Remove, Mount, Replacing, FileLeads
  <2>2. ASSUME AgendaLeads PROVE AgendaLeads'
    <3>1. \/ plugin' = plugin /\ gone' \cup mounts' = gone \cup mounts
          \/ /\ plugin' = [plugin EXCEPT ![e] = target[e]]
             /\ (gone \cup mounts) \ {e} \subseteq gone' \cup mounts'
      BY <1>1 DEF Remove, Mount, AgendaFits
    <3>2. QED BY <2>1, <2>2, <3>1 DEF AgendaLeads, TypeOK
  <2>3. QED BY <2>1, <2>2 DEF FileLeads
<1>2. ASSUME NEW e \in Entries,
             Unwind(e) \/ Activate(e) \/ FailApply(e) \/ Exhaust(e) \/ Restart(e)
      PROVE  FileLeads'
  <2>1. UNCHANGED <<phase, overlay, edit, plugin, target, gone, mounts>>
    BY <1>2 DEF Unwind, Activate, Bind, FailApply, Exhaust, Restart, agenda, tree
  <2>2. QED BY <2>1 DEF FileLeads, AgendaLeads, Refused
<1>3. CASE Finish \/ Exit \/ Crash
  <2>1. phase' # "busy" /\ edit'.stage # "refused"
    BY <1>3 DEF Finish, Exit, Crash, Ended, NoEdit
  <2>2. QED BY <2>1 DEF FileLeads
<1>4. CASE \E c \in Compositions : EditFile(c)
  BY <1>4 DEF EditFile, FileLeads, tree, agenda
<1>5. CASE Boot
  <2>1. /\ edit.stage # "refused" /\ UNCHANGED <<overlay, edit>>
        /\ Plan(overlay)
    BY <1>5 DEF Boot, FileLeads
  <2>2. QED BY <2>1, PlanLeads DEF FileLeads
<1>6. CASE Shutdown
  BY <1>6 DEF Shutdown, NoEdit, FileLeads
<1>7. CASE RollBack
  <2>1. edit'.stage = "rollback" /\ overlay' = edit.before BY <1>7 DEF RollBack, TypeOK
  <2>2. CASE Refused(edit.before)
    <3>1. UNCHANGED <<plugin, gone, mounts>> BY <1>7, <2>2 DEF RollBack, tree, agenda
    <3>2. gone = {} /\ mounts = {}
      BY <1>7 DEF RollBack, MustRollBack, Settled, Settling, FileLeads
    <3>3. QED BY <2>1, <2>2, <3>1, <3>2 DEF FileLeads, Refused
  <2>3. CASE ~Refused(edit.before)
    BY <1>7, <2>1, <2>3, PlanLeads DEF RollBack, FileLeads
  <2>4. QED BY <2>2, <2>3
<1>8. ASSUME NEW c, NEW w, Apply(c, w) PROVE FileLeads'
  <2>1. CASE Refused(c)
    BY <1>8, <2>1 DEF Apply, FileLeads, IdleIsSettled, agenda
  <2>2. CASE ~Refused(c)
    BY <1>8, <2>2, PlanLeads DEF Apply, FileLeads
  <2>3. QED BY <2>1, <2>2
<1>9. CASE Edits
  <2>1. \E c, w : Apply(c, w) BY <1>9 DEF Edits, MountEdit, ConfigureEdit
  <2>2. QED BY <2>1, <1>8
<1>10. QED
  BY <1>1, <1>2, <1>3, <1>4, <1>5, <1>6, <1>7, <1>9 DEF Next, Work

-----------------------------------------------------------------------------
(* The invariant *)

LEMMA InitEstablishes == Init => IInv
<1> SUFFICES ASSUME Init PROVE IInv OBVIOUS
<1> USE ReconcilerAssumption DEF Init, Nothing, NoStates, NoOne, Unspent, NoEdit
<1>1. TypeOK BY DEF TypeOK
<1>2. Active = {} BY DEF Active
<1>3. TreeInv
  BY <1>2 DEF TreeInv, Fibers, BindingsBelong, HandlesTrue, UnloadClosed,
     RequirementsMet, HandlesFresh, Grounded
<1>4. AgendaFits /\ FileLeads /\ IdleIsSettled
  BY DEF AgendaFits, FileLeads, IdleIsSettled
<1>5. QED BY <1>1, <1>3, <1>4 DEF IInv

LEMMA NextPreserves == IInv /\ [Next]_vars => IInv'
<1> SUFFICES ASSUME IInv, [Next]_vars PROVE IInv' OBVIOUS
<1>1. CASE Next
  BY <1>1, StepKeepsTypes, StepKeepsTree, StepKeepsAgenda, StepKeepsFile, StepKeepsIdle
     DEF IInv
<1>2. CASE UNCHANGED vars
  <2>1. UNCHANGED <<phase, overlay, edit, plugin, state, bound, handle, target, gone,
                    mounts, unloading, restarts, spent>>
    BY <1>2 DEF vars, tree, agenda
  <2>2. TypeOK' BY <2>1 DEF IInv, TypeOK
  <2>3. TreeInv' BY <2>1, QuietSteps DEF IInv, tree
  <2>4. AgendaFits' BY <2>1 DEF IInv, AgendaFits
  <2>5. FileLeads' BY <2>1 DEF IInv, FileLeads, AgendaLeads, Refused
  <2>6. IdleIsSettled' BY <2>1 DEF IInv, IdleIsSettled, Activatable
  <2>7. QED BY <2>2, <2>3, <2>4, <2>5, <2>6 DEF IInv
<1>3. QED BY <1>1, <1>2

\* In every reachable state, between the steps of an unload, an edit or a
\* boot as well, the tree and what is left to do are as IInv says.
THEOREM Invariance == Spec => []IInv
BY InitEstablishes, NextPreserves, PTL DEF Spec

-----------------------------------------------------------------------------
(* What follows *)

\* Shapes, and the allowance: no reconcile starts a fiber more often than
\* ACTIVATIONS_PER_RECONCILE_MAX times.
THEOREM TypeCorrect == Spec => []TypeOK
<1>1. IInv => TypeOK BY DEF IInv
<1>2. QED BY <1>1, Invariance, PTL

\* No binding outlives its fiber, and no active fiber is without one of its
\* bindings, in the middle of an unload or a failed apply as at rest.
THEOREM NoStrayBindings == Spec => []BindingsBelong
<1>1. IInv => BindingsBelong BY DEF IInv, TreeInv
<1>2. QED BY <1>1, Invariance, PTL

\* Active fibers work with what is bound now.
THEOREM NoStaleHandles == Spec => []HandlesFresh
<1>1. IInv => HandlesFresh BY DEF IInv, TreeInv
<1>2. QED BY <1>1, Invariance, PTL

\* Active fibers have what they require.
THEOREM NeedsStayMet == Spec => []RequirementsMet
<1>1. IInv => RequirementsMet BY DEF IInv, TreeInv
<1>2. QED BY <1>1, Invariance, PTL

\* When an edit or a boot is over, file and tree agree, unless the file cannot
\* be built.
THEOREM FileAndTreeAgree == Spec => TreeIsFile
<1>1. ASSUME IInv, [Next]_vars, phase = "busy", phase' = "idle", ~Refused(overlay)
      PROVE  plugin' = overlay'
  <2>1. Finish
    <3>1. Next BY <1>1 DEF vars
    <3>2. ASSUME NEW e \in Entries,
                 \/ Remove(e) \/ Mount(e) \/ Unwind(e) \/ Activate(e)
                 \/ FailApply(e) \/ Exhaust(e) \/ Restart(e)
          PROVE  FALSE
      BY <1>1, <3>2 DEF Remove, Mount, Unwind, Activate, Bind, FailApply, Exhaust, Restart
    <3>3. ~(RollBack \/ Exit \/ Crash \/ Boot \/ Shutdown)
      BY <1>1 DEF RollBack, Exit, Crash, Ended, Boot, Shutdown
    <3>4. ~Edits /\ ~\E c \in Compositions : EditFile(c)
      BY <1>1 DEF Edits, MountEdit, ConfigureEdit, Apply, EditFile
    <3>5. QED BY <3>1, <3>2, <3>3, <3>4 DEF Next, Work
  <2>2. /\ gone = {} /\ mounts = {}
        /\ edit.stage \in {"none", "attempt", "rollback"}
        /\ UNCHANGED <<overlay, plugin>>
    BY <2>1 DEF Finish, Settled, Settling, tree
  <2>3. target = overlay /\ \A e \in Entries : plugin[e] = target[e]
    BY <1>1, <2>2 DEF IInv, FileLeads, AgendaLeads
  <2>4. plugin = overlay BY <1>1, <2>3 DEF IInv, TypeOK
  <2>5. QED BY <2>2, <2>4
<1>2. IInv /\ [Next]_vars
      => (phase = "busy" /\ phase' = "idle" /\ ~Refused(overlay) => plugin' = overlay')
  BY <1>1
<1>3. IInv /\ [Next]_vars
      => [phase = "busy" /\ phase' = "idle" /\ ~Refused(overlay) => plugin' = overlay']_vars
  BY <1>2
<1>4. QED BY <1>3, Invariance, PTL DEF Spec, TreeIsFile

\* Consumers are unwound before the fibers they work with, circles aside.
THEOREM TeardownOrder == Spec => ConsumersFirst
<1> DEFINE Step == \A v \in Active : state'[v] = "pending" =>
                     \/ \A d \in Active \ {v}, k \in Keys : handle[d][k] # v
                     \/ Circle
<1>1. ASSUME IInv, Next PROVE Step
  <2> SUFFICES ASSUME NEW v \in Active, state'[v] = "pending",
                      NEW d \in Active \ {v}, NEW k \in Keys, handle[d][k] = v
               PROVE  Circle
    OBVIOUS
  <2> USE <1>1 DEF IInv
  <2>1. v \in Entries /\ state[v] = "active" BY DEF Active
  <2>2. Unwind(v)
    <3>1. ASSUME NEW e \in Entries,
                 Remove(e) \/ Mount(e) \/ Activate(e) \/ FailApply(e) \/ Exhaust(e) \/ Restart(e)
          PROVE  FALSE
      BY <2>1, <3>1 DEF Remove, Mount, Activate, Bind, FailApply, Exhaust, Restart,
         Next_activatable, Activatable, TypeOK, Active, tree
    <3>2. ASSUME NEW e \in Entries, Unwind(e) PROVE Unwind(v)
      <4>1. e = v BY <2>1, <3>2 DEF Unwind, TypeOK
      <4>2. QED BY <3>2, <4>1
    <3>3. ~(Finish \/ RollBack \/ Boot \/ Shutdown)
      BY <2>1 DEF Finish, RollBack, Boot, Shutdown, Plan, tree
    <3>4. ~(Exit \/ Crash) BY <2>1 DEF Exit, Crash, Ended, NoStates
    <3>5. ~Edits /\ ~\E c \in Compositions : EditFile(c)
      BY <2>1 DEF Edits, MountEdit, ConfigureEdit, Apply, EditFile, Plan, tree
    <3>6. QED BY <1>1, <3>1, <3>2, <3>3, <3>4, <3>5 DEF Next, Work
  <2>3. v \in unloading BY <2>2 DEF Unwind
  <2>4. Consumes(d, v) BY <2>1 DEF TreeInv, HandlesTrue, Consumes
  <2>5. d \in unloading /\ unloading \subseteq Active
    BY <2>3, <2>4 DEF TreeInv, UnloadClosed
  <2>6. \A m \in unloading : \E c \in unloading \ {m} : Consumes(c, m)
    BY <2>2, <2>4, <2>5 DEF Unwind
  <2>7. QED BY <2>3, <2>5, <2>6 DEF Circle
<1>2. ASSUME IInv, UNCHANGED vars PROVE Step
  BY <1>2 DEF vars, tree, Active
<1>3. IInv /\ [Next]_vars => [Step]_vars BY <1>1
<1>4. QED BY <1>3, Invariance, PTL DEF Spec, ConsumersFirst

\* At rest what runs is what can run.
THEOREM RunsExactlyWhatItCan == Spec => []RunsWhatItCan
<1>1. ASSUME IInv, phase = "idle" PROVE Active = Runnable
  <2>1. Active \subseteq Mounted
    BY <1>1 DEF IInv, TreeInv, Fibers, Active, Mounted
  <2>2. ASSUME NEW d \in Mounted, state[d] # "failed",
               \A k \in Required[plugin[d]] : \E m \in Active : k \in Provided[plugin[m]]
        PROVE  d \in Active
    <3>1. d \in Entries /\ plugin[d] \in Plugins /\ state[d] \in {"pending", "active"}
      BY <1>1, <2>2 DEF IInv, TypeOK, TreeInv, Fibers, Mounted
    <3>2. \A k \in Required[plugin[d]] : bound[k] # None
      <4>1. \A m \in Active : m # None BY ReconcilerAssumption DEF Active
      <4>2. QED BY <1>1, <2>2, <4>1 DEF IInv, TreeInv, BindingsBelong
    <3>3. ~Activatable(d) BY <1>1, <3>1 DEF IInv, IdleIsSettled
    <3>4. QED BY <3>1, <3>2, <3>3 DEF Activatable, Active
  <2>3. Runnable \subseteq Active BY <2>1, <2>2 DEF Runnable
  <2>4. ASSUME NEW S \in SUBSET Mounted,
               \A d \in Mounted :
                 /\ state[d] # "failed"
                 /\ \A k \in Required[plugin[d]] : \E m \in S : k \in Provided[plugin[m]]
                 => d \in S
        PROVE  Active \subseteq S
    <3> SUFFICES ASSUME Active \ S # {} PROVE FALSE OBVIOUS
    <3>1. PICK d \in Active \ S : \A k \in Required[plugin[d]] : bound[k] \notin Active \ S
      BY <1>1 DEF IInv, TreeInv, Grounded
    <3>2. d \in Mounted /\ state[d] # "failed" /\ plugin[d] \in Plugins
      BY <1>1, <2>1, <3>1 DEF IInv, TypeOK, Active, Mounted
    <3>3. \A k \in Required[plugin[d]] : k \in Keys /\ bound[k] \in Active
      BY <1>1, <3>1, <3>2, ReconcilerAssumption
         DEF IInv, IdleIsSettled, TreeInv, RequirementsMet
    <3>4. \A k \in Required[plugin[d]] : bound[k] \in S /\ k \in Provided[plugin[bound[k]]]
      <4>1. \A m \in Active : m # None BY ReconcilerAssumption DEF Active
      <4>2. QED BY <1>1, <3>1, <3>3, <4>1 DEF IInv, TreeInv, BindingsBelong
    <3>5. d \in S BY <2>4, <3>2, <3>4
    <3>6. QED BY <3>1, <3>5
  <2>5. Active \subseteq Runnable BY <2>1, <2>4 DEF Runnable
  <2>6. QED BY <2>3, <2>5
<1>2. IInv => RunsWhatItCan BY <1>1 DEF RunsWhatItCan
<1>3. QED BY <1>2, Invariance, PTL
=============================================================================
