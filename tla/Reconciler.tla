------------------------------ MODULE Reconciler ------------------------------
(***************************************************************************)
(* The kernel's reconciler (inseam-kernel/src/substrate): fibers that      *)
(* start when what they require is bound, restart when what they inject    *)
(* appears, are unloaded with everything that consumes them, and are       *)
(* edited at run time through the overlay file, with a rollback.           *)
(*                                                                         *)
(* Left to chance: the order of fibers, which the code takes from its      *)
(* mount order, wherever any of several could be next; and whether a       *)
(* fickle plugin's apply fails.  The kernel's own services are always      *)
(* bound and are left out.                                                 *)
(***************************************************************************)
EXTENDS Naturals

CONSTANTS Entries,        \* entry ids
          Plugins,        \* a plugin with a config: what an entry mounts
          Keys,           \* service keys
          Required,       \* Required[p]: the keys p cannot do without
          Optional,       \* Optional[p]: the keys p takes if they are there
          Provided,       \* Provided[p]: the keys p binds
          Fickle,         \* plugins whose apply may fail of itself
          Broken,         \* plugins whose config does not parse
          Compositions,   \* what the base with an overlay may come to
          ActivationsMax, \* ACTIVATIONS_PER_RECONCILE_MAX
          None            \* nothing mounted, nobody bound

Injected(p) == Required[p] \cup Optional[p]

Gone == "gone"

ASSUME ReconcilerAssumption ==
    /\ Required \in [Plugins -> SUBSET Keys]
    /\ Optional \in [Plugins -> SUBSET Keys]
    /\ Provided \in [Plugins -> SUBSET Keys]
    /\ Compositions \subseteq [Entries -> Plugins \cup {None}]
    /\ Broken \subseteq Plugins
    /\ None \notin Plugins /\ None \notin Entries
    /\ Gone \notin Entries /\ Gone # None
    /\ ActivationsMax \in Nat \ {0}

VARIABLES phase,     \* "down", "idle", or "busy" reconciling
          overlay,   \* the composition the overlay file makes of the base
          edit,      \* the composition edit under way
          target,    \* the composition being reconciled against
          plugin,    \* what each entry runs as, None if it has no fiber
          state,     \* FiberState
          bound,     \* who provides each key
          handle,    \* handle[e][k]: whose implementation e took at its start
          gone,      \* fibers yet to be removed
          mounts,    \* fibers yet to be mounted, anew or over another
          unloading, \* the closure being unwound
          restarts,  \* fibers a newly bound key restarts
          spent      \* activations of this reconcile

tree   == <<plugin, state, bound, handle>>
agenda == <<target, gone, mounts, unloading, restarts, spent>>
vars   == <<phase, overlay, edit, tree, agenda>>

NoStates == [e \in Entries |-> "none"]
Nothing  == [e \in Entries |-> None]
NoOne    == [k \in Keys |-> None]
Unspent  == [e \in Entries |-> 0]
NoEdit   == [stage |-> "none", before |-> Nothing, watched |-> {}]

Mounted  == {e \in Entries : plugin[e] # None}
Active   == {e \in Entries : state[e] = "active"}

\* d injects a key that e provides.
Consumes(d, e) == \E k \in Injected(plugin[d]) : bound[k] = e

Init ==
    /\ phase = "down"
    /\ overlay \in Compositions
    /\ edit = NoEdit
    /\ plugin = Nothing /\ state = NoStates
    /\ bound = NoOne /\ handle = [e \in Entries |-> NoOne]
    /\ target = Nothing /\ spent = Unspent
    /\ gone = {} /\ mounts = {} /\ unloading = {} /\ restarts = {}

-----------------------------------------------------------------------------
(* Reconciling: the plan, then removals and mounts *)

\* Every new or changed entry is built before anything changes.
Refused(c) == \E e \in Entries : c[e] \in Broken /\ c[e] # plugin[e]

\* reconcile up to its first change, which a refused composition never gets to.
Plan(c) ==
    /\ target' = c
    /\ gone' = {e \in Mounted : c[e] = None}
    /\ mounts' = {e \in Entries : c[e] # None /\ c[e] # plugin[e]}
    /\ spent' = Unspent
    /\ UNCHANGED <<tree, unloading, restarts>>

\* dependent_closure of an active fiber: it, and every active fiber that
\* consumes a member, transitively.
Closure(e) ==
    {d \in Active : \A S \in SUBSET Active :
        e \in S /\ (\A m \in S, c \in Active : Consumes(c, m) => c \in S) => d \in S}

\* unload: nothing to unwind unless the fiber is active.
Unload(e) == unloading' = IF e \in Active THEN Closure(e) ELSE {}

Replacing == phase = "busy" /\ unloading = {}

\* A removed entry's fiber is unloaded, then dropped.
Remove(e) ==
    /\ Replacing /\ e \in gone
    /\ IF e \in Active
       THEN Unload(e) /\ UNCHANGED <<plugin, state, gone>>
       ELSE /\ plugin' = [plugin EXCEPT ![e] = None]
            /\ state' = [state EXCEPT ![e] = "none"]
            /\ gone' = gone \ {e}
            /\ UNCHANGED unloading
    /\ UNCHANGED <<phase, overlay, edit, bound, handle, target, mounts, restarts, spent>>

\* A new or changed one takes the place of the old.
Mount(e) ==
    /\ Replacing /\ gone = {} /\ e \in mounts
    /\ IF e \in Active
       THEN Unload(e) /\ UNCHANGED <<plugin, state, mounts>>
       ELSE /\ plugin' = [plugin EXCEPT ![e] = target[e]]
            /\ state' = [state EXCEPT ![e] = "pending"]
            /\ mounts' = mounts \ {e}
            /\ UNCHANGED unloading
    /\ UNCHANGED <<phase, overlay, edit, bound, handle, target, gone, restarts, spent>>

Unbound(v) ==
    /\ bound' = [k \in Keys |-> IF bound[k] = v THEN None ELSE bound[k]]
    /\ handle' = [e \in Entries |-> [k \in Keys |->
                    IF e = v THEN None
                    ELSE IF handle[e][k] = v THEN Gone ELSE handle[e][k]]]

\* WRONG: members are unwound in any order.
UnwindAnyhow(v) ==
    /\ v \in unloading
    /\ unloading' = unloading \ {v}
    /\ state' = [state EXCEPT ![v] = "pending"]
    /\ Unbound(v)
    /\ UNCHANGED <<phase, overlay, edit, plugin, target, gone, mounts, restarts, spent>>

\* A member nobody else in the closure consumes is unwound next; in a cycle
\* one that is.
Unwind(v) ==
    /\ v \in unloading
    /\ \/ \A d \in unloading \ {v} : ~Consumes(d, v)
       \/ \A m \in unloading : \E d \in unloading \ {m} : Consumes(d, m)
    /\ unloading' = unloading \ {v}
    /\ state' = [state EXCEPT ![v] = "pending"]
    /\ Unbound(v)
    /\ UNCHANGED <<phase, overlay, edit, plugin, target, gone, mounts, restarts, spent>>

-----------------------------------------------------------------------------
(* Settling *)

Settling == phase = "busy" /\ gone = {} /\ mounts = {} /\ unloading = {}

\* WRONG: optional keys are waited for like required ones.
ActivatableIfAll(e) ==
    /\ state[e] = "pending"
    /\ \A k \in Injected(plugin[e]) : bound[k] # None

\* A pending fiber none of whose required keys is missing.
Activatable(e) ==
    /\ state[e] = "pending"
    /\ \A k \in Required[plugin[e]] : bound[k] # None

\* settle's next round is for e.
Next_activatable(e) == Settling /\ restarts = {} /\ Activatable(e)

Conflict(e) == \E k \in Provided[plugin[e]] : bound[k] # None

Bind(e) ==
    /\ state' = [state EXCEPT ![e] = "active"]
    /\ bound' = [k \in Keys |-> IF k \in Provided[plugin[e]] THEN e ELSE bound[k]]
    /\ handle' = [handle EXCEPT ![e] = [k \in Keys |->
                    IF k \in Injected(plugin[e]) THEN bound[k] ELSE None]]
    /\ UNCHANGED <<phase, overlay, edit, plugin, target, gone, mounts, unloading>>

\* WRONG: no allowance.
ActivateForever(e) ==
    /\ Next_activatable(e) /\ ~Conflict(e)
    /\ Bind(e)
    /\ restarts' = {d \in Active : Injected(plugin[d]) \cap Provided[plugin[e]] # {}}
    /\ UNCHANGED spent

\* WRONG: a key that appears restarts only who requires it.
ActivateForRequired(e) ==
    /\ Next_activatable(e) /\ spent[e] < ActivationsMax /\ ~Conflict(e)
    /\ Bind(e)
    /\ spent' = [spent EXCEPT ![e] = @ + 1]
    /\ restarts' = {d \in Active : Required[plugin[d]] \cap Provided[plugin[e]] # {}}

\* A pending fiber's apply takes what is bound and binds what it provides;
\* the active fibers that inject one of the new keys are to restart.
Activate(e) ==
    /\ Next_activatable(e) /\ spent[e] < ActivationsMax /\ ~Conflict(e)
    /\ Bind(e)
    /\ spent' = [spent EXCEPT ![e] = @ + 1]
    /\ restarts' = {d \in Active : Injected(plugin[d]) \cap Provided[plugin[e]] # {}}

\* WRONG: what a failed apply bound before it failed stays.
FailApplyKeeping(e) ==
    /\ Next_activatable(e) /\ spent[e] < ActivationsMax
    /\ plugin[e] \in Fickle \/ Conflict(e)
    /\ state' = [state EXCEPT ![e] = "failed"]
    /\ bound' = [k \in Keys |->
                   IF k \in Provided[plugin[e]] /\ bound[k] = None THEN e ELSE bound[k]]
    /\ spent' = [spent EXCEPT ![e] = @ + 1]
    /\ UNCHANGED <<phase, overlay, edit, plugin, handle, target, gone, mounts, unloading, restarts>>

\* apply fails, of itself or because a key is taken, and leaves nothing.
FailApply(e) ==
    /\ Next_activatable(e) /\ spent[e] < ActivationsMax
    /\ plugin[e] \in Fickle \/ Conflict(e)
    /\ state' = [state EXCEPT ![e] = "failed"]
    /\ spent' = [spent EXCEPT ![e] = @ + 1]
    /\ UNCHANGED <<phase, overlay, edit, plugin, bound, handle, target, gone, mounts, unloading, restarts>>

\* It kept restarting: a dependency cycle, as the kernel sees it.
Exhaust(e) ==
    /\ Next_activatable(e) /\ spent[e] = ActivationsMax
    /\ state' = [state EXCEPT ![e] = "failed"]
    /\ UNCHANGED <<phase, overlay, edit, plugin, bound, handle, agenda>>

\* restart_dependents.
Restart(d) ==
    /\ Settling /\ d \in restarts
    /\ Unload(d)
    /\ restarts' = restarts \ {d}
    /\ UNCHANGED <<phase, overlay, edit, tree, target, gone, mounts, spent>>

Settled == Settling /\ restarts = {} /\ \A e \in Entries : ~Activatable(e)

-----------------------------------------------------------------------------
(* Boot, edits, shutdown and crashes *)

\* A refused composition keeps the node down.
Boot ==
    /\ phase = "down" /\ ~Refused(overlay)
    /\ Plan(overlay)
    /\ phase' = "busy"
    /\ UNCHANGED <<overlay, edit>>

\* The owner edits the file, of a node that is down or of one that runs.
EditFile(c) ==
    /\ phase \in {"down", "idle"}
    /\ overlay' = c
    /\ UNCHANGED <<phase, edit, tree, agenda>>

\* apply_overlay_change writes the file, then reconciles.
Apply(c, watched) ==
    /\ phase = "idle" /\ c \in Compositions
    /\ overlay' = c
    /\ phase' = "busy"
    /\ edit' = [stage |-> IF Refused(c) THEN "refused" ELSE "attempt",
                before |-> overlay, watched |-> watched]
    /\ IF Refused(c) THEN UNCHANGED <<tree, agenda>> ELSE Plan(c)

\* CompositionEdit::Mount.
MountEdit(e, p) ==
    /\ overlay[e] = None
    /\ Apply([overlay EXCEPT ![e] = p], {e})

\* CompositionEdit::Configure: it may watch more than it changes.
ConfigureEdit(c, watched) ==
    /\ watched # {}
    /\ \A e \in Entries \ watched : c[e] = overlay[e]
    /\ Apply(c, watched)

WatchedFailed == \E e \in edit.watched : state[e] = "failed"

\* The edit, or the boot, is done.
Finish ==
    /\ Settled
    /\ \/ edit.stage \in {"none", "rollback"}
       \/ edit.stage = "attempt" /\ ~WatchedFailed
    /\ phase' = "idle"
    /\ edit' = NoEdit
    /\ UNCHANGED <<overlay, tree, agenda>>

MustRollBack == \/ edit.stage = "refused"
                \/ Settled /\ edit.stage = "attempt" /\ WatchedFailed

\* WRONG: the file is left as the edit wrote it.
RollBackTree ==
    /\ MustRollBack
    /\ IF Refused(edit.before) THEN UNCHANGED <<tree, agenda>> ELSE Plan(edit.before)
    /\ edit' = [edit EXCEPT !.stage = "rollback"]
    /\ UNCHANGED <<phase, overlay>>

\* File and tree go back; the tree stays if what the file said is refused.
RollBack ==
    /\ MustRollBack
    /\ overlay' = edit.before
    /\ IF Refused(edit.before) THEN UNCHANGED <<tree, agenda>> ELSE Plan(edit.before)
    /\ edit' = [edit EXCEPT !.stage = "rollback"]
    /\ UNCHANGED phase

\* Shutdown reconciles against nothing at all, and then the process ends.
Shutdown ==
    /\ phase = "idle"
    /\ Plan(Nothing)
    /\ phase' = "busy"
    /\ edit' = [NoEdit EXCEPT !.stage = "shutdown"]
    /\ UNCHANGED overlay

Ended ==
    /\ phase' = "down"
    /\ edit' = NoEdit
    /\ plugin' = Nothing /\ state' = NoStates
    /\ bound' = NoOne /\ handle' = [e \in Entries |-> NoOne]
    /\ target' = Nothing /\ spent' = Unspent
    /\ gone' = {} /\ mounts' = {} /\ unloading' = {} /\ restarts' = {}
    /\ UNCHANGED overlay

Exit == Settled /\ edit.stage = "shutdown" /\ Ended

\* A file write is taken to be one step; a crash may come before or after it.
Crash == phase # "down" /\ Ended

-----------------------------------------------------------------------------
Work == \/ \E e \in Entries : \/ Remove(e) \/ Mount(e) \/ Unwind(e)
                              \/ Activate(e) \/ FailApply(e) \/ Exhaust(e) \/ Restart(e)
        \/ Finish \/ RollBack \/ Exit

Edits == \/ \E e \in Entries, p \in Plugins : MountEdit(e, p)
         \/ \E c \in Compositions, w \in SUBSET Entries : ConfigureEdit(c, w)

Next == Work \/ Edits \/ Boot \/ Shutdown \/ Crash \/ \E c \in Compositions : EditFile(c)

Spec == Init /\ [][Next]_vars

\* The kernel's own code runs; a plugin's apply returns.
FairSpec == Spec /\ WF_vars(Work)

-----------------------------------------------------------------------------
(* Properties *)

\* Shapes, and settle's allowance.
TypeOK ==
    /\ phase \in {"down", "idle", "busy"}
    /\ overlay \in [Entries -> Plugins \cup {None}]
    /\ edit \in [stage : {"none", "attempt", "refused", "rollback", "shutdown"},
                 before : [Entries -> Plugins \cup {None}], watched : SUBSET Entries]
    /\ target \in [Entries -> Plugins \cup {None}]
    /\ plugin \in [Entries -> Plugins \cup {None}]
    /\ state \in [Entries -> {"none", "pending", "active", "failed"}]
    /\ bound \in [Keys -> Entries \cup {None}]
    /\ handle \in [Entries -> [Keys -> Entries \cup {None, Gone}]]
    /\ gone \subseteq Entries /\ mounts \subseteq Entries
    /\ unloading \subseteq Entries /\ restarts \subseteq Entries
    /\ spent \in [Entries -> 0 .. ActivationsMax]

\* A key is bound to an active fiber that provides it, and an active fiber
\* holds every key it provides: a failed apply and an unloaded fiber leave
\* no binding behind (activate, unwind_effects).
BindingsBelong ==
    /\ \A k \in Keys : bound[k] # None =>
          bound[k] \in Active /\ k \in Provided[plugin[bound[k]]]
    /\ \A e \in Active : \A k \in Provided[plugin[e]] : bound[k] = e

\* Outside an unload and the restarts it is owed, an active fiber works with
\* the implementations that are bound now, for optional keys as for required
\* ones: none that has gone, none that has appeared since (restart_dependents,
\* dependent_closure).
HandlesFresh ==
    \A e \in Active \ (unloading \cup restarts) :
      \A k \in Injected(plugin[e]) \ Provided[plugin[e]] : handle[e][k] = bound[k]

\* What an active fiber requires is there for as long as it is active and
\* not being unloaded.
RequirementsMet ==
    \A e \in Active \ unloading : \A k \in Required[plugin[e]] : bound[k] \in Active

\* The mounted fibers that have not failed, from the ones that require
\* nothing up.
Runnable ==
    {e \in Mounted : \A S \in SUBSET Mounted :
        (\A d \in Mounted : /\ state[d] # "failed"
                            /\ \A k \in Required[plugin[d]] : \E m \in S : k \in Provided[plugin[m]]
                            => d \in S) => e \in S}

\* A settled tree runs exactly the fibers that can run, whatever the mount
\* order and the history: none sits pending with its needs met, and none runs
\* on a circle of needs (settle, unload).
RunsWhatItCan == phase = "idle" => Active = Runnable

\* When an edit is over, file and tree agree, whether it held or was rolled
\* back, unless the owner has left in the file what cannot be built
\* (apply_overlay_change).
TreeIsFile ==
    [][phase = "busy" /\ phase' = "idle" /\ ~Refused(overlay) => plugin' = overlay']_vars

\* A circle of active fibers that consume each other.
Circle == \E C \in (SUBSET Active) \ {{}} :
            \A m \in C : \E d \in C \ {m} : Consumes(d, m)

\* No fiber is unwound while another still works with it, unless fibers
\* consume each other in a circle (unload).
ConsumersFirst ==
    [][\A v \in Active : state'[v] = "pending" =>
         \/ \A d \in Active \ {v}, k \in Keys : handle[d][k] # v
         \/ Circle]_vars

\* A reconcile comes to an end, cycles of optional needs and all (settle's
\* allowance).
Settles == phase = "busy" ~> phase # "busy"
=============================================================================
