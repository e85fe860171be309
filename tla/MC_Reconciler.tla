---------------------------- MODULE MC_Reconciler ----------------------------
(***************************************************************************)
(* Reconciler on four entries and the compositions that bring its cases    *)
(* together: a provider and its client; a watcher that takes what there    *)
(* is; a patron whose client counts for it, a circle of needs that only    *)
(* the allowance ends; two providers of one key, one of which binds        *)
(* another key first; a plugin that may fail; one that cannot be built.    *)
(***************************************************************************)
EXTENDS Reconciler, TLC

Nobody == [p \in Plugins |-> {}]

MCRequired == ("client" :> {"greet"} @@ "fickle" :> {"greet"}) @@ Nobody
MCOptional == ("patron" :> {"count"} @@ "watcher" :> {"greet", "count"}) @@ Nobody
MCProvided == ("provider" :> {"greet"} @@ "patron" :> {"greet"} @@ "client" :> {"count"}
               @@ "fickle" :> {"extra"} @@ "twofold" :> {"extra", "greet"}) @@ Nobody

Row(a, b, c) == "a" :> a @@ "b" :> b @@ "c" :> c

MCCompositions ==
    {Row(None, None, None),
     Row("provider", "client", "watcher"),
     Row("provider", None, "watcher"),
     Row("patron", "client", "watcher"),
     Row("provider", "fickle", "client"),
     Row("provider", "twofold", "watcher"),
     Row(None, "twofold", "fickle"),
     Row("provider", "twofold", "broken")}
=============================================================================
