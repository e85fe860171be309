----------------------------- MODULE MC_Grants -----------------------------
(* Instances of Grants for TLC. *)
EXTENDS Grants, TLC

CONSTANTS c1, c2, a1, a2

\* Any two calls at once; one of them revokes.
MCMayBe == (c1 :> {"finish", "token"}) @@ (c2 :> Kinds)

\* One authorization of `inseam authorize`, one of the web console.
MCRedirects == (a1 :> {"loopback"}) @@ (a2 :> {"external"})
\* The provider of a1 replaces refresh tokens, the one of a2 keeps them.
MCRotations == (a1 :> 1) @@ (a2 :> 0)
=============================================================================
