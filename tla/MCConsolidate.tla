----------------------------- MODULE MCConsolidate -----------------------------
EXTENDS Consolidate, TLC

CONSTANTS a1, a2, a3, b1

\* Three copies of one fact, and an event.
MCFactOf == (a1 :> "a") @@ (a2 :> "a") @@ (a3 :> "a") @@ (b1 :> "b")
MCFacts == {"a", "b"}
MCSymmetry == Permutations({a1, a2, a3})
=============================================================================
