------------------------------- MODULE FactStore -------------------------------
(***************************************************************************)
(* What the write path promises, without saying how: a store learns facts, *)
(* never forgets one on its own, and tells a caller that a fact is held    *)
(* only when it is.                                                        *)
(***************************************************************************)
CONSTANT Facts

VARIABLES
    known,  \* facts some stored memory says
    told    \* facts a caller was told the store holds

vars == <<known, told>>

Init == known = {} /\ told = {}

\* A memory is stored, or one is upgraded to a fuller wording.
Learn == known' \in SUBSET Facts /\ known \subseteq known' /\ told' = told

\* A response names the memories that hold what the caller said.
Tell == told' \in SUBSET known /\ told \subseteq told' /\ known' = known

Next == Learn \/ Tell

Spec == Init /\ [][Next]_vars

TypeOK == known \subseteq Facts /\ told \subseteq Facts
===============================================================================
