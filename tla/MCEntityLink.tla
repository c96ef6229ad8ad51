------------------------------ MODULE MCEntityLink ------------------------------
EXTENDS EntityLink, TLC

CONSTANTS m1, m2, other

\* A memory that names one thing, and one that names it twice and another.
MCMentions == {<<"dog">>, <<"dog", Blank, "dog", "vet">>}
MCNames == {"dog", "vet"}
MCProjectOf == (m1 :> "home") @@ (m2 :> "home") @@ (other :> "work")
MCProjects == {"home", "work"}
=============================================================================
