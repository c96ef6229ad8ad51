------------------------------- MODULE MCRetrieve -------------------------------
EXTENDS Retrieve, TLC

CONSTANTS about, near, fact, update

\* 1 names the subject and matches nothing; 2 is near the query and matches
\* nothing; 3 matches a term and is nearer; 4 says the same as 3, of the same day
\* and as little read, so that only the demotion can put it first.
MCContentOf == (1 :> about) @@ (2 :> near) @@ (3 :> fact) @@ (4 :> update)
MCTypeOf == (1 :> "episodic") @@ (2 :> "episodic") @@ (3 :> "semantic") @@ (4 :> "semantic")
MCRecency == (1 :> 4) @@ (2 :> 8) @@ (3 :> 12) @@ (4 :> 12)
MCTypePriority == ("semantic" :> 20) @@ ("episodic" :> 18)
MCLexical == (about :> 0) @@ (near :> 0) @@ (fact :> 2) @@ (update :> 2)
MCCosine == (about :> 2) @@ (near :> 8) @@ (fact :> 10) @@ (update :> 10)
MCNamed == (about :> 1) @@ (near :> 0) @@ (fact :> 0) @@ (update :> 0)
MCReplaces == {<<4, 3>>}
MCCarries == {<<c, c>> : c \in Contents}
MCQueries ==
    {[text |-> "terms", types |-> {}, topK |-> k, scoped |-> TRUE] : k \in {1, 4}}
    \cup {[text |-> "terms", types |-> {}, topK |-> 4, scoped |-> FALSE]}
    \cup {[text |-> "stops", types |-> {"semantic"}, topK |-> 2, scoped |-> TRUE],
          [text |-> "none", types |-> {}, topK |-> 2, scoped |-> FALSE]}
MCTypes == {"semantic", "episodic"}
=============================================================================
