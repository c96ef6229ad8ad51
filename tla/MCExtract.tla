------------------------------ MODULE MCExtract ------------------------------
(* Wordings of "ann met bob", one of them negated, for TLC. *)
EXTENDS Extract

Ann == <<"ann">>  \* too short to be evidence
AnnMetBob == <<"ann", "met", "bob">>
BobMetAnn == <<"bob", "met", "ann">>  \* the same words, another fact
AnnMetBobMay == <<"ann", "met", "bob", "may">>
MetBobMay == <<"met", "bob", "may">>
Negated == <<"ann", "not", "met", "bob">>

MCTexts == {Ann, AnnMetBob, BobMetAnn, AnnMetBobMay, MetBobMay, Negated}

MCNoise == {Ann}
MCLong == {}

\* Ann met Bob reads as an event, with May in it as a preference.
MCCues == [preference |-> {"may"}, workflow |-> {}, event |-> {"met"}, fact |-> {}]

Entry(content, type, tag) == [content |-> content, type |-> type, tags |-> {tag}, named |-> {}]

\* An entry may be blank, of an unknown type, or name what it does not say.
MCSaid ==
    {Entry(text, "episodic", "t1") : text \in MCTexts}
        \cup {Entry(Ann, "episodic", "t2"), Entry(AnnMetBobMay, "episodic", "t2")}
        \cup {Entry(AnnMetBob, "event", "t2"), Entry(<<>>, "semantic", "t1")}
        \cup {[Entry(BobMetAnn, "semantic", "t1") EXCEPT !.named = {"may", "met"}]}

Conversations == UNION {[1..n -> Turns] : n \in 0..2}
Arrays(max) == UNION {[1..n -> MCSaid] : n \in 0..max}

\* Any two turns with a short array, and any array with no turn to fall back on.
MCCalls ==
    [turns : Conversations, answer : {<<>>, <<Entry(<<>>, "semantic", "t1")>>}]
        \cup [turns : {<<>>}, answer : Arrays(3)]

\* What MemoryRepo assumes of Carries holds of Says, which is what Subsumes
\* computes (module ExtractProofs has both for any texts).
ASSUME
    /\ \A a \in Texts : Says(a, a)
    /\ \A a, b, c \in Texts : Says(a, b) /\ Says(b, c) => Says(a, c)
===============================================================================
