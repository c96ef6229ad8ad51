-------------------------------- MODULE MCPrune --------------------------------
(* The small project of MCWritePath, with the nightly job beside it. *)
EXTENDS Prune, TLC

MCContents == {"abc", "abcd", "abce", "ab"}
MCCarries == {<<c, c>> : c \in MCContents}
    \cup {<<"abcd", "abc">>, <<"abce", "abc">>, <<"abc", "ab">>, <<"abcd", "ab">>, <<"abce", "ab">>}

Fact(c, t) == [content |-> c, type |-> t]

\* One memory, or two that FoldRedundant keeps apart: an extension each, a short
\* text said twice, the same words in two types.
MCConversations ==
    {<<Fact(c, t)>> : c \in {"abc", "abcd"}, t \in Types}
        \cup {<<Fact("abcd", t), Fact("abce", t)>> : t \in Types}
        \cup {<<Fact("ab", t), Fact("ab", t)>> : t \in Types}
        \cup {<<Fact("abc", p[1]), Fact("abc", p[2])>> : p \in {q \in Types \X Types : q[1] # q[2]}}

MCSymmetry == Permutations(Requests) \cup Permutations(Ids) \cup Permutations(Types)
===============================================================================
