----------------------------- MODULE MCWritePath -----------------------------
(* A small project for TLC: nested and conflicting wordings of one fact, in   *)
(* conversations of one memory.                                               *)
EXTENDS WritePath, TLC

\* Texts are named by their content words, in order.
MCContents == {"abc", "abcd", "abce", "abcde"}
MCCarries == {<<c, c>> : c \in MCContents}
    \cup {<<"abcd", "abc">>, <<"abce", "abc">>,
          <<"abcde", "abc">>, <<"abcde", "abcd">>, <<"abcde", "abce">>}

\* One memory per conversation.
MCSingles == {<<f>> : f \in Facts}

MCSymmetry == Permutations(Requests) \cup Permutations(Ids)
===============================================================================
