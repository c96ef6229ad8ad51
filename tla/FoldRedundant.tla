---------------------------- MODULE FoldRedundant ----------------------------
(***************************************************************************)
(* extraction.FoldRedundant: the memories of one conversation are read one *)
(* at a time, and one that says the same thing as a memory kept before is  *)
(* folded into it.                                                         *)
(*                                                                         *)
(* A text is its sequence of content tokens (model.ContentTokens): case,   *)
(* punctuation and spacing are already gone.                               *)
(***************************************************************************)
EXTENDS Integers, Sequences, FiniteSets, SequencesExt

CONSTANTS
    Words,
    Polar,      \* words that flip or qualify a statement (polarityTokens)
    Names,      \* words that name an entity (isPlausibleEntity)
    Texts,      \* what a memory may say
    Types,
    Tags,
    MinTokens   \* minSubsumptionTokens

ASSUME FoldAssumption ==
    /\ Polar \subseteq Words /\ Names \subseteq Words
    /\ Texts \subseteq Seq(Words)
    /\ MinTokens \in Nat

VARIABLES
    left,   \* the memories not read yet
    kept,   \* the result so far
    taken   \* history: the memories read so far

WordsOf(text) == {text[i] : i \in 1..Len(text)}

NamesIn(text) == WordsOf(text) \cap Names

\* ExtractedMemory
Extracted == [content : Texts, type : Types, tags : SUBSET Tags, entities : SUBSET Names]

-------------------------------------------------------------------------------

\* The same as a comparison of word sets.
IsContained(inner, outer) == WordsOf(inner) \subseteq WordsOf(outer)

\* isOrderedSubsequence: one pass over outer, with the number of words of inner
\* matched so far.
IsOrderedSubsequence(inner, outer) ==
    LET match(i, word) == IF i < Len(inner) /\ inner[i + 1] = word THEN i + 1 ELSE i
    IN  FoldLeft(match, 0, outer) = Len(inner)

\* hasPolarityMarker
HasPolarityMarker(text) == WordsOf(text) \cap Polar # {}

TooShort(text) == Len(text) < MinTokens

\* Subsumes: what a newer text makes of an older one.
Subsumes(newer, older) ==
    LET comparable == /\ ~TooShort(newer) /\ ~TooShort(older)
                      /\ HasPolarityMarker(newer) = HasPolarityMarker(older)
        newSubsumesOld == comparable /\ IsOrderedSubsequence(older, newer)
        oldSubsumesNew == comparable /\ IsOrderedSubsequence(newer, older)
    IN  CASE newSubsumesOld /\ oldSubsumesNew -> "Equivalent"
          [] newSubsumesOld /\ ~oldSubsumesNew -> "NewSubsumesOld"
          [] oldSubsumesNew /\ ~newSubsumesOld -> "OldSubsumesNew"
          [] OTHER -> "Distinct"

\* The same without regard to the type.
FoldsIntoAnyType(m, k) == Subsumes(m.content, k.content) # "Distinct"

FoldsInto(m, k) == k.type = m.type /\ Subsumes(m.content, k.content) # "Distinct"

\* The fuller wording in the place of the first, and the union of the tags.
Merge(m, k) ==
    [k EXCEPT !.content = IF Subsumes(m.content, @) = "OldSubsumesNew" THEN @ ELSE m.content,
              !.tags = @ \cup m.tags]

\* One turn of the outer loop: into the first kept memory that m folds into, or
\* behind all of them.
FoldIn(m, memories) ==
    LET matches == {i \in DOMAIN memories : FoldsInto(m, memories[i])}
    IN  IF matches = {} THEN Append(memories, m)
        ELSE LET first == CHOOSE i \in matches : \A j \in matches : i <= j
             IN  [memories EXCEPT ![first] = Merge(m, @)]

-------------------------------------------------------------------------------

\* One turn of the outer loop.
Take ==
    /\ left # <<>>
    /\ kept' = FoldIn(Head(left), kept)
    /\ taken' = taken \cup {Head(left)}
    /\ left' = Tail(left)

-------------------------------------------------------------------------------
(* What folding must get right *)

\* The reference for "says everything it says": some strictly increasing choice
\* of places in a spells b, and both or neither are qualified.
Says(a, b) ==
    /\ \E place \in [1..Len(b) -> 1..Len(a)] :
           /\ \A i \in 1..Len(b) : a[place[i]] = b[i]
           /\ \A i, j \in 1..Len(b) : i < j => place[i] < place[j]
    /\ (WordsOf(a) \cap Polar = {}) <=> (WordsOf(b) \cap Polar = {})

Stands(k, m) == k.type = m.type /\ Says(k.content, m.content)

\* FoldRedundant never loses a fact or a tag: whatever order the wordings come
\* in, one kept memory says what was said, with its type, polarity and tags.
NothingLost ==
    \A m \in taken : \E i \in DOMAIN kept : Stands(kept[i], m) /\ m.tags \subseteq kept[i].tags

\* unionTags never puts a tag on a memory that does not say what was tagged.
TagsEarned ==
    \A i \in DOMAIN kept : \A tag \in kept[i].tags :
        \E m \in taken : tag \in m.tags /\ Stands(kept[i], m)

===============================================================================
