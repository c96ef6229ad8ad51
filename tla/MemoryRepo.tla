------------------------------ MODULE MemoryRepo ------------------------------
(***************************************************************************)
(* The two tables behind graph.AGERepository as the write path uses them:  *)
(* the :Memory vertices of one project and public.memory_embeddings.  Each *)
(* operator below is one SQL or Cypher statement, so it is atomic; whoever *)
(* EXTENDS this module decides in which order the statements are issued.   *)
(*                                                                         *)
(* A memory's text is abstracted to a member of Contents, one member per   *)
(* model.ContentHash: texts that differ in case, punctuation or spacing    *)
(* are the same member.  A vector is abstracted to the text it was         *)
(* computed from.                                                          *)
(***************************************************************************)
EXTENDS Integers, Sequences, FiniteSets

CONSTANTS
    Ids,       \* the uuids that may name a memory; a uuid is never reused
    Contents,  \* memory texts, up to ContentHash
    Types,     \* semantic, episodic, procedural
    Short,     \* texts of fewer than minSubsumptionTokens content words
    Carries,   \* <<a, b>>: the words of b appear, in order, in a
    Unborn,    \* no memory has been created under this id yet
    Deleted,   \* the memory of this id was deleted
    NoVector   \* memory_embeddings has no row for this id

\* What a memory claims: the words and the kind of claim (graph.ContentKey).
Facts == [content : Contents, type : Types]

\* A :Memory vertex.  access_count is kept as "is it above zero", which is all
\* the prune phase asks of it.
Rows == [content : Contents, type : Types, content_hash : Contents, used : BOOLEAN]

\* What extraction.Subsumes and model.ContentHash guarantee of texts: to carry
\* is reflexive and transitive (module Extract checks it of the code).
ASSUME RepoAssumption ==
    /\ Short \subseteq Contents
    /\ Carries \subseteq Contents \X Contents
    /\ \A a \in Contents : <<a, a>> \in Carries
    /\ \A a, b, c \in Contents :
           <<a, b>> \in Carries /\ <<b, c>> \in Carries => <<a, c>> \in Carries
    /\ Unborn \notin Rows /\ Deleted \notin Rows /\ Unborn # Deleted
    /\ NoVector \notin Contents

VARIABLES
    memory,    \* [Ids -> Rows, Unborn or Deleted]
    embedding  \* [Ids -> the text the stored vector was computed from]

repoVars == <<memory, embedding>>

RepoTypeOK ==
    /\ memory \in [Ids -> Rows \cup {Unborn, Deleted}]
    /\ embedding \in [Ids -> Contents \cup {NoVector}]

RepoInit ==
    /\ memory = [id \in Ids |-> Unborn]
    /\ embedding = [id \in Ids |-> NoVector]

-------------------------------------------------------------------------------
(* Reading the store *)

Live(id) == memory[id] \in Rows

FactOf(row) == [content |-> row.content, type |-> row.type]

\* Row contents f say everything g says: same type, and f carries g.
Covers(f, g) == f.type = g.type /\ <<f.content, g.content>> \in Carries

\* FindByContentHash for one key: indexed on content_hash, keyed by the hash
\* recomputed from the content read, and by type.
Twins(f) == {id \in Ids : /\ Live(id)
                          /\ memory[id].content_hash = f.content
                          /\ FactOf(memory[id]) = f}

\* SearchByVector: ids with an embedding row, hydrated from the graph, which
\* drops the ones that have no vertex.
Searchable == {id \in Ids : embedding[id] # NoVector /\ Live(id)}

-------------------------------------------------------------------------------
(* Writing the store.  An operator whose name ends in a slip (Unhashed, ...)  *)
(* is a mutant: the statement as a plausible bug would have it.               *)

CreateMemoryUnhashed(id, f) ==
    memory' = [memory EXCEPT ![id] =
        [content |-> f.content, type |-> f.type, content_hash |-> NoVector, used |-> FALSE]]

CreateMemory(id, f) ==
    memory' = [memory EXCEPT ![id] =
        [content |-> f.content, type |-> f.type, content_hash |-> f.content, used |-> FALSE]]

HashMatchesUnguarded(id, expectedHash) == Live(id)

\* The MATCH of UpdateMemoryContent: the guard of its compare-and-set.
HashMatches(id, expectedHash) == Live(id) /\ memory[id].content_hash = expectedHash

UpdateMemoryContentKeepingHash(id, content) ==
    memory' = [memory EXCEPT ![id].content = content]

UpdateMemoryContent(id, content) ==
    memory' = [memory EXCEPT ![id] =
        [content |-> content, type |-> @.type, content_hash |-> content, used |-> @.used]]

IncrementAccessCountsOfOne(ids) ==
    memory' = [id \in Ids |->
        IF ids = {id} /\ Live(id) THEN [memory[id] EXCEPT !.used = TRUE] ELSE memory[id]]

\* Ids that no longer name a vertex are silently skipped.
IncrementAccessCounts(ids) ==
    memory' = [id \in Ids |->
        IF id \in ids /\ Live(id) THEN [memory[id] EXCEPT !.used = TRUE] ELSE memory[id]]

\* INSERT ... ON CONFLICT DO UPDATE: it does not ask whether the vertex exists.
StoreEmbedding(id, content) == embedding' = [embedding EXCEPT ![id] = content]

\* The first and the third statement of DeleteMemory.
DeleteEmbedding(id) == embedding' = [embedding EXCEPT ![id] = NoVector]

DetachDelete(id) ==
    memory' = [memory EXCEPT ![id] = IF Live(id) THEN Deleted ELSE @]
===============================================================================
