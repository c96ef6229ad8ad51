------------------------------- MODULE Extract -------------------------------
(***************************************************************************)
(* What Extract does with a conversation before it writes: the model is    *)
(* asked for memories, or the rules read the turns; FoldRedundant folds    *)
(* what says the same; memories the project holds verbatim are set aside;  *)
(* the rest is embedded, in chunks by concurrent goroutines, and vectors   *)
(* are matched to memories by position.  WritePath has the writes.         *)
(***************************************************************************)
EXTENDS FoldRedundant

CONSTANTS
    Noise,        \* turns isNoise rejects: greetings and short ones
    Long,         \* turns of more than 30 characters
    Cues,         \* words of prefPatterns, procPatterns, eventPatterns and factPatterns
    Topics,       \* techTerms
    Spellings,    \* ways to write a text that its tokens do not tell
    Calls,        \* bound: conversations, each with what the model makes of it
    MaxMemories,  \* bound: turns of a conversation and entries of an array
    ChunkSize,    \* embedBatchSize
    Concurrency   \* embedExtractedConcurrency

ASSUME ExtractAssumption ==
    /\ Noise \subseteq Texts /\ Long \subseteq Texts
    /\ Cues \in [{"preference", "workflow", "event", "fact"} -> SUBSET Words]
    /\ Types = {"semantic", "procedural", "episodic"}
    /\ Topics \cup {"preference", "workflow", "event"} \subseteq Tags
    /\ MaxMemories \in Nat
    /\ ChunkSize \in Nat \ {0} /\ Concurrency \in Nat \ {0}

\* A turn: its words and the rest of its spelling.
Turns == [words : Texts, spelling : Spellings]

\* The model may name what it likes, of any type, and leave the text out.
ASSUME CallsAssumption ==
    \A call \in Calls :
        /\ call.turns \in Seq(Turns) /\ Len(call.turns) <= MaxMemories
        /\ call.answer \in Seq(Range(call.answer))
        /\ Len(call.answer) <= MaxMemories
        /\ \A i \in DOMAIN call.answer :
               /\ call.answer[i].content \in Texts \cup {<<>>}
               /\ call.answer[i].tags \subseteq Tags /\ call.answer[i].named \subseteq Words

VARIABLES
    stage,     \* where the call is
    turns,     \* the conversation, until the model has answered for it
    answer,    \* the model's array, until it is read
    embedder,  \* how the configured provider answers
    pending,   \* the memories to write
    request,   \* of each chunk, by the place it starts at
    vectors    \* of each place of pending that has one, the text it embeds

vars == <<left, kept, taken, stage, turns, answer, embedder, pending, request, vectors>>

Stages == {"model", "rules", "fold", "embed", "done"}

TypeOK ==
    /\ stage \in Stages
    /\ embedder \in {"none", "single", "openai", "google"}
    /\ turns \in Seq(Turns)
    /\ \A memories \in {left, kept, pending} :
           \A i \in 1..Len(memories) : memories[i] \in Extracted
    /\ taken \subseteq Extracted
    /\ Len(left) + Len(kept) <= MaxMemories
    /\ DOMAIN request \subseteq 1..Len(pending)
    /\ \A s \in DOMAIN request : request[s] \in {"waiting", "sent", "answered", "failed"}
    /\ Cardinality({s \in DOMAIN request : request[s] = "sent"}) <= Concurrency
    /\ DOMAIN vectors \subseteq 1..Len(pending)

-------------------------------------------------------------------------------
(* The rules *)

\* The kinds of cue in the order they are looked for, and what each makes of a turn.
Kinds == <<"preference", "workflow", "event", "fact">>
TypeOfKind == [preference |-> "semantic", workflow |-> "procedural", event |-> "episodic", fact |-> "semantic"]

\* classifyLine: the first kind of cue decides; a long turn without one is an event.
Classified(text) ==
    LET cued == {k \in 1..Len(Kinds) : WordsOf(text) \cap Cues[Kinds[k]] # {}}
        kind == Kinds[CHOOSE k \in cued : \A j \in cued : k <= j]
    IN  IF text \in Noise \/ (cued = {} /\ text \notin Long) THEN <<>>
        ELSE <<[content |-> text,
                type |-> IF cued = {} THEN "episodic" ELSE TypeOfKind[kind],
                tags |-> (WordsOf(text) \cap Topics)
                             \cup (IF cued = {} \/ kind = "fact" THEN {} ELSE {kind}),
                entities |-> NamesIn(text)]>>

\* Extract: what the turns give, but for one spelt like an earlier one (dedup).
RuleExtract(conversation) ==
    LET repeats(i) == \E j \in 1..(i - 1) : conversation[j] = conversation[i]
        memories(i) == IF repeats(i) THEN <<>> ELSE Classified(conversation[i].words)
    IN  FlattenSeq([i \in DOMAIN conversation |-> memories(i)])

-------------------------------------------------------------------------------
(* The model *)

\* parseMemoryType
ParsedType(type) == IF type \in Types THEN type ELSE "semantic"

\* reconcileEntities: the plausible ones of those the model named, or the
\* heuristic's.
Reconciled(named, text) == IF named \cap Names = {} THEN NamesIn(text) ELSE named \cap Names

\* The memory of an entry, but for one without content.
Told(said, type) ==
    IF said.content = <<>> THEN <<>>
    ELSE <<[content |-> said.content, type |-> type,
            tags |-> said.tags, entities |-> Reconciled(said.named, said.content)]>>

\* As Parsed below, with the type as the model spelt it.
ParsedVerbatim(array) == FlattenSeq([i \in DOMAIN array |-> Told(array[i], array[i].type)])

\* parseExtracted
Parsed(array) == FlattenSeq([i \in DOMAIN array |-> Told(array[i], ParsedType(array[i].type))])

\* An empty array taken at its word.
FallsBackNever(memories) == FALSE

\* An array nothing is left of counts as no answer.
FallsBack(memories) == memories = <<>>

-------------------------------------------------------------------------------
(* The embedder *)

\* embedExtracted: one text to a chunk where the provider has no batches.
ChunkLength == IF embedder \in {"openai", "google"} THEN ChunkSize ELSE 1

\* The starts of full chunks alone.
ChunkStartsOfFull(n) == {s \in 1..n : (s - 1) % ChunkLength = 0 /\ s + ChunkLength - 1 <= n}

ChunkStarts(n) == {s \in 1..n : (s - 1) % ChunkLength = 0}

Chunk(s) ==
    LET end == s + ChunkLength - 1
    IN  SubSeq(pending, s, IF end > Len(pending) THEN Len(pending) ELSE end)

\* A slot not given back when its request fails.
HeldOnFailure == {s \in DOMAIN request : request[s] \in {"sent", "failed"}}

\* Who holds a slot of sem.
Held == {s \in DOMAIN request : request[s] = "sent"}

\* A provider's reply is a sequence of entries, each with the index of its text
\* in the chunk; openai may give them in any order and any number, google in
\* order, one text is one entry.
Replies(n) ==
    CASE embedder = "openai" -> UNION {[1..k -> 1..n] : k \in 0..(n + 1)}
      [] embedder = "google" -> {[i \in 1..k |-> i] : k \in 0..(n + 1)}
      [] OTHER -> {<<1>>}

\* As Decoded below, with every entry left where it arrived.
DecodedAsArrived(reply) == <<reply>>

\* decodeOpenAIBatch puts the entry of index i in place i, which must be one of
\* as many places as there are entries, all filled; decodeGoogleBatch keeps the
\* order.  The result is the text whose vector is in each place, or nothing.
Decoded(reply) ==
    LET n == Len(reply)
    IN  IF \A i \in 1..n : \E j \in 1..n : reply[j] = i
        THEN <<[i \in 1..n |-> i]>>
        ELSE <<>>

\* EmbedBatch returns an error rather than a wrong number of vectors.
Accepted(reply, n) ==
    LET decoded == Decoded(reply) IN decoded # <<>> /\ Len(decoded[1]) = n

-------------------------------------------------------------------------------

Init ==
    /\ \E call \in Calls :
           /\ turns = call.turns
           /\ \/ stage = "model" /\ answer = call.answer
              \/ stage = "rules" /\ answer = <<>>  \* NewFromConfig without a provider
    /\ embedder \in {"none", "single", "openai", "google"}
    /\ left = <<>> /\ kept = <<>> /\ taken = {}
    /\ pending = <<>> /\ request = <<>> /\ vectors = <<>>

\* The provider does not answer, or not with a JSON array.
ModelFails ==
    /\ stage = "model"
    /\ stage' = "rules"
    /\ answer' = <<>>
    /\ UNCHANGED <<left, kept, taken, turns, embedder, pending, request, vectors>>

\* LLMExtractor.Extract
ModelAnswers ==
    LET memories == Parsed(answer)
    IN  /\ stage = "model"
        /\ IF FallsBack(memories)
           THEN stage' = "rules" /\ UNCHANGED <<left, turns>>
           ELSE /\ stage' = "fold" /\ left' = memories
                /\ turns' = IF memories = <<>> THEN turns ELSE <<>>
        /\ answer' = <<>>
        /\ UNCHANGED <<kept, taken, embedder, pending, request, vectors>>

RulesAnswer ==
    /\ stage = "rules"
    /\ left' = RuleExtract(turns)
    /\ stage' = "fold"
    /\ UNCHANGED <<kept, taken, turns, answer, embedder, pending, request, vectors>>

\* FoldRedundant
Fold ==
    /\ stage = "fold"
    /\ Take
    /\ UNCHANGED <<stage, turns, answer, embedder, pending, request, vectors>>

KeyOf(memory) == [content |-> memory.content, type |-> memory.type]

\* existingByContent and the filter behind it: stored is what the project holds
\* verbatim, or nothing when the lookup fails.
SetAside(stored) ==
    /\ stage = "fold" /\ left = <<>>
    /\ stored \subseteq {KeyOf(kept[i]) : i \in DOMAIN kept}
    /\ pending' = FlattenSeq([i \in DOMAIN kept |->
                      IF KeyOf(kept[i]) \in stored THEN <<>> ELSE <<kept[i]>>])
    /\ request' = IF embedder = "none" THEN <<>>
                  ELSE [s \in ChunkStarts(Len(pending')) |-> "waiting"]
    /\ stage' = "embed"
    /\ UNCHANGED <<left, kept, taken, turns, answer, embedder, vectors>>

\* A goroutine of embedExtracted gets a slot and sends its chunk.
Send(s) ==
    /\ stage = "embed" /\ request[s] = "waiting"
    /\ Cardinality(Held) < Concurrency
    /\ request' = [request EXCEPT ![s] = "sent"]
    /\ UNCHANGED <<left, kept, taken, stage, turns, answer, embedder, pending, vectors>>

\* No answer, an error for an answer, or one that cannot be used.
SendFails(s) ==
    /\ stage = "embed" /\ request[s] = "sent"
    /\ request' = [request EXCEPT ![s] = "failed"]
    /\ UNCHANGED <<left, kept, taken, stage, turns, answer, embedder, pending, vectors>>

Answered(s, reply) ==
    /\ stage = "embed" /\ request[s] = "sent"
    /\ reply \in Replies(Len(Chunk(s)))
    /\ Accepted(reply, Len(Chunk(s)))
    /\ LET texts == Decoded(reply)[1]
           places == s..(s + Len(texts) - 1)
       IN  vectors' = [p \in places \cup DOMAIN vectors |->
                          IF p \in places THEN Chunk(s)[texts[p - s + 1]].content ELSE vectors[p]]
    /\ request' = [request EXCEPT ![s] = "answered"]
    /\ UNCHANGED <<left, kept, taken, stage, turns, answer, embedder, pending>>

\* wg.Wait
EmbedEnds ==
    /\ stage = "embed"
    /\ \A s \in DOMAIN request : request[s] \in {"answered", "failed"}
    /\ stage' = "done"
    /\ UNCHANGED <<left, kept, taken, turns, answer, embedder, pending, request, vectors>>

FoldStep == Fold \/ \E stored \in SUBSET {KeyOf(kept[i]) : i \in DOMAIN kept} : SetAside(stored)

Goroutine(s) ==
    Send(s) \/ SendFails(s) \/ \E reply \in Replies(Len(Chunk(s))) : Answered(s, reply)

Next ==
    \/ ModelFails \/ ModelAnswers \/ RulesAnswer \/ FoldStep
    \/ EmbedEnds \/ \E s \in DOMAIN request : Goroutine(s)

Spec == Init /\ [][Next]_vars

-------------------------------------------------------------------------------
(* What the pipeline must get right, beside NothingLost and TagsEarned *)

\* "The rule-based pass is cheap and settles it": whatever becomes of the model,
\* the call goes on with its memories or with one that says what each turn says
\* that the rules recognise.
ConversationKept ==
    (stage \notin {"model", "rules"} /\ left = <<>>) =>
        \A i \in DOMAIN turns : \A j \in DOMAIN Classified(turns[i].words) :
            \E k \in DOMAIN kept : Stands(kept[k], Classified(turns[i].words)[j])

\* "a misaligned result attaches embeddings to the wrong memories, and nothing
\* downstream can detect that": a vector embeds the text of its own memory,
\* whatever order the chunks and their entries arrive in.
VectorsOfTheirTexts ==
    \A p \in DOMAIN vectors : vectors[p] = pending[p].content

\* "one failing chunk costs only its own memories": with a provider, a memory to
\* write goes without a vector only when the request of its own chunk failed.
OnlyFailedChunksCost ==
    (stage = "done" /\ embedder # "none") =>
        \A p \in 1..Len(pending) : p \in DOMAIN vectors \/
            \E s \in DOMAIN request : request[s] = "failed" /\ s <= p /\ p < s + ChunkLength

\* Every step is the engine's own, or the end of a request that has a timeout
\* (llmDefaultClient, defaultClient).
FairSpec == Spec /\ WF_vars(Next)

\* A call comes to the end of its embedding, however many requests fail and
\* however few the slots are.
PipelineEnds == <>(stage = "done")
===============================================================================
