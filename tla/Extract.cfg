\* Conversations of two turns, arrays of three entries, chunks of two.
SPECIFICATION FairSpec
CONSTANTS
    Words = {"ann", "bob", "may", "met", "not"}
    Polar = {"not"}
    Names = {"ann", "bob", "may"}
    Texts <- MCTexts
    Types = {"semantic", "episodic", "procedural"}
    Tags = {"preference", "workflow", "event", "t1", "t2"}
    MinTokens = 3
    Noise <- MCNoise
    Long <- MCLong
    Cues <- MCCues
    Topics = {}
    Spellings = {"plain", "stressed"}
    Calls <- MCCalls
    MaxMemories = 3
    ChunkSize = 2
    Concurrency = 2
INVARIANTS
    TypeOK
    NothingLost
    TagsEarned
    ConversationKept
    VectorsOfTheirTexts
    OnlyFailedChunksCost
PROPERTIES
    PipelineEnds
\* A call stops once its vectors are in.
CHECK_DEADLOCK FALSE
