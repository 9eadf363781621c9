\* Two requests of up to two files, for every window and stride up to three.
SPECIFICATION IngestSpec
CONSTANTS
    DocIds <- TwoIds
    MaxWindow = 3
    Texts <- SomeTexts
    Unreadable = Unreadable
    Files <- SomeFiles
    MaxFiles = 2
    MaxRequests = 2
    MinSize = 2
    NoCorpus = NoCorpus
INVARIANTS
    TypeOK
    IngestTypeOK
    UnitsFindable
    ChunkCountExact
    NoNestedChunks
    FilesAccountedFor
    AppendUpdates
    CorpusReplaysIndex
PROPERTIES
    StepsNearer
    Answered
CHECK_DEADLOCK FALSE
