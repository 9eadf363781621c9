\* The same requests, for the promise of the paragraph strategy.
SPECIFICATION IngestSpec
CONSTANTS
    DocIds <- TwoIds
    MaxWindow = 3
    Texts <- SomeTexts
    Unreadable = Unreadable
    Files <- SomeFiles
    MaxFiles = 2
    MaxRequests = 2
    MinSize = 2
    NoCorpus = NoCorpus
INVARIANTS
    ParagraphsSeparate
CHECK_DEADLOCK FALSE
