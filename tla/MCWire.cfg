SPECIFICATION FairSpec
CONSTANTS
    Workers = {1, 2}
    Bytes = {0, 1}
    Chunk = 2
    Wide = 512
    Many = 4
    Root <- MCRoot
    Contents <- MCContents
    Folders <- MCFolders
    Escapes <- MCEscapes
    Leftovers <- MCLeftovers
    Extra <- MCExtra
    Workloads <- MCWorkloads
INVARIANTS
    AnsweredAsRegistered
    HandlersGetTheBody
    ReadsWhatItWrites
    LengthMatchesBody
    EtagsSettle
    ArchiveOpens
PROPERTY ParserStops
CHECK_DEADLOCK FALSE
