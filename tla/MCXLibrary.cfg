SPECIFICATION Spec
CONSTANTS
    Entries = {"p", "q", "r", "s"}
    EntryKey <- MCEntryKey
    ArrayInitialSize = 2
    ArraySizes = {0, 1, 5}
    MapKeys = {"a", "b", "c"}
    MapValues = {"u", "v"}
    KeyHash <- MCKeyHash
    MapInitialSize = 2
    MapSizes = {0, 3}
    MapMaxSize = 3
    Alignment = 2
    SizeLimit = 16
    DefaultSize = 3
    PoolSizes = {0, 2, 6}
    BlockSizes = {0, 1, 3, 15}
    MaxChunks = 3
    MaxBlocks = 3
    ListNodes = {"a", "b", "c", "d"}
    JsonNames = {"a", "b"}
    NameRank <- MCNameRank
    JsonItems = {"1"}
    JsonStrings <- MCJsonStrings
    ObjInitialSize = 1
    MaxTokens = 8
    MaxObjects = 3
    ArrayGrowthFails = FALSE
    TextChars = {"a", ","}
    Delimiters <- MCDelimiters
    Patterns <- MCPatterns
    StringSizes = {0, 2}
    MaxText = 3
    Socks = {"a", "b"}
    Creators = {"a"}
    FlagSets <- MCFlagSets
    MaxHandles = 6
    MaxAsk = 2
    HttpKeys = {"Connection", "connection"}
    HttpBodies = {0, 1}
    HttpAnswers <- MCHttpAnswers
    RxSize = 2
    HeaderMax = 3
    ContentMax = 5
    LogNames = {"a"}
    LogFlags = {"NONE"}
    MaxDay = 4
    MaxLines = 3
    MaxChanges = 1
    Paths <- MCPaths
    FileData <- MCFileData
    FileModes <- MCFileModes
    Umask <- MCUmask
    BlockSize = 2
    MaxOther = 1
    NameText <- MCNameText
    SearchOptions <- MCSearchOptions
    SearchTops <- MCSearchTops
INVARIANTS MapIsDictionary ArrayIsSequence BlocksDisjoint ListLinked JsonFaithful
INVARIANTS StringsFaithful SocketsOwned HttpExchanged LogKept FilesFaithful SearchFaithful
CHECK_DEADLOCK FALSE
