SPECIFICATION Spec
CONSTANTS
    Defs <- MCDefs
    OldDefs <- MCOld
    Samples <- MCSamples
    NoData = NoData
    MaxDepth = 8
    MaxItems = 4
    Bytes = {0, 1, 2, 5, 128, 255}
    SizeMax = 63
    MemTop = 22
    MinAlign = 2
    ChunkSize = 8
    StructSize = 3
    Initials = {0, 3}
    Sizes = {0, 1, 2, 3, 5, 62, 63}
    Aligns = {1, 2, 4}
    MaxBlocks = 3
    Keys = {1, 2, 3, 4}
    Values = {1, 2}
    Hash <- Spread
    GroupSize = 2
    InitialCapacity = 2
    LoadFactor = 7
    MaxCapacity = 8
    Threads = {thread_a, thread_b}
    BlockIds = {block_a, block_b, block_c}
    NoBlock = NoBlock
    AlignTo = 2
    HeaderSize = 3
    InitialBlock = 4
    MaxBlock = 6
    RequestSizes = {1, 3}
    MaxCalls = 3
    Library = base_bop
    Main = main_bop
    Scratch = untitled_1
    Paths = {base_bop, main_bop, untitled_1}
    Untitled = {untitled_1}
    Texts <- SmallTexts
    NoText = NoText
    MaxSteps = 5
    MaxTypeDepth = 3
    MaxFrames = 3
    MaxFixed = 9
    MaxIndex = 255
    WordBits = 30
    Numeral <- MCNumeral
    PathRank <- MCRank
    SourceTexts <- SchemaTexts
SYMMETRY AddressesAlike
CHECK_DEADLOCK FALSE
INVARIANT RoundTrip
INVARIANT VerifiedIsDecodable
INVARIANT ArenaConsistent
INVARIANT MapKeepsEntries
INVARIANT WireArenaConsistent
INVARIANT EditorShowsItsText
INVARIANT ParsingAdvances
INVARIANT FormatPreserves
