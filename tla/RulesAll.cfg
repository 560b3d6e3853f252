SPECIFICATION Spec
CONSTANTS
    Modulus = 150
    FracCap = 2
    HeapBase = 13
    Gap = 24
    PageSize = 16
    FirstPages = 1
    MaxPages = 4
    Sizes = {0, 1, 9}
    Aligns = {1, 4}
    MaxBlocks = 4
    MAX_VALIDATION_ERRORS = 2
    IntMax = 74
    ExpMax = 30
    I32 = 16
    Usize = 32
    CellSize = 2
    LogMax = 3
    MaxOutput = 3
    MemorySizes = {3, 6}
    InputLens = {0, 1, 2}
    MaxTs = 5
    PageMax = 2
    FetchMax = 4
    HashBytes = 1
    MAX_POOL_NAME_LEN = 2
    MAX_DRT_NAME_LEN = 2
    MAX_CODE_REPO_URL_LEN = 2
    MAX_DRTS_PER_POOL = 2
    MAX_SUPPLY = 2
    MaxSchemaId = 2
    CsvUploads <- MCUploads
    TextCell <- IsUtf8
    CellPasses <- FieldFits
    PoolQueries <- MCPoolQueries
    CellAsks <- MCCellAsks
    Rows <- MCRows
    ListQueries <- MCListQueries
    CreateRequests <- MCCreateRequests
    NonceIds = {1, 2}
    MaxAge = 2
    LastSecond = 6
    SafeDigits = 2
INVARIANTS
    UploadVerdict
    QueryMeansUploads
    NumeralsRead
    
    BlocksDisjoint
    
    PagesComplete
    NonceOnce
    CreationsUsable
CHECK_DEADLOCK FALSE
