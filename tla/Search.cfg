SPECIFICATION Spec
CONSTANTS
    FieldType <- MCFieldType
    Charset <- MCCharset
    Indexed = {"k", "a", "s", "d"}
    FullTextKey <- MCFullTextKey
    InvalidTime = 99
    Base = 8
    BlobLength = 1
    Null = Null
    Tables <- MCTables
    Statements <- MCStatements
    KeyColumns <- MCKeyColumns
    PartInfo <- MCPartInfo
    Collation <- MCCollation
    Builds <- MCBuilds
    NoWhere = NoWhere
    NoOrder = NoOrder
    NoLimit = 99
    NIL = NIL
    None = None
    Convertable <- MCConvertable
    MatchCount <- MCMatchCount
    GroongaHolds <- MCGroongaHolds
    SqlHolds <- Holds
    ReadColumns <- ColumnsOf
    SaysTheSame <- MCSaysTheSame
INVARIANTS
    SearchTypeOK
    SkippedIsAlike
    HandlerIsClean
PROPERTIES
    SelectAnswers
    BufferIsRecord
    StatementEnds
