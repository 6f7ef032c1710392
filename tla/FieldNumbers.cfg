SPECIFICATION Spec
CONSTANTS
    NoValue = NoValue
    NoTag = NoTag
    NoName = NoName
    MaxCaptureGroups = 3
    TableNames <- RouteTableNames
    Tables <- RouteTables
    Rules <- FieldRules
    CustomTryParse <- TextTryParse
    CustomTransform <- TextTransform
    CustomConsume <- TextConsume
    MaxBoundary = 4
    Chunks <- TextChunks
    MaxChunks <- TextMaxChunks
    RangeInt <- UInt8
    Subjects <- RangeOnly
INVARIANTS
    AcceptedNumbersExact
CHECK_DEADLOCK FALSE
