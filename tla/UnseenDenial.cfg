\* Plans with queries where the stages do not look.
CONSTANTS
    Schema <- MCSchema
    TableOrder <- MCTableOrder
    Arithmetic <- MCArithmetic
    Embedded <- MCEmbedded
    Suspicious = {"bad"}
    Inputs <- MCUnseen
    Configs <- MCConfigs
    Databases <- MCDatabases
    Dialects = {"postgres", "mysql", "sqlite"}
    MaxDepth = 8
    WithoutUnknownJoins <- DropHallucinatedJoins
    WithParsedColumns <- FixColumns
    WithMovedColumns <- FixTables
    WithOneMoreJoin <- WithJoin
    WithFlatAggregates <- DedupAggregates
    WithFullGroups <- FixGroups
    DropsUnnamed <- JoinsNameless
    JoinsUnnamed <- Nameless
    FoundBySchema <- SchemaErrors
    FoundByOperands <- OperandErrors
    FoundByDialect <- DialectErrors
    FoundByAudit <- AuditErrors
    Optimized <- OptimizedPlan
    SqlFor <- SqlOf
    LiteralsIn <- TextLiterals
    RefusedBy <- CompileErrors
SPECIFICATION Spec
INVARIANTS
    PolicyCoversAll
CHECK_DEADLOCK FALSE
