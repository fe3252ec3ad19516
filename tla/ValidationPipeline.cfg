\* Every plan under five configurations, meanings compared on two databases.
CONSTANTS
    Schema <- MCSchema
    TableOrder <- MCTableOrder
    Arithmetic <- MCArithmetic
    Embedded <- MCEmbedded
    Suspicious = {"bad"}
    Inputs <- MCInputs
    Configs <- MCConfigs
    Databases <- MCDatabases
    Dialects = {"postgres", "mysql", "sqlite"}
    MaxDepth = 8
    WithoutUnknownJoins <- DropHallucinatedJoins
    WithParsedColumns <- FixColumns
    WithMovedColumns <- FixTables
    WithOneMoreJoin <- WithJoin
    WithFlatAggregates <- DedupAggregates
    WithFullGroups <- FixGroups
    DropsUnnamed <- JoinsNameless
    JoinsUnnamed <- Nameless
    FoundBySchema <- SchemaErrors
    FoundByOperands <- OperandErrors
    FoundByDialect <- DialectErrors
    FoundByAudit <- AuditErrors
    Optimized <- OptimizedPlan
    SqlFor <- SqlOf
    LiteralsIn <- TextLiterals
    RefusedBy <- CompileErrors
SPECIFICATION Spec
INVARIANTS
    PolicyHolds
    NamesExist
    TypesAgree
    GroupsAreDetermined
    RepairKeepsMeaning
    OptimizedStillAccepted
    StatementMeansThePlan
    LiteralsReachPostgres
PROPERTIES
    FiltersHold
CHECK_DEADLOCK FALSE
