SPECIFICATION Spec
CONSTANTS
    Ids <- MCIds
    Tables <- MCTables
    Options <- MCOptions
    Group <- Upper
    NoSection = "none"
INVARIANTS
    TypeOK
    OneTraitPerType
    EveryDefinitionHasTrait
    TraitsSeeTheirHeader
    OnlyDeepTypesLeak
CHECK_DEADLOCK FALSE
