SPECIFICATION Spec
CONSTANTS
    Inputs <- MCInputs
    Alike <- MCAlike
    Fields = {"salary"}
    Apart <- MCApart
    NoUrl = NoUrl
CHECK_DEADLOCK FALSE
INVARIANTS
    FieldsFromMembers
    HashStaleOnlyByBackfill
PROPERTIES
    ImplementsClusters
