SPECIFICATION Spec
CONSTANTS
    Inputs <- FewInputs
    Alike <- MCAlike
    Fields = {"salary"}
    Apart <- FewApart
    NoUrl = NoUrl
CHECK_DEADLOCK FALSE
INVARIANT GateUsesOriginalIndices
