SPECIFICATION Spec
CONSTANTS
    BracketSpacing = FALSE
    MultilineFuncHeader = "AttributesFirst"
    SingleLineBlocks = "Preserve"
    Families <- MCFamilies
INVARIANTS SameProgram PrintsBack CommentsOnce
