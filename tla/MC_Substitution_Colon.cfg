CONSTANTS
    PE = PE
    Texts <- MCTexts
    PatternLists <- MCPatternListsColon
    Quote = "q"
    ParseError <- PE
SPECIFICATION Spec
CHECK_DEADLOCK FALSE
INVARIANT SubstitutionMatchesSpec
