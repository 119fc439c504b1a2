SPECIFICATION ComboSpec
CONSTANTS
    Texts <- MCAllTexts
    Empty = ""
    Codes <- MCCodes
    Trim <- MCTrim
    Label <- MCLabel
    Labelled <- MCLabelled
    Found <- MCFound
    Refused = {"B-y"}
    NoCode = NoCode
    NoLookup = NoLookup
CHECK_DEADLOCK FALSE
INVARIANTS NoStaleStatus
