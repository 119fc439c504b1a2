SPECIFICATION FairComboSpec
CONSTANTS
    Texts <- MCAllTexts
    Empty = ""
    Codes <- MCCodes
    Trim <- MCTrim
    Label <- MCLabel
    Labelled <- MCLabelled
    Found <- MCFound
    Refused = {"B-y"}
    NoCode = NoCode
    NoLookup = NoLookup
CHECK_DEADLOCK FALSE
INVARIANTS ComboTypeOK ListAnswersText ChoiceIsShown
PROPERTIES CatchesUp
