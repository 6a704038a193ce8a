SPECIFICATION Spec
CONSTANTS
    Types = {"email", "phone"}
    Values = {"a", "b"}
    Texts <- MCTexts
    MaxTexts = 3
INVARIANT LiteralsSurvive
CHECK_DEADLOCK FALSE
