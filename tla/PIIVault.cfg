SPECIFICATION Spec
CONSTANTS
    Types = {"email", "phone"}
    Values = {"a", "b"}
    Texts <- MCTexts
    MaxTexts = 3
INVARIANTS
    TypeOK
    VaultIsOneToOne
    EchoIsRestored
    ReservedLiteralsSurvive
CHECK_DEADLOCK FALSE
