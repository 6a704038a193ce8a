SPECIFICATION Spec
CONSTANTS
    Vault <- MCVault
    Symbols <- MCSymbols
    Phrase <- MCPhrase
    Conforming <- MCConforming
    ChoiceCount = 2
    MaxText = 5
    MaxChunk = 2
    MaxLength = 5
    Providers = {"off"}
    Interval = 3
INVARIANTS
    TokensComeBack
CHECK_DEADLOCK FALSE
