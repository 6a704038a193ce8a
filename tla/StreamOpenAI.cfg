SPECIFICATION Spec
CONSTANTS
    Vault <- MCVault
    Symbols <- MCSymbols
    Phrase <- MCPhrase
    Conforming <- MCConforming
    ChoiceCount = 1
    MaxText = 6
    MaxChunk = 2
    MaxLength = 5
    Providers = {"wordlist", "ml"}
    Interval = 3
INVARIANTS
    TypeOK
    RestoredWhenDone
    DeliveredIsClearedPrefix
    RowMatchesEnd
    UnjudgedBounded
    
CHECK_DEADLOCK FALSE
