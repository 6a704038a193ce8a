SPECIFICATION MessageSpec
CONSTANTS
    Vault <- MCVault
    Symbols <- MCSymbols
    Phrase <- MCPhrase
    Conforming <- MCConforming
    MaxText = 6
    MaxBlocks = 2
    MaxChunk = 2
    MaxLength = 5
    Providers = {"wordlist", "off"}
    Interval = 3
INVARIANTS
    BlocksRestored
    SentTextIsClean
    RowMeansComplete
CHECK_DEADLOCK FALSE
