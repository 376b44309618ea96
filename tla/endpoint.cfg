CONSTANTS
    Anyone = Anyone
    Poster = Poster
    Reader = Reader
    Callers <- MCCallers
    Posts <- MCPosts
    Locals <- MCLocals
    None = None
SPECIFICATION Spec
INVARIANTS KeptIsConsentedAndClean LoneSecretsAreReplaced ResultsCountWhatWasAnswered
PROPERTIES EveryCallEnds
CHECK_DEADLOCK FALSE
