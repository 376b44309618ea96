CONSTANTS
    Anyone = Anyone
    Poster = Poster
    Reader = Reader
    Callers <- MCCallers
    Posts <- MCPosts
    Locals <- MCLocals
    None = None
SPECIFICATION Spec
INVARIANTS SecretsAreReplaced

CHECK_DEADLOCK FALSE
