CONSTANTS
    g_eps = "eps"
    g_end = "end"
    Terminal <- MCTerminal
    NonTerminal <- MCNonTerminal
    RuleNr = {0, 1, 2, 3, 4, 10, 11, 12, 13, 14, 15, 16, 20, 21, 22, 23, 30, 31, 32, 33, 34}
    Rules <- MCRules
    First <- MCFirst
    StartRules = {0, 10, 20, 30}
    TermOrder <- MCTermOrder
    Follow <- MCFollow
    LocalClosure <- ClosureOf
    Canonical <- MCCanonical
    ERROR_VAL = ERROR_VAL
    ACCEPT_VAL = ACCEPT_VAL
    None = None
    Setups <- MCSetups
SPECIFICATION TablesSpec
INVARIANTS
    ComefromsExact
    CollectionCorrect
    FitForParser
    ConflictsReported
    CompleteForParser
