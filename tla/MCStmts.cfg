CONSTANTS
    END = "end"
    ERROR_VAL = ERROR_VAL
    ACCEPT_VAL = ACCEPT_VAL
    RuleNr = {0, 1, 2, 3, 4, 5}
    Terminal <- MCTerminal
    NonTerminal <- MCNonTerminal
    Rules <- MCRules
    State <- MCState
    Items <- MCItems
    m_tabActionShift <- MCShift
    m_tabActionReduce <- MCReduce
    m_tabJump <- MCJump
    m_numRhsSymsPerRule <- MCNumRhs
    Inputs <- MCInputs
    LookAheads <- MCLookAheads
    Nullable <- MCNullable
    First <- MCFirst
    KnownSentences <- MCSentences
SPECIFICATION ParserSpec
INVARIANTS
    StackIsPath
    NeverUndefined
    SpansInOrder
    NoSentenceRejected
    ShiftsOnlySentences
PROPERTIES
    Derives
    Terminates
