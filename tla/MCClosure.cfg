CONSTANTS
    g_eps = "eps"
    g_end = "end"
    Terminal <- MCTerminal
    NonTerminal <- MCNonTerminal
    RuleNr = {0, 1, 2, 3, 4, 5, 6, 10, 11, 12, 20, 21, 22, 23}
    Rules <- MCRules
    First <- MCFirst
    Kernels <- MCKernels
    BucketLimit = 13
SPECIFICATION ClosureSpec
INVARIANTS
    CoresUnique
    MCSound
    Complete
PROPERTIES
    ClosureTerminates
