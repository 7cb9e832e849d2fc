CONSTANTS
    g_eps = "eps"
    g_end = "end"
    Terminal <- MCTerminal
    NonTerminal <- MCNonTerminal
    Primed <- MCPrimed
    Grammars <- MCGrammars
    LL1Grammars <- MCLL1Grammars
    Inputs <- MCInputs
SPECIFICATION MCSpec
INVARIANTS
    MCSetsSound
    SetsComplete
    RemovalKeepsLanguage
    MCParsesSentences
PROPERTIES
    TableIsParser
