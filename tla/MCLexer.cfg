CONSTANTS
    Texts <- MCTexts
    Letter <- MCLetter
    mapTermIdx <- MCTermIdx
SPECIFICATION LexerSpec
INVARIANTS
    LongestMatches
    LinesRight
