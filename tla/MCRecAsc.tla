------------------------------ MODULE MCRecAsc ------------------------------
(* The recursive-ascent parser for the statement lists of the script language, *)
(* whose rules with an empty right-hand side jump without a return.           *)
EXTENDS RecAscent, StmtTables, SequencesExt

MCTerminal == StmtTerminal
MCNonTerminal == StmtNonTerminal
MCRules == StmtRules
MCState == StmtState
MCItems == StmtItems
MCShift == Table(MCTerminal, StmtShift, ERROR_VAL)
MCReduce == Table(MCTerminal, StmtReduce(ACCEPT_VAL), ERROR_VAL)
MCJump == Table(MCNonTerminal, StmtJump, ERROR_VAL)
MCNumRhs == [r \in DOMAIN MCRules |-> Len(MCRules[r].rhs)]

\* The sentences and their prefixes, without the end token.
MaxTokens == 8
Reference ==
    INSTANCE Language WITH LangTerminal <- MCTerminal, LangNonTerminal <- MCNonTerminal,
                           LangRules <- MCRules, LangLength <- MaxTokens
Sentences == Reference!Sentences
ViablePrefixes == Reference!ViablePrefixes

\* Every prefix of a sentence, alone or followed by any token: Parse reads no
\* token behind the first one it cannot use.
MCInputs ==
    LET short == {w \in ViablePrefixes : Len(w) < MaxTokens}
    IN  {Append(w, "end") : w \in ViablePrefixes}
            \cup {w \o <<t, "end">> : w \in short, t \in MCTerminal \ {"end"}}

\* A fresh object, one that has accepted, and one left by an exception of a
\* semantic rule.
Tree == [sym |-> "stmts", rule |-> 2, from |-> 1, to |-> 1]
MCLeftover ==
    {[m_symbols |-> <<>>, m_dist_to_jump |-> 0, m_accepted |-> FALSE],
     [m_symbols |-> <<Tree>>, m_dist_to_jump |-> 0, m_accepted |-> TRUE],
     [m_symbols |-> <<Tree, Tree>>, m_dist_to_jump |-> 3, m_accepted |-> FALSE]}
=============================================================================
