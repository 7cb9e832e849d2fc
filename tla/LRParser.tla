------------------------------ MODULE LRParser ------------------------------
(***************************************************************************)
(* The table-driven LR(1) parser, Parser::Parse: a stack of states, a stack *)
(* of syntax nodes, and the shift, reduce and jump tables that              *)
(* Collection::CreateParseTables computes.  One action per branch of the    *)
(* loop body.                                                              *)
(*                                                                         *)
(* The tables are constants here.  What the parser relies on is stated by   *)
(* TablesAssumption: they belong to an automaton whose states are sets of   *)
(* items, with no conflict left.  A syntax node is abstracted to its symbol, *)
(* the rule that built it and the part of the input it stands for.          *)
(***************************************************************************)
EXTENDS Integers, Sequences

CONSTANTS
    Terminal, NonTerminal, END,
    RuleNr,                 \* semantic rule numbers; 0 is the rule of the start symbol
    Rules,                  \* for each rule its lhs and its rhs without epsilon
    State,                  \* numbers of the closures; 0 is the first one
    Items,                  \* for each state its elements: <<rule, cursor>>
    m_tabActionShift, m_tabActionReduce, m_tabJump, m_numRhsSymsPerRule,
    ERROR_VAL, ACCEPT_VAL,
    Inputs                  \* the token vectors to parse

Rhs(r) == Rules[r].rhs

\* Where the automaton goes from state s with symbol X.
Goto(s, X) == IF X \in Terminal THEN m_tabActionShift[s][X] ELSE m_tabJump[s][X]

ASSUME SymbolsAssumption ==
    /\ END \in Terminal
    /\ Terminal \cap NonTerminal = {}
    /\ RuleNr \subseteq Nat /\ 0 \in RuleNr
    /\ Rules \in [RuleNr -> [lhs : NonTerminal, rhs : Seq(Terminal \cup NonTerminal)]]
    /\ Len(Rhs(0)) = 1
    /\ State \subseteq Nat /\ 0 \in State
    /\ ERROR_VAL \notin State \cup RuleNr /\ ACCEPT_VAL \notin State \cup RuleNr
    /\ ERROR_VAL # ACCEPT_VAL

ASSUME TablesTypeAssumption ==
    /\ m_tabActionShift \in [State -> [Terminal -> State \cup {ERROR_VAL}]]
    /\ m_tabActionReduce \in [State -> [Terminal -> RuleNr \cup {ERROR_VAL, ACCEPT_VAL}]]
    /\ m_tabJump \in [State -> [NonTerminal -> State \cup {ERROR_VAL}]]
    /\ m_numRhsSymsPerRule = [r \in RuleNr |-> Len(Rhs(r))]
    /\ Items \in [State -> SUBSET (RuleNr \X Nat)]

\* Items of a state have their cursor at 0 or come over a transition; a reduce
\* entry has a finished item, and the state a rule starts in a jump for its
\* left-hand side.  Nothing leads back to state 0.
ASSUME TablesAssumption ==
    /\ \A item \in Items[0] : item[2] = 0
    /\ \A s \in State, X \in Terminal \cup NonTerminal :
           Goto(s, X) # ERROR_VAL =>
               /\ Goto(s, X) # 0
               /\ \A item \in Items[Goto(s, X)] : item[2] > 0 =>
                      /\ <<item[1], item[2] - 1>> \in Items[s]
                      /\ item[2] <= Len(Rhs(item[1])) /\ Rhs(item[1])[item[2]] = X
    /\ \A s \in State, r \in RuleNr :
           <<r, 0>> \in Items[s] /\ r # 0 => m_tabJump[s][Rules[r].lhs] # ERROR_VAL
    /\ \A s \in State, r \in RuleNr : <<0, 0>> \in Items[s] => s = 0
    /\ \A s \in State, a \in Terminal :
           /\ m_tabActionShift[s][a] = ERROR_VAL \/ m_tabActionReduce[s][a] = ERROR_VAL
           /\ m_tabActionReduce[s][a] = ACCEPT_VAL => <<0, 1>> \in Items[s] /\ a = END
           /\ m_tabActionReduce[s][a] \in RuleNr =>
                  /\ m_tabActionReduce[s][a] # 0
                  /\ <<m_tabActionReduce[s][a], Len(Rhs(m_tabActionReduce[s][a]))>> \in Items[s]

ASSUME InputsAssumption == Inputs \subseteq Seq(Terminal) \ {<<>>}

\* A node of the syntax tree stands for the tokens from .. to - 1; a token is
\* a node no rule built.
NoRule == -1
Node == [sym : Terminal \cup NonTerminal, rule : RuleNr \cup {NoRule}, from : Nat, to : Nat]

VARIABLES
    input,                  \* the token vector
    inputidx,               \* 1-based: the token read last, curtok
    states, symbols,        \* the two stacks, top last
    result                  \* "none" while the loop runs, then how it ended

vars == <<input, inputidx, states, symbols, result>>

curtok   == input[inputidx]
topstate == states[Len(states)]
newstate == m_tabActionShift[topstate][curtok]
newrule  == m_tabActionReduce[topstate][curtok]

ParserInit ==
    /\ input \in Inputs
    /\ inputidx = 1
    /\ states = <<0>>
    /\ symbols = <<>>
    /\ result = "none"

-----------------------------------------------------------------------------
\* (mutant) an empty cell is not noticed
ThrowOnConflict ==
    /\ result = "none"
    /\ newstate # ERROR_VAL /\ newrule # ERROR_VAL
    /\ result' = "conflict"
    /\ UNCHANGED <<input, inputidx, states, symbols>>

\* The loop throws: no entry, or two.
Throw ==
    /\ result = "none"
    /\ (newstate = ERROR_VAL) = (newrule = ERROR_VAL)
    /\ result' = IF newstate = ERROR_VAL THEN "error" ELSE "conflict"
    /\ UNCHANGED <<input, inputidx, states, symbols>>

\* (mutant) the end of the input is taken for the end of a sentence
AcceptAtEnd ==
    /\ result = "none"
    /\ inputidx = Len(input)
    /\ result' = "accept"
    /\ UNCHANGED <<input, inputidx, states, symbols>>

Accept ==
    /\ result = "none"
    /\ newstate = ERROR_VAL /\ newrule = ACCEPT_VAL
    /\ result' = "accept"
    /\ UNCHANGED <<input, inputidx, states, symbols>>

\* (mutant) the node stack keeps its content
ShiftStateOnly ==
    /\ result = "none"
    /\ newstate # ERROR_VAL /\ newrule = ERROR_VAL
    /\ states' = Append(states, newstate)
    /\ IF inputidx = Len(input)
       THEN result' = "underflow" /\ UNCHANGED inputidx
       ELSE inputidx' = inputidx + 1 /\ UNCHANGED result
    /\ UNCHANGED <<input, symbols>>

\* (mutant) no token is read after the shift
ShiftKeepsToken ==
    /\ result = "none"
    /\ newstate # ERROR_VAL /\ newrule = ERROR_VAL
    /\ states' = Append(states, newstate)
    /\ symbols' = Append(symbols, [sym |-> curtok, rule |-> NoRule,
                                   from |-> inputidx, to |-> inputidx + 1])
    /\ UNCHANGED <<input, inputidx, result>>

\* The token and the next state are pushed, and the next token is read.
Shift ==
    /\ result = "none"
    /\ newstate # ERROR_VAL /\ newrule = ERROR_VAL
    /\ states' = Append(states, newstate)
    /\ symbols' = Append(symbols, [sym |-> curtok, rule |-> NoRule,
                                   from |-> inputidx, to |-> inputidx + 1])
    /\ IF inputidx = Len(input)
       THEN result' = "underflow" /\ UNCHANGED inputidx
       ELSE inputidx' = inputidx + 1 /\ UNCHANGED result
    /\ UNCHANGED input

\* (mutant) the popped nodes are not brought back into their order
ArgsReversed(n) == [i \in 1 .. n |-> symbols[Len(symbols) + 1 - i]]

\* The argument vector of a semantic rule: the topmost n nodes.
Args(n) == [i \in 1 .. n |-> symbols[Len(symbols) - n + i]]

\* The node a semantic rule makes of its arguments.
Reduced(r, args) ==
    [sym  |-> Rules[r].lhs,
     rule |-> r,
     from |-> IF args = <<>> THEN inputidx ELSE args[1].from,
     to   |-> IF args = <<>> THEN inputidx ELSE args[Len(args)].to]

\* (mutant) the jump leaves from the state that was on top before the reduction
JumpFromTop(s, n) == states[Len(states)]

\* The state uncovered by popping n states.
JumpFrom(s, n) == s[Len(s) - n]

Reduce ==
    /\ result = "none"
    /\ newstate = ERROR_VAL /\ newrule \in RuleNr
    /\ LET n         == m_numRhsSymsPerRule[newrule]
           node      == Reduced(newrule, Args(n))
           jumpstate == m_tabJump[JumpFrom(states, n)][node.sym]
       IN  IF n > Len(symbols) \/ jumpstate = ERROR_VAL
           THEN result' = "undefined" /\ UNCHANGED <<states, symbols>>
           ELSE /\ symbols' = Append(SubSeq(symbols, 1, Len(symbols) - n), node)
                /\ states' = Append(SubSeq(states, 1, Len(states) - n), jumpstate)
                /\ UNCHANGED result
    /\ UNCHANGED <<input, inputidx>>

\* Parse has returned or thrown.
Done == result # "none" /\ UNCHANGED vars

ParserNext == Throw \/ Accept \/ Shift \/ Reduce \/ Done

ParserSafeSpec == ParserInit /\ [][ParserNext]_vars
ParserSpec == ParserSafeSpec /\ WF_vars(ParserNext)

-----------------------------------------------------------------------------
(* Properties *)

\* Type invariant.
ParserTypeOK ==
    /\ input \in Inputs
    /\ inputidx \in 1 .. Len(input)
    /\ states \in Seq(State)
    /\ symbols \in Seq(Node)
    /\ result \in {"none", "accept", "error", "conflict", "underflow", "undefined"}

\* The state stack is the path of the automaton over the node stack, from the
\* first closure on.  Pops and pushes of the two stacks must match exactly.
StackIsPath ==
    /\ Len(states) = Len(symbols) + 1
    /\ states[1] = 0
    /\ \A i \in 1 .. Len(symbols) : Goto(states[i], symbols[i].sym) = states[i + 1]

\* Parse pops no empty stack, looks up no state that is not in the tables and
\* meets no cell with two entries.
NeverUndefined == result \notin {"undefined", "conflict"}

\* The nodes on the stack stand for the input read so far, in its order and
\* without a gap: no semantic rule gets its arguments in another order.
SpansInOrder ==
    LET read == IF result = "underflow" THEN inputidx + 1 ELSE inputidx
    IN  /\ \A i \in 1 .. Len(symbols) : symbols[i].from <= symbols[i].to
        /\ \A i \in 1 .. Len(symbols) - 1 : symbols[i].to = symbols[i + 1].from
        /\ symbols # <<>> => symbols[1].from = 1 /\ symbols[Len(symbols)].to = read
        /\ symbols = <<>> => read = 1

\* What Parse returns is the node of the start symbol's right-hand side, it
\* stands for everything in front of the end token, and nothing is left below
\* it on the stack.
AcceptedWhole ==
    result = "accept" =>
        /\ curtok = END
        /\ Len(symbols) = 1
        /\ symbols[1].sym = Rhs(0)[1]
        /\ symbols[1].from = 1 /\ symbols[1].to = inputidx

\* The sentential form: the node stack followed by the unread input.
Unread == IF result = "underflow" THEN 0 ELSE Len(input) - inputidx + 1
Form ==
    [i \in 1 .. Len(symbols) + Unread |->
        IF i <= Len(symbols) THEN symbols[i].sym
        ELSE input[inputidx + i - Len(symbols) - 1]]

\* Shifting leaves the form alone and every reduction is by a rule whose whole
\* right-hand side is on the stack.
D == INSTANCE Derivation WITH form <- Form
Derives == D!DerivationSpec

\* Parsing ends, for every input, valid or not.
Terminates == <>(result # "none")
=============================================================================
