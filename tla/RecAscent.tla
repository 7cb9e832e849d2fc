------------------------------ MODULE RecAscent ------------------------------
(***************************************************************************)
(* The recursive-ascent parser that ParserGen::CreateParser writes: one C++ *)
(* function per closure, so that the state stack of the parser is the call  *)
(* stack of the program.  A reduction cannot pop call frames: it sets       *)
(* m_dist_to_jump, and the functions return until the count is used up; the *)
(* loop of the function then reached calls the closure of the jump.         *)
(*                                                                         *)
(* The tables are those LRParser is given, and Parse is shown to do what    *)
(* LRParser does with them.                                                *)
(***************************************************************************)
EXTENDS Integers, Sequences

CONSTANTS
    Terminal, NonTerminal, END, RuleNr, Rules, State, Items,
    m_tabActionShift, m_tabActionReduce, m_tabJump, m_numRhsSymsPerRule,
    ERROR_VAL, ACCEPT_VAL, Inputs,      \* as in LRParser
    Leftover                \* what an earlier call of Parse may leave in the members

\* What the generated functions rely on: the tables have no cell with two entries,
\* and the token vectors end with the end token, which is never shifted.
ASSUME GeneratedAssumption ==
    /\ Terminal \cap NonTerminal = {} /\ END \in Terminal
    /\ State \subseteq Nat /\ 0 \in State
    /\ RuleNr \subseteq Nat
    /\ Rules \in [RuleNr -> [lhs : NonTerminal, rhs : Seq(Terminal \cup NonTerminal)]]
    /\ ERROR_VAL \notin State \cup RuleNr /\ ACCEPT_VAL \notin State \cup RuleNr
    /\ ERROR_VAL # ACCEPT_VAL
    /\ m_tabActionShift \in [State -> [Terminal -> State \cup {ERROR_VAL}]]
    /\ m_tabActionReduce \in [State -> [Terminal -> RuleNr \cup {ERROR_VAL, ACCEPT_VAL}]]
    /\ m_tabJump \in [State -> [NonTerminal -> State \cup {ERROR_VAL}]]
    /\ m_numRhsSymsPerRule \in [RuleNr -> Nat]
    /\ \A s \in State, a \in Terminal :
           m_tabActionShift[s][a] = ERROR_VAL \/ m_tabActionReduce[s][a] = ERROR_VAL
    /\ \A s \in State : m_tabActionShift[s][END] = ERROR_VAL
    /\ \A w \in Inputs : w \in Seq(Terminal) /\ w # <<>> /\ w[Len(w)] = END

\* Where the automaton goes from state s with symbol X.
Goto(s, X) == IF X \in Terminal THEN m_tabActionShift[s][X] ELSE m_tabJump[s][X]

\* Nothing leads back to closure 0, and the closures that accept come directly
\* behind it: they have the start rule with its cursor behind the only symbol.
ASSUME AcceptAssumption ==
    /\ \A a \in Terminal : m_tabActionReduce[0][a] # ACCEPT_VAL
    /\ \A s \in State, X \in Terminal \cup NonTerminal :
           Goto(s, X) # ERROR_VAL =>
               /\ Goto(s, X) # 0
               /\ \A a \in Terminal : m_tabActionReduce[Goto(s, X)][a] = ACCEPT_VAL => s = 0

VARIABLES
    input,                  \* *m_input, the token vector
    m_lookahead_idx,        \* 1-based
    calls,                  \* the active closure functions, the running one last
    m_symbols, m_dist_to_jump, m_accepted,
    stopped                 \* history: the parser when a function accepted or found
                            \* no branch for the look-ahead; <<>> before that

vars == <<input, m_lookahead_idx, calls, m_symbols, m_dist_to_jump, m_accepted, stopped>>

\* A function has its if-branches in front of it ("act") or is in its loop ("jump").
Frame == [closure : State, pc : {"act", "jump"}]

closure       == calls[Len(calls)].closure
Running(pc)   == calls # <<>> /\ calls[Len(calls)].pc = pc
m_lookahead   == input[m_lookahead_idx]
newclosure    == m_tabActionShift[closure][m_lookahead]
newrule       == m_tabActionReduce[closure][m_lookahead]
topsym        == m_symbols[Len(m_symbols)].sym
JumpOf(c, N)  == m_tabJump[c][N]

\* Parse has not been called yet.
Idle == calls = <<>> /\ stopped = <<>>

\* The function that will perform the jump of the last reduction.
Landing == Len(calls) - m_dist_to_jump

\* The state stack: the closures of the call stack.  Between a reduction and its
\* jump the functions still to return do not count, and the jump does.
StateStack ==
    IF Running("jump")
    THEN Append([i \in 1 .. Landing |-> calls[i].closure],
                JumpOf(calls[Landing].closure, topsym))
    ELSE [i \in 1 .. Len(calls) |-> calls[i].closure]

\* Where the parser of the tables is; history keeps its end while this one unwinds.
Mapped ==
    IF stopped # <<>> THEN stopped
    ELSE IF Idle THEN [inputidx |-> 1, states |-> <<0>>, symbols |-> <<>>, result |-> "none"]
    ELSE [inputidx |-> m_lookahead_idx, states |-> StateStack,
          symbols |-> m_symbols, result |-> "none"]

P == INSTANCE LRParser WITH inputidx <- Mapped.inputidx, states <- Mapped.states,
                            symbols <- Mapped.symbols, result <- Mapped.result

Stop(how) == stopped' = IF stopped = <<>> THEN [Mapped EXCEPT !.result = how] ELSE stopped

RecAscInit ==
    /\ input \in Inputs
    /\ m_lookahead_idx = 0
    /\ calls = <<>>
    /\ \E old \in Leftover :
           /\ m_symbols = old.m_symbols
           /\ m_dist_to_jump = old.m_dist_to_jump
           /\ m_accepted = old.m_accepted
    /\ stopped = <<>>

-----------------------------------------------------------------------------
\* (mutant) the members keep what an earlier call has left
ParseAgain ==
    /\ Idle
    /\ m_lookahead_idx' = 1
    /\ calls' = <<[closure |-> 0, pc |-> "act"]>>
    /\ UNCHANGED <<input, m_symbols, m_dist_to_jump, m_accepted, stopped>>

\* Parse resets the members, reads the first token and calls closure_0.
Parse ==
    /\ Idle
    /\ m_lookahead_idx' = 1
    /\ calls' = <<[closure |-> 0, pc |-> "act"]>>
    /\ m_symbols' = <<>>
    /\ m_dist_to_jump' = 0
    /\ m_accepted' = FALSE
    /\ UNCHANGED <<input, stopped>>

\* The running function leaves its if-branches for its loop.
InLoop == [calls EXCEPT ![Len(calls)].pc = "jump"]

\* (mutant) the next token is read before the current one is pushed
ShiftReadsFirst ==
    /\ Running("act")
    /\ newclosure # ERROR_VAL
    /\ m_symbols' = Append(m_symbols, [sym |-> input[m_lookahead_idx + 1], rule |-> P!NoRule,
                                       from |-> m_lookahead_idx + 1, to |-> m_lookahead_idx + 2])
    /\ m_lookahead_idx' = m_lookahead_idx + 1
    /\ calls' = Append(InLoop, [closure |-> newclosure, pc |-> "act"])
    /\ UNCHANGED <<input, m_dist_to_jump, m_accepted, stopped>>

\* The token and its closure.
Shift ==
    /\ Running("act")
    /\ newclosure # ERROR_VAL
    /\ m_symbols' = Append(m_symbols, [sym |-> m_lookahead, rule |-> P!NoRule,
                                       from |-> m_lookahead_idx, to |-> m_lookahead_idx + 1])
    /\ m_lookahead_idx' = m_lookahead_idx + 1
    /\ calls' = Append(InLoop, [closure |-> newclosure, pc |-> "act"])
    /\ UNCHANGED <<input, m_dist_to_jump, m_accepted, stopped>>

Accept ==
    /\ Running("act")
    /\ newclosure = ERROR_VAL /\ newrule = ACCEPT_VAL
    /\ m_accepted' = TRUE
    /\ calls' = InLoop
    /\ Stop("accept")
    /\ UNCHANGED <<input, m_lookahead_idx, m_symbols, m_dist_to_jump>>

\* The tables have a jump for the reduction and the stack has its arguments.
CanReduce(n, N) ==
    /\ n <= Len(m_symbols)
    /\ n < Len(calls)
    /\ JumpOf(calls[Len(calls) - n].closure, N) # ERROR_VAL

\* The distance is set before the arguments are taken: a stack that has too few
\* of them is not noticed (undefined behaviour; recorded and not followed).
Reduce ==
    /\ Running("act")
    /\ newclosure = ERROR_VAL /\ newrule \in RuleNr
    /\ LET n    == m_numRhsSymsPerRule[newrule]
           node == P!Reduced(newrule, [i \in 1 .. n |-> m_symbols[Len(m_symbols) - n + i]])
       IN  IF CanReduce(n, Rules[newrule].lhs)
           THEN /\ m_symbols' = Append(SubSeq(m_symbols, 1, Len(m_symbols) - n), node)
                /\ m_dist_to_jump' = n
                /\ calls' = InLoop
                /\ UNCHANGED stopped
           ELSE /\ Stop("undefined")
                /\ calls' = <<>>
                /\ UNCHANGED <<m_symbols, m_dist_to_jump>>
    /\ UNCHANGED <<input, m_lookahead_idx, m_accepted>>

\* None of the branches is for this look-ahead.
NoBranch ==
    /\ Running("act")
    /\ newclosure = ERROR_VAL /\ newrule = ERROR_VAL
    /\ calls' = InLoop
    /\ Stop("error")
    /\ UNCHANGED <<input, m_lookahead_idx, m_symbols, m_dist_to_jump, m_accepted>>

-----------------------------------------------------------------------------
\* The loop is only written for closures that have jumps.
HasLoop == \E N \in NonTerminal : JumpOf(closure, N) # ERROR_VAL

\* (mutant) accepting does not end the loop
LoopsWhenAccepted ==
    /\ HasLoop
    /\ m_dist_to_jump = 0 /\ m_symbols # <<>>
    /\ topsym \in NonTerminal

\* The condition of the loop, and no terminal on top.
Looping ==
    /\ HasLoop
    /\ m_dist_to_jump = 0 /\ m_symbols # <<>> /\ ~m_accepted
    /\ topsym \in NonTerminal

\* The branch for the symbol on top.  Without one the loop goes round for ever.
CallJump ==
    /\ Running("jump") /\ Looping
    /\ JumpOf(closure, topsym) # ERROR_VAL
    /\ calls' = Append(calls, [closure |-> JumpOf(closure, topsym), pc |-> "act"])
    /\ UNCHANGED <<input, m_lookahead_idx, m_symbols, m_dist_to_jump, m_accepted, stopped>>

\* The end of a closure function.
Return ==
    /\ Running("jump") /\ ~Looping
    /\ calls' = SubSeq(calls, 1, Len(calls) - 1)
    /\ m_dist_to_jump' = IF m_dist_to_jump > 0 THEN m_dist_to_jump - 1 ELSE 0
    /\ UNCHANGED <<input, m_lookahead_idx, m_symbols, m_accepted, stopped>>

\* Parse has returned, or a loop has no branch for the symbol on top.
Rest ==
    /\ \/ calls = <<>> /\ stopped # <<>>
       \/ Running("jump") /\ Looping /\ JumpOf(closure, topsym) = ERROR_VAL
    /\ UNCHANGED vars

RecAscNext ==
    \/ Parse \/ Shift \/ Accept \/ Reduce \/ NoBranch
    \/ CallJump \/ Return \/ Rest

RecAscSafeSpec == RecAscInit /\ [][RecAscNext]_vars
RecAscSpec == RecAscSafeSpec /\ WF_vars(RecAscNext)

-----------------------------------------------------------------------------
(* Properties *)

\* The generated functions shift, reduce, accept and give up exactly as the
\* table-driven parser does, for sentences and for erroneous input, whatever an
\* earlier call has left in the members; and they do get to that point.
Implements == P!ParserSpec

Returned == calls = <<>> /\ stopped # <<>>

\* While the functions return behind an accepted input, Parse's answer stands: the
\* tree of the table-driven parser.
AcceptanceStands ==
    stopped # <<>> /\ stopped.result = "accept" =>
        m_accepted /\ m_symbols = stopped.symbols /\ m_dist_to_jump = 0

\* And behind a rejected one, where functions may still call each other, none accepts.
AnswerStands ==
    /\ AcceptanceStands
    /\ stopped # <<>> /\ m_accepted => stopped.result = "accept"

\* Once the input is accepted, or rejected right behind a shift, no closure is
\* called any more and Parse returns.
UnwindingEnds ==
    (stopped # <<>> /\ (m_accepted \/ m_symbols = <<>> \/ topsym \in Terminal)) ~> Returned

\* Parse returns for every input, with the tree or with a null pointer
\* (parsergen.cpp:164).
ParseReturns == <>Returned
=============================================================================
