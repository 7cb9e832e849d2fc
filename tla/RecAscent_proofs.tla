-------------------------- MODULE RecAscent_proofs --------------------------
(***************************************************************************)
(* Proofs about the recursive-ascent parser: for every grammar, tables      *)
(* without conflicts and input, what the generated functions do up to their *)
(* answer is what the table-driven parser does, and nothing they do behind  *)
(* their answer changes it.                                                 *)
(***************************************************************************)
EXTENDS RecAscent, TLAPS

Node == P!Node

\* The state stack of a call stack.
ClosuresOf(cs) == [i \in 1 .. Len(cs) |-> cs[i].closure]

\* While a function runs its branches, each function on the stack below it has
\* put its symbol on the stack.
ActOK == m_dist_to_jump = 0 /\ Len(calls) = Len(m_symbols) + 1

\* Behind a reduction the function that will jump is as deep as the node it jumps over.
JumpOK ==
    /\ m_dist_to_jump \in Nat
    /\ Landing = Len(m_symbols) /\ Landing >= 1
    /\ topsym \in NonTerminal
    /\ JumpOf(calls[Landing].closure, topsym) # ERROR_VAL

Before ==
    /\ m_accepted = FALSE
    /\ m_symbols \in Seq(Node)
    /\ calls[Len(calls)].pc = "act" => ActOK
    /\ calls[Len(calls)].pc = "jump" => JumpOK

\* The inductive invariant.
RInv ==
    /\ input \in Inputs
    /\ calls \in Seq(Frame)
    /\ calls # <<>> => m_lookahead_idx \in 1 .. Len(input)
    /\ \A i \in 1 .. Len(calls) - 1 : calls[i].pc = "jump"
    /\ stopped = <<>> /\ calls # <<>> => Before
    /\ stopped # <<>> /\ stopped.result = "accept" =>
           /\ calls # <<>> => calls[Len(calls)].pc = "jump"
           /\ m_accepted /\ m_dist_to_jump = 0 /\ m_symbols = stopped.symbols

-----------------------------------------------------------------------------
(* Call stacks. *)

LEMMA ClosuresType ==
    ASSUME NEW cs \in Seq(Frame)
    PROVE  ClosuresOf(cs) \in Seq(State) /\ Len(ClosuresOf(cs)) = Len(cs) /\ Len(cs) \in Nat
           /\ \A i \in 1 .. Len(cs) : ClosuresOf(cs)[i] = cs[i].closure /\ cs[i] \in Frame
<1>1. Len(cs) \in Nat /\ \A i \in 1 .. Len(cs) : cs[i] \in Frame
  OBVIOUS
<1>2. \A i \in 1 .. Len(cs) : cs[i].closure \in State
  BY <1>1 DEF Frame
<1>. QED
  BY <1>1, <1>2 DEF ClosuresOf

\* Calling a function pushes its closure.
LEMMA ClosuresAppend ==
    ASSUME NEW cs \in Seq(Frame), NEW f \in Frame
    PROVE  ClosuresOf(Append(cs, f)) = Append(ClosuresOf(cs), f.closure)
<1>1. /\ Append(cs, f) \in Seq(Frame) /\ Len(Append(cs, f)) = Len(cs) + 1 /\ Len(cs) \in Nat
      /\ \A i \in 1 .. Len(cs) : Append(cs, f)[i] = cs[i]
      /\ Append(cs, f)[Len(cs) + 1] = f
  OBVIOUS
<1>2. f.closure \in State
  BY DEF Frame
<1> DEFINE a == ClosuresOf(Append(cs, f))
           b == Append(ClosuresOf(cs), f.closure)
<1>3. a \in Seq(State) /\ Len(a) = Len(cs) + 1 /\ \A i \in 1 .. Len(cs) + 1 : a[i] = Append(cs, f)[i].closure
  BY <1>1, ClosuresType
<1>4. b \in Seq(State) /\ Len(b) = Len(cs) + 1
      /\ (\A i \in 1 .. Len(cs) : b[i] = cs[i].closure) /\ b[Len(cs) + 1] = f.closure
  BY <1>2, ClosuresType
<1> HIDE DEF a, b
<1>5. \A i \in 1 .. Len(cs) + 1 : a[i] = b[i]
  BY <1>1, <1>3, <1>4
<1>6. a = b
  BY <1>1, <1>3, <1>4, <1>5
<1>. QED
  BY <1>6 DEF a, b

\* Entering its loop does not change which functions are active.
LEMMA InLoopType ==
    ASSUME calls \in Seq(Frame), calls # <<>>
    PROVE  /\ InLoop \in Seq(Frame) /\ Len(InLoop) = Len(calls) /\ InLoop # <<>>
           /\ \A i \in 1 .. Len(calls) : InLoop[i].closure = calls[i].closure
           /\ \A i \in 1 .. Len(calls) - 1 : InLoop[i] = calls[i]
           /\ InLoop[Len(calls)].pc = "jump"
           /\ ClosuresOf(InLoop) = ClosuresOf(calls)
<1>1. Len(calls) \in Nat \ {0} /\ calls[Len(calls)] \in Frame
  OBVIOUS
<1>2. [calls[Len(calls)] EXCEPT !.pc = "jump"] \in Frame
      /\ [calls[Len(calls)] EXCEPT !.pc = "jump"].closure = calls[Len(calls)].closure
      /\ [calls[Len(calls)] EXCEPT !.pc = "jump"].pc = "jump"
  BY <1>1 DEF Frame
<1>3. InLoop = [calls EXCEPT ![Len(calls)] = [calls[Len(calls)] EXCEPT !.pc = "jump"]]
  BY DEF InLoop
<1>4. /\ InLoop \in Seq(Frame) /\ Len(InLoop) = Len(calls) /\ InLoop # <<>>
      /\ InLoop[Len(calls)] = [calls[Len(calls)] EXCEPT !.pc = "jump"]
      /\ \A i \in 1 .. Len(calls) - 1 : InLoop[i] = calls[i]
  BY <1>1, <1>2, <1>3
<1>5. ASSUME NEW i \in 1 .. Len(calls)
      PROVE  InLoop[i].closure = calls[i].closure
  <2>1. i = Len(calls) \/ i \in 1 .. Len(calls) - 1
    BY <1>1
  <2>. QED
    BY <1>2, <1>4, <2>1
<1>6. ClosuresOf(InLoop) = ClosuresOf(calls)
  BY <1>4, <1>5 DEF ClosuresOf
<1>. QED
  BY <1>2, <1>4, <1>5, <1>6

-----------------------------------------------------------------------------
(* Where the parser of the tables is. *)

\* In its branches, a function is the top of the state stack, and the tables give
\* both parsers the same entries.
LEMMA ActFacts ==
    ASSUME RInv, Running("act")
    PROVE  /\ Len(calls) \in Nat \ {0} /\ closure \in State
           /\ m_lookahead_idx \in 1 .. Len(input) /\ m_lookahead \in Terminal
           /\ newclosure \in State \cup {ERROR_VAL}
           /\ newrule \in RuleNr \cup {ERROR_VAL, ACCEPT_VAL}
           /\ newclosure = ERROR_VAL \/ newrule = ERROR_VAL
           /\ newclosure # ERROR_VAL => m_lookahead_idx < Len(input)
<1>1. calls # <<>> /\ calls \in Seq(Frame) /\ m_lookahead_idx \in 1 .. Len(input)
  BY DEF RInv, Running
<1>2. Len(calls) \in Nat \ {0} /\ calls[Len(calls)] \in Frame
  BY <1>1
<1>3. closure \in State
  BY <1>2 DEF closure, Frame
<1>4. input \in Seq(Terminal) /\ input[Len(input)] = END
  BY GeneratedAssumption DEF RInv
<1>5. m_lookahead \in Terminal
  BY <1>1, <1>4 DEF m_lookahead
<1>6. /\ newclosure \in State \cup {ERROR_VAL}
      /\ newrule \in RuleNr \cup {ERROR_VAL, ACCEPT_VAL}
      /\ newclosure = ERROR_VAL \/ newrule = ERROR_VAL
  BY <1>3, <1>5, GeneratedAssumption DEF newclosure, newrule
<1>7. newclosure # ERROR_VAL => m_lookahead_idx < Len(input)
  <2>1. m_lookahead = END => newclosure = ERROR_VAL
    BY <1>3, GeneratedAssumption DEF newclosure
  <2>2. m_lookahead_idx = Len(input) => m_lookahead = END
    BY <1>4 DEF m_lookahead
  <2>. QED
    BY <1>1, <1>4, <2>1, <2>2
<1>. QED
  BY <1>1, <1>2, <1>3, <1>5, <1>6, <1>7

LEMMA ActMapped ==
    ASSUME RInv, Running("act"), stopped = <<>>
    PROVE  /\ Mapped = [inputidx |-> m_lookahead_idx, states |-> ClosuresOf(calls),
                        symbols |-> m_symbols, result |-> "none"]
           /\ P!topstate = closure /\ P!curtok = m_lookahead
           /\ P!newstate = newclosure /\ P!newrule = newrule
<1>1. calls # <<>> /\ ~ Running("jump") /\ ~ Idle
  BY DEF Running, Idle
<1>2. Mapped = [inputidx |-> m_lookahead_idx, states |-> ClosuresOf(calls),
                symbols |-> m_symbols, result |-> "none"]
  BY <1>1 DEF Mapped, StateStack, ClosuresOf
<1>3. /\ Mapped.inputidx = m_lookahead_idx /\ Mapped.states = ClosuresOf(calls)
      /\ Mapped.symbols = m_symbols /\ Mapped.result = "none"
  BY <1>2
<1>4. /\ Len(ClosuresOf(calls)) = Len(calls)
      /\ ClosuresOf(calls)[Len(calls)] = closure
  BY ActFacts, ClosuresType DEF RInv, closure
<1>5. P!topstate = closure /\ P!curtok = m_lookahead
  BY <1>3, <1>4 DEF P!topstate, P!curtok, m_lookahead
<1>. QED
  BY <1>2, <1>5 DEF P!newstate, P!newrule, newclosure, newrule

\* In its loop, it stands between a reduction and the jump.
LEMMA JumpMapped ==
    ASSUME RInv, Running("jump"), stopped = <<>>
    PROVE  /\ Mapped = [inputidx |-> m_lookahead_idx,
                        states   |-> Append([i \in 1 .. Landing |-> calls[i].closure],
                                            JumpOf(calls[Landing].closure, topsym)),
                        symbols  |-> m_symbols, result |-> "none"]
           /\ Before /\ JumpOK
           /\ Landing \in 1 .. Len(calls) /\ Len(calls) \in Nat \ {0}
<1>1. calls # <<>> /\ calls[Len(calls)].pc = "jump" /\ ~ Idle /\ calls \in Seq(Frame)
  BY DEF Running, Idle, RInv
<1>2. Before /\ JumpOK
  BY <1>1 DEF RInv, Before
<1>3. Mapped = [inputidx |-> m_lookahead_idx,
                states   |-> Append([i \in 1 .. Landing |-> calls[i].closure],
                                    JumpOf(calls[Landing].closure, topsym)),
                symbols  |-> m_symbols, result |-> "none"]
  BY <1>1 DEF Mapped, StateStack, Running
<1>4. Landing \in 1 .. Len(calls) /\ Len(calls) \in Nat \ {0}
  <2>1. Len(calls) \in Nat \ {0}
    BY <1>1
  <2>. QED
    BY <1>2, <2>1 DEF JumpOK, Landing
<1>. QED
  BY <1>2, <1>3, <1>4

-----------------------------------------------------------------------------
(* The invariant. *)

LEMMA RInvInit == ASSUME RecAscInit PROVE RInv
BY DEF RecAscInit, RInv

LEMMA ParseInv == ASSUME RInv, Parse PROVE RInv'
<1>1. /\ calls' = <<[closure |-> 0, pc |-> "act"]>> /\ stopped' = <<>> /\ stopped = <<>>
      /\ input' = input /\ m_lookahead_idx' = 1
      /\ m_symbols' = <<>> /\ m_dist_to_jump' = 0 /\ m_accepted' = FALSE
  BY DEF Parse, Idle
<1>2. [closure |-> 0, pc |-> "act"] \in Frame
  BY GeneratedAssumption DEF Frame
<1>3. calls' \in Seq(Frame) /\ Len(calls') = 1 /\ calls'[1].pc = "act"
  BY <1>1, <1>2
<1>4. 1 \in 1 .. Len(input)
  BY GeneratedAssumption DEF RInv
<1>5. ActOK' /\ m_symbols' \in Seq(Node)
  BY <1>1, <1>3 DEF ActOK
<1>6. Before'
  BY <1>1, <1>3, <1>5 DEF Before
<1>. QED
  BY <1>1, <1>3, <1>4, <1>6 DEF RInv

\* Calling a closure keeps the stack of calls in order.
LEMMA CallOK ==
    ASSUME NEW cs \in Seq(Frame), NEW f \in Frame,
           \A i \in 1 .. Len(cs) : cs[i].pc = "jump",
           NEW after, after = Append(cs, f)
    PROVE  /\ after \in Seq(Frame) /\ after # <<>> /\ Len(after) = Len(cs) + 1
           /\ after[Len(after)] = f
           /\ \A i \in 1 .. Len(after) - 1 : after[i] = cs[i] /\ after[i].pc = "jump"
<1>1. /\ after \in Seq(Frame) /\ Len(after) = Len(cs) + 1 /\ Len(cs) \in Nat
      /\ after[Len(cs) + 1] = f
      /\ \A i \in 1 .. Len(cs) : after[i] = cs[i]
  OBVIOUS
<1>2. after # <<>>
  BY <1>1
<1>3. \A i \in 1 .. Len(after) - 1 : after[i] = cs[i] /\ after[i].pc = "jump"
  BY <1>1
<1>. QED
  BY <1>1, <1>2, <1>3

LEMMA ShiftInv == ASSUME RInv, Shift PROVE RInv'
<1>1. /\ Running("act") /\ newclosure # ERROR_VAL
      /\ m_symbols' = Append(m_symbols, [sym |-> m_lookahead, rule |-> P!NoRule,
                                         from |-> m_lookahead_idx, to |-> m_lookahead_idx + 1])
      /\ m_lookahead_idx' = m_lookahead_idx + 1
      /\ calls' = Append(InLoop, [closure |-> newclosure, pc |-> "act"])
      /\ input' = input /\ m_dist_to_jump' = m_dist_to_jump
      /\ m_accepted' = m_accepted /\ stopped' = stopped
  BY DEF Shift
<1>2. calls # <<>> /\ calls \in Seq(Frame) /\ calls[Len(calls)].pc = "act"
      /\ \A i \in 1 .. Len(calls) - 1 : calls[i].pc = "jump"
  BY <1>1 DEF Running, RInv
<1>3. \A i \in 1 .. Len(InLoop) : InLoop[i].pc = "jump"
  <2> TAKE i \in 1 .. Len(InLoop)
  <2>1. Len(calls) \in Nat \ {0} /\ Len(InLoop) = Len(calls)
    BY <1>2, InLoopType
  <2>2. i = Len(calls) \/ i \in 1 .. Len(calls) - 1
    BY <2>1
  <2>. QED
    BY <1>2, <2>2, InLoopType
<1>4. [closure |-> newclosure, pc |-> "act"] \in Frame
  BY <1>1, ActFacts DEF Frame
<1>5. /\ calls' \in Seq(Frame) /\ calls' # <<>> /\ Len(calls') = Len(calls) + 1
      /\ calls'[Len(calls')].pc = "act"
      /\ \A i \in 1 .. Len(calls') - 1 : calls'[i].pc = "jump"
  <2>1. InLoop \in Seq(Frame) /\ Len(InLoop) = Len(calls)
    BY <1>2, InLoopType
  <2>2. /\ calls' \in Seq(Frame) /\ calls' # <<>> /\ Len(calls') = Len(InLoop) + 1
        /\ calls'[Len(calls')] = [closure |-> newclosure, pc |-> "act"]
        /\ \A i \in 1 .. Len(calls') - 1 : calls'[i].pc = "jump"
    <3> DEFINE f == [closure |-> newclosure, pc |-> "act"]
    <3>1. f \in Frame /\ calls' = Append(InLoop, f)
      BY <1>1, <1>4
    <3> HIDE DEF f
    <3>2. /\ calls' \in Seq(Frame) /\ calls' # <<>> /\ Len(calls') = Len(InLoop) + 1
          /\ calls'[Len(calls')] = f
          /\ \A i \in 1 .. Len(calls') - 1 : calls'[i] = InLoop[i] /\ calls'[i].pc = "jump"
      BY <1>3, <2>1, <3>1, CallOK
    <3>. QED
      BY <3>2 DEF f
  <2>. QED
    BY <2>1, <2>2
<1>6. m_lookahead_idx' \in 1 .. Len(input')
  <2>1. Len(input) \in Nat
    BY GeneratedAssumption DEF RInv
  <2>. QED
    BY <1>1, <2>1, ActFacts
<1>7. stopped' = <<>> => Before'
  <2> HAVE stopped' = <<>>
  <2>1. m_accepted = FALSE /\ m_symbols \in Seq(Node) /\ m_dist_to_jump = 0
        /\ Len(calls) = Len(m_symbols) + 1
    BY <1>1, <1>2 DEF RInv, Before, ActOK
  <2>2. [sym |-> m_lookahead, rule |-> P!NoRule, from |-> m_lookahead_idx,
         to |-> m_lookahead_idx + 1] \in Node
    <3>1. m_lookahead_idx \in Nat
      BY <1>1, ActFacts, GeneratedAssumption DEF RInv
    <3>. QED
      BY <1>1, <3>1, ActFacts DEF Node, P!Node
  <2>3. m_symbols' \in Seq(Node) /\ Len(m_symbols') = Len(m_symbols) + 1
        /\ Len(m_symbols) \in Nat
    BY <1>1, <2>1, <2>2
  <2>4. ActOK'
    BY <1>1, <1>5, <2>1, <2>3 DEF ActOK
  <2>. QED
    BY <1>1, <1>5, <2>1, <2>3, <2>4 DEF Before
<1>8. stopped # <<>> => stopped.result # "accept"
  BY <1>2 DEF RInv
<1>. QED
  BY <1>1, <1>5, <1>6, <1>7, <1>8 DEF RInv

\* A step from the branches into the loop.
LEMMA IntoLoop ==
    ASSUME RInv, Running("act"), calls' = InLoop
    PROVE  /\ calls \in Seq(Frame) /\ calls # <<>>
           /\ calls' \in Seq(Frame) /\ calls' # <<>> /\ Len(calls') = Len(calls)
           /\ calls'[Len(calls')].pc = "jump"
           /\ \A i \in 1 .. Len(calls') - 1 : calls'[i].pc = "jump"
           /\ stopped # <<>> => stopped.result # "accept"
<1>1. calls \in Seq(Frame) /\ calls # <<>> /\ calls[Len(calls)].pc = "act"
      /\ \A i \in 1 .. Len(calls) - 1 : calls[i].pc = "jump"
  BY DEF RInv, Running
<1>2. stopped # <<>> => stopped.result # "accept"
  BY <1>1 DEF RInv
<1>. QED
  BY <1>1, <1>2, InLoopType

\* An answer is recorded once.
LEMMA StopFacts ==
    ASSUME NEW how, Stop(how), RInv, Running("act")
    PROVE  /\ stopped' # <<>>
           /\ stopped = <<>> => stopped' = [inputidx |-> m_lookahead_idx,
                                            states |-> ClosuresOf(calls),
                                            symbols |-> m_symbols, result |-> how]
           /\ stopped # <<>> => stopped' = stopped
<1>1. CASE stopped = <<>>
  <2>1. stopped' = [Mapped EXCEPT !.result = how]
    BY <1>1 DEF Stop
  <2>2. stopped' = [inputidx |-> m_lookahead_idx, states |-> ClosuresOf(calls),
                    symbols |-> m_symbols, result |-> how]
    BY <1>1, <2>1, ActMapped
  <2>3. DOMAIN stopped' # DOMAIN <<>>
    <3>1. "result" \in DOMAIN stopped'
      BY <2>2
    <3>2. DOMAIN <<>> = {}
      BY SMT
    <3>. QED
      BY <3>1, <3>2
  <2>. QED
    BY <1>1, <2>2, <2>3
<1>2. CASE stopped # <<>>
  BY <1>2 DEF Stop
<1>. QED
  BY <1>1, <1>2

LEMMA AcceptInv == ASSUME RInv, Accept PROVE RInv'
<1>1. /\ Running("act") /\ calls' = InLoop /\ Stop("accept") /\ m_accepted' = TRUE
      /\ input' = input /\ m_lookahead_idx' = m_lookahead_idx
      /\ m_symbols' = m_symbols /\ m_dist_to_jump' = m_dist_to_jump
  BY DEF Accept
<1>2. /\ calls # <<>> /\ calls' \in Seq(Frame) /\ calls' # <<>>
      /\ calls'[Len(calls')].pc = "jump"
      /\ \A i \in 1 .. Len(calls') - 1 : calls'[i].pc = "jump"
  BY <1>1, IntoLoop
<1>3. stopped' # <<>>
  BY <1>1, StopFacts
<1>4. stopped'.result = "accept" => m_dist_to_jump = 0 /\ m_symbols = stopped'.symbols
  <2>1. CASE stopped = <<>>
    <3>1. m_dist_to_jump = 0
      BY <1>1, <1>2, <2>1 DEF RInv, Before, ActOK, Running
    <3>. QED
      BY <1>1, <2>1, <3>1, StopFacts
  <2>2. CASE stopped # <<>>
    BY <1>1, <2>2, StopFacts, IntoLoop
  <2>. QED
    BY <2>1, <2>2
<1>. QED
  BY <1>1, <1>2, <1>3, <1>4 DEF RInv

LEMMA NoBranchInv == ASSUME RInv, NoBranch PROVE RInv'
<1>1. /\ Running("act") /\ calls' = InLoop /\ Stop("error")
      /\ input' = input /\ m_lookahead_idx' = m_lookahead_idx
  BY DEF NoBranch
<1>2. /\ calls # <<>> /\ calls' \in Seq(Frame) /\ calls' # <<>>
      /\ \A i \in 1 .. Len(calls') - 1 : calls'[i].pc = "jump"
  BY <1>1, IntoLoop
<1>3. stopped' # <<>> /\ stopped'.result # "accept"
  <2>1. CASE stopped = <<>>
    BY <1>1, <2>1, StopFacts
  <2>2. CASE stopped # <<>>
    BY <1>1, <2>2, StopFacts, IntoLoop
  <2>. QED
    BY <2>1, <2>2
<1>. QED
  BY <1>1, <1>2, <1>3 DEF RInv

\* The node of a reduction.
LEMMA ReducedType ==
    ASSUME NEW idx \in Nat, idx = Mapped.inputidx, NEW r \in RuleNr, NEW n \in Nat,
           m_symbols \in Seq(Node), n <= Len(m_symbols)
    PROVE  LET node == P!Reduced(r, [i \in 1 .. n |-> m_symbols[Len(m_symbols) - n + i]])
           IN  node \in Node /\ node.sym = Rules[r].lhs /\ node.sym \in NonTerminal
<1> DEFINE args == [i \in 1 .. n |-> m_symbols[Len(m_symbols) - n + i]]
<1>1. Rules[r].lhs \in NonTerminal
  BY GeneratedAssumption
<1>2. args \in Seq(Node) /\ Len(args) = n
  <2>1. \A i \in 1 .. n : m_symbols[Len(m_symbols) - n + i] \in Node
    <3>1. Len(m_symbols) \in Nat
      OBVIOUS
    <3> TAKE i \in 1 .. n
    <3>2. Len(m_symbols) - n + i \in 1 .. Len(m_symbols)
      BY <3>1
    <3>. QED
      BY <3>2
  <2>. QED
    BY <2>1
<1>3. args # <<>> => args[1].from \in Nat /\ args[Len(args)].to \in Nat
  <2> HAVE args # <<>>
  <2>1. args[1] \in Node /\ args[Len(args)] \in Node
    <3> HIDE DEF args
    <3>. QED
      BY <1>2
  <2>. QED
    BY <2>1 DEF Node, P!Node
<1>4. P!Reduced(r, args) = [sym |-> Rules[r].lhs, rule |-> r,
                            from |-> IF args = <<>> THEN idx ELSE args[1].from,
                            to |-> IF args = <<>> THEN idx ELSE args[Len(args)].to]
  BY DEF P!Reduced
<1> HIDE DEF args
<1>5. P!Reduced(r, args) \in Node
  BY <1>1, <1>3, <1>4 DEF Node, P!Node
<1>. QED
  BY <1>1, <1>4, <1>5 DEF args

\* Before the answer, a reduction by n symbols leaves n functions to return, and
\* the function below them has the jump.
LEMMA ReduceInv == ASSUME RInv, Reduce PROVE RInv'
<1> DEFINE n    == m_numRhsSymsPerRule[newrule]
           node == P!Reduced(newrule, [i \in 1 .. n |-> m_symbols[Len(m_symbols) - n + i]])
<1>1. /\ Running("act") /\ newclosure = ERROR_VAL /\ newrule \in RuleNr
      /\ input' = input /\ m_lookahead_idx' = m_lookahead_idx /\ m_accepted' = m_accepted
      /\ \/ /\ CanReduce(n, Rules[newrule].lhs)
            /\ m_symbols' = Append(SubSeq(m_symbols, 1, Len(m_symbols) - n), node)
            /\ m_dist_to_jump' = n /\ calls' = InLoop /\ stopped' = stopped
         \/ Stop("undefined") /\ calls' = <<>>
  BY DEF Reduce
<1>2. n \in Nat
  BY <1>1, GeneratedAssumption
<1>3. CASE Stop("undefined") /\ calls' = <<>>
  <2>1. stopped' # <<>> /\ stopped'.result # "accept"
    <3>1. stopped # <<>> => stopped.result # "accept"
      BY <1>1 DEF RInv, Running
    <3>2. CASE stopped = <<>>
      BY <1>1, <1>3, <3>2, StopFacts
    <3>3. CASE stopped # <<>>
      BY <1>1, <1>3, <3>1, <3>3, StopFacts
    <3>. QED
      BY <3>2, <3>3
  <2>2. calls' \in Seq(Frame) /\ \A i \in 1 .. Len(calls') - 1 : calls'[i].pc = "jump"
    BY <1>3
  <2>. QED
    BY <1>1, <1>3, <2>1, <2>2 DEF RInv
<1>4. CASE /\ CanReduce(n, Rules[newrule].lhs)
           /\ m_symbols' = Append(SubSeq(m_symbols, 1, Len(m_symbols) - n), node)
           /\ m_dist_to_jump' = n /\ calls' = InLoop /\ stopped' = stopped
  <2>1. /\ calls \in Seq(Frame) /\ calls # <<>>
        /\ calls' \in Seq(Frame) /\ calls' # <<>> /\ Len(calls') = Len(calls)
        /\ calls'[Len(calls')].pc = "jump"
        /\ \A i \in 1 .. Len(calls') - 1 : calls'[i].pc = "jump"
        /\ stopped # <<>> => stopped.result # "accept"
    BY <1>1, <1>4, IntoLoop
  <2>2. stopped' = <<>> => Before'
    <3> HAVE stopped' = <<>>
    <3>1. m_accepted = FALSE /\ m_symbols \in Seq(Node) /\ Len(calls) = Len(m_symbols) + 1
      BY <1>1, <1>4, <2>1 DEF RInv, Before, ActOK, Running
    <3>2. n <= Len(m_symbols) /\ JumpOf(calls[Len(calls) - n].closure, Rules[newrule].lhs) # ERROR_VAL
      BY <1>4 DEF CanReduce
    <3>3. node \in Node /\ node.sym = Rules[newrule].lhs /\ node.sym \in NonTerminal
      <4>1. Mapped.inputidx = m_lookahead_idx /\ m_lookahead_idx \in Nat
        <5>1. Mapped.inputidx = m_lookahead_idx
          BY <1>1, <1>4, ActMapped
        <5>2. m_lookahead_idx \in Nat
          BY <1>1, ActFacts, GeneratedAssumption DEF RInv
        <5>. QED
          BY <5>1, <5>2
      <4> HIDE DEF n
      <4>. QED
        BY <1>1, <1>2, <3>1, <3>2, <4>1, ReducedType
    <3> HIDE DEF node, n
    <3>4. /\ m_symbols' \in Seq(Node) /\ Len(m_symbols') = Len(m_symbols) - n + 1
          /\ m_symbols'[Len(m_symbols')] = node /\ Len(m_symbols) \in Nat
      BY <1>2, <1>4, <3>1, <3>2, <3>3
    <3>5. topsym' = Rules[newrule].lhs /\ topsym' \in NonTerminal
      BY <3>3, <3>4 DEF topsym
    <3>6. Landing' = Len(calls) - n /\ Landing' \in 1 .. Len(calls)
      BY <1>2, <1>4, <2>1, <3>1, <3>2, <3>4 DEF Landing
    <3>7. calls'[Landing'].closure = calls[Len(calls) - n].closure
      BY <1>4, <2>1, <3>6, InLoopType
    <3>8. JumpOK'
      <4>1. JumpOf(calls'[Landing'].closure, topsym') # ERROR_VAL
        BY <3>2, <3>5, <3>7
      <4>2. m_dist_to_jump' \in Nat /\ Landing' = Len(m_symbols') /\ Landing' >= 1
        BY <1>2, <1>4, <3>1, <3>4, <3>6
      <4>. QED
        BY <3>5, <4>1, <4>2 DEF JumpOK, JumpOf
    <3>. QED
      BY <1>1, <2>1, <3>1, <3>4, <3>8 DEF Before
  <2>. QED
    BY <1>1, <1>4, <2>1, <2>2 DEF RInv
<1>. QED
  BY <1>1, <1>3, <1>4

LEMMA CallJumpInv == ASSUME RInv, CallJump PROVE RInv'
<1>1. /\ Running("jump") /\ Looping /\ JumpOf(closure, topsym) # ERROR_VAL
      /\ calls' = Append(calls, [closure |-> JumpOf(closure, topsym), pc |-> "act"])
      /\ input' = input /\ m_lookahead_idx' = m_lookahead_idx /\ m_symbols' = m_symbols
      /\ m_dist_to_jump' = m_dist_to_jump /\ m_accepted' = m_accepted /\ stopped' = stopped
  BY DEF CallJump
<1>2. /\ calls \in Seq(Frame) /\ calls # <<>> /\ Len(calls) \in Nat \ {0}
      /\ \A i \in 1 .. Len(calls) : calls[i].pc = "jump"
  <2>1. /\ calls \in Seq(Frame) /\ calls # <<>> /\ calls[Len(calls)].pc = "jump"
        /\ \A i \in 1 .. Len(calls) - 1 : calls[i].pc = "jump"
    BY <1>1 DEF RInv, Running
  <2>2. Len(calls) \in Nat \ {0}
    BY <2>1
  <2>3. \A i \in 1 .. Len(calls) : i = Len(calls) \/ i \in 1 .. Len(calls) - 1
    BY <2>2
  <2>. QED
    BY <2>1, <2>2, <2>3
<1> DEFINE f == [closure |-> JumpOf(closure, topsym), pc |-> "act"]
<1>3. f \in Frame /\ f.pc = "act"
  <2>1. closure \in State
    <3>1. calls[Len(calls)] \in Frame
      BY <1>2
    <3>. QED
      BY <3>1 DEF closure, Frame
  <2>2. topsym \in NonTerminal
    BY <1>1 DEF Looping
  <2>3. JumpOf(closure, topsym) \in State
    BY <1>1, <2>1, <2>2, GeneratedAssumption DEF JumpOf
  <2>. QED
    BY <2>3 DEF Frame
<1>4. calls' = Append(calls, f)
  BY <1>1
<1> HIDE DEF f
<1>5. /\ calls' \in Seq(Frame) /\ calls' # <<>> /\ Len(calls') = Len(calls) + 1
      /\ calls'[Len(calls')] = f
      /\ \A i \in 1 .. Len(calls') - 1 : calls'[i].pc = "jump"
  BY <1>2, <1>3, <1>4, CallOK
<1>6. stopped' = <<>> => Before'
  <2> HAVE stopped' = <<>>
  <2>1. Before /\ JumpOK /\ m_dist_to_jump = 0
    BY <1>1, JumpMapped DEF Looping
  <2>2. ActOK'
    BY <1>1, <1>2, <1>5, <2>1 DEF ActOK, JumpOK, Landing
  <2>. QED
    BY <1>1, <1>3, <1>5, <2>1, <2>2 DEF Before
<1>7. stopped # <<>> => stopped.result # "accept"
  BY <1>1 DEF RInv, Looping
<1>. QED
  BY <1>1, <1>2, <1>5, <1>6, <1>7 DEF RInv

\* The end of a function takes it off the stack of calls.
LEMMA PopCall ==
    ASSUME NEW cs \in Seq(Frame), cs # <<>>, NEW after, after = SubSeq(cs, 1, Len(cs) - 1)
    PROVE  /\ after \in Seq(Frame) /\ Len(after) = Len(cs) - 1 /\ Len(cs) \in Nat \ {0}
           /\ \A i \in 1 .. Len(cs) - 1 : after[i] = cs[i]
<1>1. Len(cs) \in Nat \ {0}
  OBVIOUS
<1>2. PICK n \in Nat : Len(cs) = n + 1
  <2>1. Len(cs) - 1 \in Nat /\ Len(cs) = (Len(cs) - 1) + 1
    BY <1>1
  <2>. QED
    BY <2>1
<1>3. after = SubSeq(cs, 1, n) /\ \A i \in 1 .. n : cs[i] \in Frame
  BY <1>2
<1>4. after \in Seq(Frame) /\ Len(after) = n
  BY <1>2, <1>3
<1>5. \A i \in 1 .. n : after[i] = cs[i]
  BY <1>2, <1>3
<1>. QED
  BY <1>1, <1>2, <1>4, <1>5

\* The end of a function before the answer: there are still functions to return,
\* since the one that has the jump would call it.
LEMMA ReturnCounts ==
    ASSUME RInv, Return, stopped = <<>>
    PROVE  /\ m_dist_to_jump \in Nat \ {0} /\ m_dist_to_jump' = m_dist_to_jump - 1
           /\ Landing' = Landing /\ Landing \in 1 .. Len(calls) - 1
           /\ calls' \in Seq(Frame) /\ calls' # <<>> /\ Len(calls') = Len(calls) - 1
           /\ \A i \in 1 .. Len(calls) - 1 : calls'[i] = calls[i]
           /\ calls'[Len(calls')].pc = "jump"
<1>1. /\ Running("jump") /\ ~ Looping /\ calls' = SubSeq(calls, 1, Len(calls) - 1)
      /\ m_dist_to_jump' = IF m_dist_to_jump > 0 THEN m_dist_to_jump - 1 ELSE 0
  BY DEF Return
<1>2. /\ Before /\ JumpOK /\ Landing \in 1 .. Len(calls) /\ Len(calls) \in Nat \ {0}
      /\ calls \in Seq(Frame) /\ calls # <<>>
      /\ \A i \in 1 .. Len(calls) - 1 : calls[i].pc = "jump"
  BY <1>1, JumpMapped DEF RInv, Running
<1>3. m_dist_to_jump # 0
  <2> SUFFICES ASSUME m_dist_to_jump = 0 PROVE FALSE
    OBVIOUS
  <2>1. Landing = Len(calls) /\ JumpOf(closure, topsym) # ERROR_VAL
    BY <1>2 DEF Landing, JumpOK, closure
  <2>2. topsym \in NonTerminal /\ m_symbols # <<>> /\ ~ m_accepted
    BY <1>2 DEF JumpOK, Before
  <2>3. HasLoop
    BY <2>1, <2>2 DEF HasLoop
  <2>. QED
    BY <1>1, <2>2, <2>3 DEF Looping
<1>4. m_dist_to_jump \in Nat \ {0} /\ m_dist_to_jump' = m_dist_to_jump - 1
  BY <1>1, <1>2, <1>3 DEF JumpOK
<1>5. /\ calls' \in Seq(Frame) /\ Len(calls') = Len(calls) - 1
      /\ \A i \in 1 .. Len(calls) - 1 : calls'[i] = calls[i]
  BY <1>1, <1>2, PopCall
<1>6. Landing' = Landing /\ Landing \in 1 .. Len(calls) - 1
  BY <1>2, <1>4, <1>5 DEF Landing
<1>7. calls' # <<>> /\ calls'[Len(calls')].pc = "jump"
  <2>1. Len(calls) - 1 \in 1 .. Len(calls) - 1
    BY <1>2, <1>6
  <2>. QED
    BY <1>2, <1>5, <2>1
<1>. QED
  BY <1>4, <1>5, <1>6, <1>7

LEMMA ReturnInv == ASSUME RInv, Return PROVE RInv'
<1>1. /\ Running("jump") /\ calls' = SubSeq(calls, 1, Len(calls) - 1)
      /\ m_dist_to_jump' = IF m_dist_to_jump > 0 THEN m_dist_to_jump - 1 ELSE 0
      /\ input' = input /\ m_lookahead_idx' = m_lookahead_idx /\ m_symbols' = m_symbols
      /\ m_accepted' = m_accepted /\ stopped' = stopped
  BY DEF Return
<1>2. /\ calls \in Seq(Frame) /\ calls # <<>> /\ m_lookahead_idx \in 1 .. Len(input)
      /\ \A i \in 1 .. Len(calls) - 1 : calls[i].pc = "jump"
  BY <1>1 DEF RInv, Running
<1>3. /\ calls' \in Seq(Frame) /\ Len(calls') = Len(calls) - 1 /\ Len(calls) \in Nat \ {0}
      /\ \A i \in 1 .. Len(calls) - 1 : calls'[i] = calls[i]
  BY <1>1, <1>2, PopCall
<1>4. /\ \A i \in 1 .. Len(calls') - 1 : calls'[i].pc = "jump"
      /\ calls' # <<>> => calls'[Len(calls')].pc = "jump"
  <2>1. calls' # <<>> => Len(calls') \in 1 .. Len(calls) - 1
    BY <1>3
  <2>. QED
    BY <1>2, <1>3, <2>1
<1>5. stopped' = <<>> => Before'
  <2> HAVE stopped' = <<>>
  <2>1. Before /\ JumpOK
    BY <1>1, JumpMapped
  <2>2. /\ m_dist_to_jump' \in Nat /\ Landing' = Landing
        /\ calls'[Landing'] = calls[Landing] /\ calls'[Len(calls')].pc = "jump"
    BY <1>1, ReturnCounts
  <2>3. topsym' = topsym
    BY <1>1 DEF topsym
  <2>4. JumpOK'
    BY <1>1, <2>1, <2>2, <2>3 DEF JumpOK, JumpOf
  <2>. QED
    BY <1>1, <2>1, <2>2, <2>4 DEF Before
<1>6. stopped # <<>> /\ stopped.result = "accept" => m_dist_to_jump' = 0
  BY <1>1 DEF RInv
<1>. QED
  BY <1>1, <1>2, <1>3, <1>4, <1>5, <1>6 DEF RInv

LEMMA StutterInv == ASSUME RInv, UNCHANGED vars PROVE RInv'
BY DEF RInv, vars, Before, ActOK, JumpOK, Landing, topsym, JumpOf

LEMMA RInvNext == ASSUME RInv, [RecAscNext]_vars PROVE RInv'
<1>1. Rest => UNCHANGED vars
  BY DEF Rest
<1>. QED
  BY <1>1, ParseInv, ShiftInv, AcceptInv, ReduceInv, NoBranchInv, CallJumpInv, ReturnInv,
     StutterInv DEF RecAscNext

LEMMA RInvAlways == RecAscSafeSpec => []RInv
<1>1. RecAscInit => RInv
  BY RInvInit
<1>2. RInv /\ [RecAscNext]_vars => RInv'
  BY RInvNext
<1>. QED
  BY <1>1, <1>2, PTL DEF RecAscSafeSpec

-----------------------------------------------------------------------------
(* The refinement: each step is one of the table-driven parser or none. *)

\* Behind the answer, and in steps that leave Mapped alone, it does nothing.
LEMMA SameMapped ==
    ASSUME input' = input, Mapped' = Mapped
    PROVE  UNCHANGED P!vars
<1>1. /\ (Mapped.inputidx)' = Mapped.inputidx /\ (Mapped.states)' = Mapped.states
      /\ (Mapped.symbols)' = Mapped.symbols /\ (Mapped.result)' = Mapped.result
  OBVIOUS
<1>. QED
  BY <1>1 DEF P!vars

LEMMA AnsweredStep ==
    ASSUME RecAscNext, stopped # <<>>, RInv
    PROVE  UNCHANGED P!vars
<1>1. input' = input /\ stopped' = stopped
  BY DEF RecAscNext, Parse, Idle, Shift, Accept, Reduce, NoBranch, CallJump, Return, Rest,
         vars, Stop
<1>2. Mapped' = Mapped
  BY <1>1 DEF Mapped
<1>. QED
  BY <1>1, <1>2, SameMapped

LEMMA ParseStep ==
    ASSUME RInv, Parse
    PROVE  UNCHANGED P!vars
<1>1. /\ calls' = <<[closure |-> 0, pc |-> "act"]>> /\ stopped' = <<>> /\ Idle
      /\ input' = input /\ m_lookahead_idx' = 1 /\ m_symbols' = <<>>
  BY DEF Parse, Idle
<1>2. Mapped = [inputidx |-> 1, states |-> <<0>>, symbols |-> <<>>, result |-> "none"]
  BY <1>1 DEF Mapped, Idle
<1>3. ~ Running("jump")' /\ ~ Idle' /\ StateStack' = <<0>>
  <2>1. Len(calls') = 1 /\ calls'[1].pc = "act" /\ calls'[1].closure = 0 /\ calls' # <<>>
    BY <1>1
  <2>2. [i \in 1 .. Len(calls') |-> calls'[i].closure] = <<0>>
    BY <2>1
  <2>. QED
    BY <2>1, <2>2 DEF Running, Idle, StateStack
<1>4. Mapped' = [inputidx |-> 1, states |-> <<0>>, symbols |-> <<>>, result |-> "none"]
  BY <1>1, <1>3 DEF Mapped
<1>. QED
  BY <1>1, <1>2, <1>4, SameMapped

LEMMA ShiftStep ==
    ASSUME RInv, Shift, stopped = <<>>
    PROVE  P!Shift
<1>1. /\ Running("act") /\ newclosure # ERROR_VAL /\ newrule = ERROR_VAL
      /\ m_lookahead_idx # Len(input)
  BY ActFacts DEF Shift
<1>2. /\ m_symbols' = Append(m_symbols, [sym |-> m_lookahead, rule |-> P!NoRule,
                                         from |-> m_lookahead_idx, to |-> m_lookahead_idx + 1])
      /\ m_lookahead_idx' = m_lookahead_idx + 1
      /\ calls' = Append(InLoop, [closure |-> newclosure, pc |-> "act"])
      /\ input' = input /\ stopped' = <<>>
  BY DEF Shift
<1>3. /\ Mapped.inputidx = m_lookahead_idx /\ Mapped.states = ClosuresOf(calls)
      /\ Mapped.symbols = m_symbols /\ Mapped.result = "none"
      /\ P!curtok = m_lookahead /\ P!newstate = newclosure /\ P!newrule = newrule
  BY <1>1, ActMapped
<1>4. /\ InLoop \in Seq(Frame) /\ ClosuresOf(InLoop) = ClosuresOf(calls)
      /\ [closure |-> newclosure, pc |-> "act"] \in Frame
  <2>1. calls \in Seq(Frame) /\ calls # <<>>
    BY <1>1 DEF RInv, Running
  <2>2. newclosure \in State
    BY <1>1, ActFacts
  <2>. QED
    BY <2>1, <2>2, InLoopType DEF Frame
<1>5. /\ calls' # <<>> /\ calls'[Len(calls')].pc = "act"
      /\ ClosuresOf(calls)' = Append(ClosuresOf(calls), newclosure)
  <2>1. ClosuresOf(Append(InLoop, [closure |-> newclosure, pc |-> "act"]))
            = Append(ClosuresOf(calls), newclosure)
    BY <1>4, ClosuresAppend
  <2>2. calls' # <<>> /\ calls'[Len(calls')].pc = "act"
    BY <1>2, <1>4
  <2>3. ClosuresOf(calls)' = ClosuresOf(calls')
    BY DEF ClosuresOf
  <2>. QED
    BY <1>2, <2>1, <2>2, <2>3
<1>6. Mapped' = [inputidx |-> m_lookahead_idx + 1,
                 states |-> Append(ClosuresOf(calls), newclosure),
                 symbols |-> m_symbols', result |-> "none"]
  <2>1. ~ Running("jump")' /\ ~ Idle'
    BY <1>5 DEF Running, Idle
  <2>. QED
    BY <1>2, <1>5, <2>1 DEF Mapped, StateStack, ClosuresOf
<1>7. /\ (Mapped.inputidx)' = m_lookahead_idx + 1
      /\ (Mapped.states)' = Append(ClosuresOf(calls), newclosure)
      /\ (Mapped.symbols)' = m_symbols' /\ (Mapped.result)' = "none"
  BY <1>6
<1>. QED
  BY <1>1, <1>2, <1>3, <1>7 DEF P!Shift

\* A step that ends the parser of the tables changes nothing but its result.
LEMMA StopStep ==
    ASSUME RInv, Running("act"), stopped = <<>>, NEW how, Stop(how), input' = input
    PROVE  /\ UNCHANGED <<input, Mapped.inputidx, Mapped.states, Mapped.symbols>>
           /\ (Mapped.result)' = how
<1>1. Mapped = [inputidx |-> m_lookahead_idx, states |-> ClosuresOf(calls),
                symbols |-> m_symbols, result |-> "none"]
  BY ActMapped
<1>2. stopped' # <<>> /\ stopped' = [inputidx |-> m_lookahead_idx, states |-> ClosuresOf(calls),
                                     symbols |-> m_symbols, result |-> how]
  BY StopFacts
<1>3. Mapped' = stopped'
  BY <1>2 DEF Mapped
<1>. QED
  BY <1>1, <1>2, <1>3

LEMMA AcceptStep ==
    ASSUME RInv, Accept, stopped = <<>>
    PROVE  P!Accept
<1>1. Running("act") /\ newclosure = ERROR_VAL /\ newrule = ACCEPT_VAL /\ Stop("accept")
      /\ input' = input
  BY DEF Accept
<1>2. Mapped.result = "none" /\ P!newstate = newclosure /\ P!newrule = newrule
  BY <1>1, ActMapped
<1>. QED
  BY <1>1, <1>2, StopStep DEF P!Accept

LEMMA NoBranchStep ==
    ASSUME RInv, NoBranch, stopped = <<>>
    PROVE  P!Throw
<1>1. Running("act") /\ newclosure = ERROR_VAL /\ newrule = ERROR_VAL /\ Stop("error")
      /\ input' = input
  BY DEF NoBranch
<1>2. Mapped.result = "none" /\ P!newstate = newclosure /\ P!newrule = newrule
  BY <1>1, ActMapped
<1>. QED
  BY <1>1, <1>2, StopStep DEF P!Throw

\* The first k elements of a sequence.
LEMMA Prefix ==
    ASSUME NEW S, NEW s \in Seq(S), NEW k \in Nat, k <= Len(s)
    PROVE  /\ SubSeq(s, 1, k) \in Seq(S) /\ Len(SubSeq(s, 1, k)) = k
           /\ \A i \in 1 .. k : SubSeq(s, 1, k)[i] = s[i]
OBVIOUS

LEMMA ReduceStep ==
    ASSUME RInv, Reduce, stopped = <<>>
    PROVE  P!Reduce
<1> DEFINE n    == m_numRhsSymsPerRule[newrule]
           args == [i \in 1 .. n |-> m_symbols[Len(m_symbols) - n + i]]
           node == P!Reduced(newrule, args)
           jump == JumpOf(calls[Len(calls) - n].closure, Rules[newrule].lhs)
<1>1. /\ Running("act") /\ newclosure = ERROR_VAL /\ newrule \in RuleNr
      /\ input' = input /\ m_lookahead_idx' = m_lookahead_idx
      /\ \/ /\ CanReduce(n, Rules[newrule].lhs)
            /\ m_symbols' = Append(SubSeq(m_symbols, 1, Len(m_symbols) - n), node)
            /\ m_dist_to_jump' = n /\ calls' = InLoop /\ stopped' = stopped
         \/ ~ CanReduce(n, Rules[newrule].lhs) /\ Stop("undefined")
  BY DEF Reduce
<1>2. /\ Mapped.inputidx = m_lookahead_idx /\ Mapped.states = ClosuresOf(calls)
      /\ Mapped.symbols = m_symbols /\ Mapped.result = "none"
      /\ P!newstate = newclosure /\ P!newrule = newrule
  BY <1>1, ActMapped
<1>3. /\ calls \in Seq(Frame) /\ calls # <<>> /\ n \in Nat
      /\ Len(calls) = Len(m_symbols) + 1 /\ m_symbols \in Seq(Node)
  <2>1. calls # <<>> /\ calls[Len(calls)].pc = "act"
    BY <1>1 DEF Running
  <2>. QED
    BY <1>1, <2>1, GeneratedAssumption DEF RInv, Before, ActOK
<1>4. P!Args(n) = args /\ node.sym = Rules[newrule].lhs
  BY <1>2 DEF P!Args, P!Reduced
<1>5. n <= Len(m_symbols) =>
          /\ Len(calls) - n \in 1 .. Len(calls) /\ n < Len(calls)
          /\ P!JumpFrom(Mapped.states, n) = calls[Len(calls) - n].closure
  <2> HAVE n <= Len(m_symbols)
  <2>1. Len(m_symbols) \in Nat /\ Len(calls) - n \in 1 .. Len(calls) /\ n < Len(calls)
    BY <1>3
  <2>2. /\ ClosuresOf(calls)[Len(calls) - n] = calls[Len(calls) - n].closure
        /\ Len(ClosuresOf(calls)) = Len(calls)
    BY <1>3, <2>1, ClosuresType
  <2>. QED
    BY <1>2, <2>1, <2>2 DEF P!JumpFrom
<1>6. CanReduce(n, Rules[newrule].lhs) <=>
          ~ (n > Len(Mapped.symbols) \/ m_tabJump[P!JumpFrom(Mapped.states, n)][node.sym] = ERROR_VAL)
  <2>1. Len(m_symbols) \in Nat
    BY <1>3
  <2> HIDE DEF n, args, node
  <2>2. CASE n <= Len(m_symbols)
    BY <1>2, <1>3, <1>4, <1>5, <2>1, <2>2 DEF CanReduce, JumpOf
  <2>3. CASE ~ (n <= Len(m_symbols))
    BY <1>2, <1>3, <2>1, <2>3 DEF CanReduce
  <2>. QED
    BY <2>2, <2>3
<1>7. CASE ~ CanReduce(n, Rules[newrule].lhs) /\ Stop("undefined")
  <2>1. /\ UNCHANGED <<input, Mapped.inputidx, Mapped.states, Mapped.symbols>>
        /\ (Mapped.result)' = "undefined"
    BY <1>1, <1>7, StopStep
  <2>. QED
    BY <1>1, <1>2, <1>4, <1>6, <1>7, <2>1 DEF P!Reduce
<1>8. CASE /\ CanReduce(n, Rules[newrule].lhs)
           /\ m_symbols' = Append(SubSeq(m_symbols, 1, Len(m_symbols) - n), node)
           /\ m_dist_to_jump' = n /\ calls' = InLoop /\ stopped' = stopped
  <2>1. n <= Len(m_symbols) /\ Len(m_symbols) \in Nat
    BY <1>3, <1>8 DEF CanReduce
  <2>2. RInv' /\ Running("jump")' /\ stopped' = <<>>
    <3>1. calls' # <<>> /\ calls'[Len(calls')].pc = "jump"
      BY <1>1, <1>8, IntoLoop
    <3>. QED
      BY <1>8, <3>1, ReduceInv DEF Running
  <2>3. /\ Len(calls') = Len(calls) /\ Landing' = Len(calls) - n
        /\ Landing' \in 1 .. Len(calls)
        /\ \A i \in 1 .. Len(calls) : calls'[i].closure = calls[i].closure
    BY <1>3, <1>5, <1>8, <2>1, InLoopType DEF Landing
  <2>4. topsym' = node.sym
    <3> HIDE DEF node, n
    <3>1. /\ Len(SubSeq(m_symbols, 1, Len(m_symbols) - n)) = Len(m_symbols) - n
          /\ SubSeq(m_symbols, 1, Len(m_symbols) - n) \in Seq(Node)
      BY <1>3, <2>1
    <3>2. m_symbols'[Len(m_symbols')] = node
      BY <1>3, <1>8, <2>1, <3>1
    <3>. QED
      BY <3>2 DEF topsym
  <2>5. [i \in 1 .. Landing' |-> calls'[i].closure]
            = SubSeq(ClosuresOf(calls), 1, Len(ClosuresOf(calls)) - n)
    <3> DEFINE a == [i \in 1 .. Landing' |-> calls'[i].closure]
               b == SubSeq(ClosuresOf(calls), 1, Len(ClosuresOf(calls)) - n)
    <3>1. /\ ClosuresOf(calls) \in Seq(State) /\ Len(ClosuresOf(calls)) = Len(calls)
          /\ \A i \in 1 .. Len(calls) : ClosuresOf(calls)[i] = calls[i].closure
      BY <1>3, ClosuresType
    <3>2. PICK k \in Nat : k = Landing' /\ k <= Len(calls) /\ Len(ClosuresOf(calls)) - n = k
      BY <1>3, <2>3, <3>1
    <3>3. b \in Seq(State) /\ Len(b) = k /\ \A i \in 1 .. k : b[i] = calls[i].closure
      <4>1. b = SubSeq(ClosuresOf(calls), 1, k)
        BY <3>2
      <4>2. /\ SubSeq(ClosuresOf(calls), 1, k) \in Seq(State)
            /\ Len(SubSeq(ClosuresOf(calls), 1, k)) = k
            /\ \A i \in 1 .. k : SubSeq(ClosuresOf(calls), 1, k)[i] = ClosuresOf(calls)[i]
        <5>1. k <= Len(ClosuresOf(calls))
          BY <3>1, <3>2
        <5>. QED
          BY <3>1, <5>1, Prefix
      <4> HIDE DEF b
      <4>3. b \in Seq(State) /\ Len(b) = k /\ \A i \in 1 .. k : b[i] = ClosuresOf(calls)[i]
        BY <4>1, <4>2, Zenon
      <4>4. \A i \in 1 .. k : i \in 1 .. Len(calls)
        BY <1>3, <3>2
      <4>. QED
        BY <3>1, <4>3, <4>4
    <3>4. a = [i \in 1 .. k |-> calls[i].closure]
      BY <1>3, <2>3, <3>2
    <3>5. b = [i \in 1 .. k |-> b[i]]
      <4> HIDE DEF b
      <4>. QED
        BY <3>3
    <3> HIDE DEF a, b
    <3>6. a = b
      BY <3>3, <3>4, <3>5
    <3>. QED
      BY <3>6 DEF a, b
  <2>6. JumpOf(calls'[Landing'].closure, topsym')
            = m_tabJump[P!JumpFrom(Mapped.states, n)][node.sym]
    BY <1>5, <2>1, <2>3, <2>4 DEF JumpOf
  <2>7. Mapped' = [inputidx |-> m_lookahead_idx,
                   states |-> Append(SubSeq(ClosuresOf(calls), 1, Len(ClosuresOf(calls)) - n),
                                     m_tabJump[P!JumpFrom(Mapped.states, n)][node.sym]),
                   symbols |-> m_symbols', result |-> "none"]
    <3>1. ~ Idle'
      BY <2>2 DEF Running, Idle
    <3> HIDE DEF n, node
    <3>2. StateStack' = Append(SubSeq(ClosuresOf(calls), 1, Len(ClosuresOf(calls)) - n),
                               m_tabJump[P!JumpFrom(Mapped.states, n)][node.sym])
      <4>1. StateStack' = Append([i \in 1 .. Landing' |-> calls'[i].closure],
                                 JumpOf(calls'[Landing'].closure, topsym'))
        BY <2>2 DEF StateStack, JumpOf
      <4>. QED
        BY <2>5, <2>6, <4>1
    <3>. QED
      BY <1>1, <2>2, <3>1, <3>2 DEF Mapped
  <2>8. /\ (Mapped.inputidx)' = Mapped.inputidx
        /\ (Mapped.states)' = Append(SubSeq(Mapped.states, 1, Len(Mapped.states) - n),
                                     m_tabJump[P!JumpFrom(Mapped.states, n)][node.sym])
        /\ (Mapped.symbols)' = Append(SubSeq(Mapped.symbols, 1, Len(Mapped.symbols) - n), node)
        /\ (Mapped.result)' = Mapped.result
    <3> HIDE DEF n, node
    <3>. QED
      BY <1>2, <1>8, <2>7
  <2>. QED
    BY <1>1, <1>2, <1>4, <1>6, <1>8, <2>8 DEF P!Reduce
<1>. QED
  BY <1>1, <1>7, <1>8

LEMMA CallJumpStep ==
    ASSUME RInv, CallJump, stopped = <<>>
    PROVE  UNCHANGED P!vars
<1> DEFINE f == [closure |-> JumpOf(closure, topsym), pc |-> "act"]
<1>1. /\ Running("jump") /\ Looping /\ JumpOf(closure, topsym) # ERROR_VAL
      /\ calls' = Append(calls, f)
      /\ input' = input /\ m_lookahead_idx' = m_lookahead_idx /\ m_symbols' = m_symbols
      /\ stopped' = <<>>
  BY DEF CallJump
<1>2. /\ Mapped = [inputidx |-> m_lookahead_idx,
                   states   |-> Append([i \in 1 .. Landing |-> calls[i].closure],
                                       JumpOf(calls[Landing].closure, topsym)),
                   symbols  |-> m_symbols, result |-> "none"]
      /\ Len(calls) \in Nat \ {0} /\ calls \in Seq(Frame)
  BY <1>1, JumpMapped DEF RInv
<1>3. Landing = Len(calls)
  BY <1>1, <1>2 DEF Landing, Looping
<1>4. f \in Frame /\ f.closure = JumpOf(closure, topsym) /\ f.pc = "act"
  <2>1. closure \in State /\ topsym \in NonTerminal
    <3>1. calls[Len(calls)] \in Frame
      BY <1>2
    <3>. QED
      BY <1>1, <3>1 DEF closure, Frame, Looping
  <2>2. JumpOf(closure, topsym) \in State
    BY <1>1, <2>1, GeneratedAssumption DEF JumpOf
  <2>. QED
    BY <2>2 DEF Frame
<1>5. Mapped = [inputidx |-> m_lookahead_idx,
                states   |-> Append(ClosuresOf(calls), JumpOf(closure, topsym)),
                symbols  |-> m_symbols, result |-> "none"]
  BY <1>2, <1>3 DEF ClosuresOf, closure
<1> HIDE DEF f
<1>6. calls' # <<>> /\ calls'[Len(calls')].pc = "act"
      /\ ClosuresOf(calls') = Append(ClosuresOf(calls), JumpOf(closure, topsym))
  <2>1. calls' # <<>> /\ calls'[Len(calls')] = f
    BY <1>1, <1>2, <1>4
  <2>2. ClosuresOf(Append(calls, f)) = Append(ClosuresOf(calls), JumpOf(closure, topsym))
    BY <1>2, <1>4, ClosuresAppend
  <2>. QED
    BY <1>1, <1>4, <2>1, <2>2
<1>7. Mapped' = [inputidx |-> m_lookahead_idx,
                 states   |-> Append(ClosuresOf(calls), JumpOf(closure, topsym)),
                 symbols  |-> m_symbols, result |-> "none"]
  <2>1. ~ Running("jump")' /\ ~ Idle'
    BY <1>6 DEF Running, Idle
  <2>2. StateStack' = ClosuresOf(calls')
    BY <2>1 DEF StateStack, ClosuresOf
  <2>. QED
    BY <1>1, <1>6, <2>1, <2>2 DEF Mapped
<1>. QED
  BY <1>1, <1>5, <1>7, SameMapped

LEMMA ReturnStep ==
    ASSUME RInv, Return, stopped = <<>>
    PROVE  UNCHANGED P!vars
<1>1. /\ Running("jump") /\ input' = input /\ m_lookahead_idx' = m_lookahead_idx
      /\ m_symbols' = m_symbols /\ stopped' = <<>>
  BY DEF Return
<1>2. /\ Landing' = Landing /\ Landing \in 1 .. Len(calls) - 1
      /\ calls' # <<>> /\ calls'[Len(calls')].pc = "jump" /\ Len(calls) \in Nat \ {0}
      /\ \A i \in 1 .. Len(calls) - 1 : calls'[i] = calls[i]
  BY <1>1, ReturnCounts, JumpMapped
<1>3. RInv' /\ Running("jump")' /\ ~ Idle'
  BY <1>2, ReturnInv DEF Running, Idle
<1>4. /\ [i \in 1 .. Landing' |-> calls'[i].closure] = [i \in 1 .. Landing |-> calls[i].closure]
      /\ calls'[Landing'] = calls[Landing]
  BY <1>2
<1>5. StateStack' = StateStack
  <2>1. StateStack' = Append([i \in 1 .. Landing' |-> calls'[i].closure],
                             JumpOf(calls'[Landing'].closure, topsym'))
    BY <1>3 DEF StateStack, JumpOf
  <2>2. topsym' = topsym
    BY <1>1 DEF topsym
  <2>. QED
    BY <1>1, <1>4, <2>1, <2>2 DEF StateStack, JumpOf
<1>6. ~ Idle
  BY <1>1 DEF Running, Idle
<1>7. Mapped' = Mapped
  BY <1>1, <1>3, <1>5, <1>6 DEF Mapped
<1>. QED
  BY <1>1, <1>7, SameMapped

LEMMA EveryStep == ASSUME RInv, [RecAscNext]_vars PROVE [P!ParserNext]_(P!vars)
<1>1. UNCHANGED vars => UNCHANGED P!vars
  <2>1. UNCHANGED vars => Mapped' = Mapped /\ input' = input
    BY DEF vars, Mapped, Idle, StateStack, Running, Landing, JumpOf, topsym
  <2>. QED
    BY <2>1, SameMapped
<1>2. Rest => UNCHANGED vars
  BY DEF Rest
<1>3. CASE RecAscNext /\ stopped # <<>>
  BY <1>3, AnsweredStep
<1>4. CASE RecAscNext /\ stopped = <<>>
  BY <1>1, <1>2, <1>4, ParseStep, ShiftStep, AcceptStep, ReduceStep, NoBranchStep, CallJumpStep,
     ReturnStep DEF RecAscNext, P!ParserNext
<1>. QED
  BY <1>1, <1>3, <1>4

LEMMA InitMapped == ASSUME RecAscInit PROVE P!ParserInit
<1>1. input \in Inputs /\ Idle /\ stopped = <<>>
  BY DEF RecAscInit, Idle
<1>2. Mapped = [inputidx |-> 1, states |-> <<0>>, symbols |-> <<>>, result |-> "none"]
  BY <1>1 DEF Mapped
<1>. QED
  BY <1>1, <1>2 DEF P!ParserInit

-----------------------------------------------------------------------------
(* Behind a rejected input a function that has given up may call a closure for  *)
(* the symbol on top that already has one.  From then on there are more         *)
(* functions than symbols, so that no reduction gets down to closure 0, whose   *)
(* jump for the start symbol is where acceptance is.                            *)

\* Each active function was called from the one below it over a symbol.
Chained(cs) ==
    cs # <<>> =>
        /\ cs[1].closure = 0
        /\ \A i \in 2 .. Len(cs) :
               \E X \in Terminal \cup NonTerminal : Goto(cs[i - 1].closure, X) = cs[i].closure

\* Closure s has no branch for the look-ahead.
Deaf(s) ==
    /\ m_tabActionShift[s][m_lookahead] = ERROR_VAL
    /\ m_tabActionReduce[s][m_lookahead] = ERROR_VAL

\* A loop has something to look at.
NonTerminalOnTop == m_symbols # <<>> /\ topsym \in NonTerminal

\* The running function was called for the symbol on top.
CalledForTop ==
    NonTerminalOnTop =>
        Len(calls) > 1 /\ JumpOf(calls[Len(calls) - 1].closure, topsym) = closure

\* Closure s, called by the n-th function, has fewer symbols than callers or no branch.
Adrift(n, s) == n >= Len(m_symbols) /\ (n = Len(m_symbols) => Deaf(s))

\* The function that is reached next calls a closure for the symbol on top.
WillJump ==
    /\ Landing >= 1 /\ JumpOf(calls[Landing].closure, topsym) # ERROR_VAL
    /\ Adrift(Landing, JumpOf(calls[Landing].closure, topsym))

\* The running function has given up.
GaveUp ==
    /\ m_dist_to_jump = 0 /\ Deaf(closure) /\ CalledForTop
    /\ Len(calls) > Len(m_symbols)

Rejected == stopped # <<>> /\ stopped.result # "accept"

Astray ==
    /\ m_accepted = FALSE
    /\ Running("act") =>
           /\ m_dist_to_jump = 0
           /\ m_symbols # <<>> /\ Adrift(Len(calls) - 1, closure)
    /\ Running("jump") =>
           /\ m_dist_to_jump \in Nat
           /\ NonTerminalOnTop => WillJump \/ GaveUp

EInv ==
    /\ Chained(calls)
    /\ calls # <<>> => \E S : m_symbols \in Seq(S)
    /\ Running("act") => CalledForTop
    /\ Rejected => Astray

LEMMA ChainedCall ==
    ASSUME NEW cs \in Seq(Frame), cs # <<>>, Chained(cs), NEW f \in Frame,
           NEW X \in Terminal \cup NonTerminal, Goto(cs[Len(cs)].closure, X) = f.closure
    PROVE  Chained(Append(cs, f))
<1> DEFINE after == Append(cs, f)
<1>1. /\ Len(cs) \in Nat \ {0} /\ Len(after) = Len(cs) + 1 /\ after[Len(cs) + 1] = f
      /\ \A i \in 1 .. Len(cs) : after[i] = cs[i]
  OBVIOUS
<1> HIDE DEF after
<1>2. after[1].closure = 0
  BY <1>1 DEF Chained
<1>3. ASSUME NEW i \in 2 .. Len(after)
      PROVE  \E Y \in Terminal \cup NonTerminal : Goto(after[i - 1].closure, Y) = after[i].closure
  <2>1. i - 1 \in 1 .. Len(cs) /\ (i = Len(cs) + 1 \/ i \in 2 .. Len(cs))
    BY <1>1
  <2>2. after[i - 1] = cs[i - 1]
    BY <1>1, <2>1
  <2>3. CASE i = Len(cs) + 1
    BY <1>1, <2>1, <2>2, <2>3
  <2>4. CASE i \in 2 .. Len(cs)
    <3>1. after[i] = cs[i]
      BY <1>1, <2>4
    <3>. QED
      BY <2>2, <2>4, <3>1 DEF Chained
  <2>. QED
    BY <2>1, <2>3, <2>4
<1>4. Chained(after)
  BY <1>2, <1>3 DEF Chained
<1>. QED
  BY <1>4 DEF after

\* What is left of the stack, or the same functions in their loops.
LEMMA ChainedPart ==
    ASSUME NEW cs \in Seq(Frame), Chained(cs), NEW after \in Seq(Frame), Len(after) <= Len(cs),
           \A i \in 1 .. Len(after) : after[i].closure = cs[i].closure
    PROVE  Chained(after)
<1> SUFFICES ASSUME after # <<>> PROVE Chained(after)
  BY DEF Chained
<1>1. Len(after) \in Nat \ {0} /\ Len(cs) \in Nat \ {0} /\ cs # <<>>
  <2>1. Len(after) \in Nat \ {0} /\ Len(cs) \in Nat
    OBVIOUS
  <2>. QED
    BY <2>1
<1>2. after[1].closure = 0
  BY <1>1 DEF Chained
<1>3. ASSUME NEW i \in 2 .. Len(after)
      PROVE  \E Y \in Terminal \cup NonTerminal : Goto(after[i - 1].closure, Y) = after[i].closure
  <2>1. i \in 2 .. Len(cs) /\ i \in 1 .. Len(after) /\ i - 1 \in 1 .. Len(after)
    BY <1>1
  <2>2. after[i].closure = cs[i].closure /\ after[i - 1].closure = cs[i - 1].closure
    BY <2>1
  <2>. QED
    BY <1>1, <2>1, <2>2 DEF Chained
<1>. QED
  BY <1>2, <1>3 DEF Chained

\* A closure that accepts is called by closure 0, which calls and is called by none else.
LEMMA AcceptsAtTwo ==
    ASSUME RInv, EInv, Running("act"), newrule = ACCEPT_VAL
    PROVE  Len(calls) = 2
<1>1. calls # <<>> /\ calls \in Seq(Frame)
  BY DEF RInv, Running
<1>2. /\ Len(calls) \in Nat \ {0} /\ \A i \in 1 .. Len(calls) : calls[i] \in Frame
      /\ m_lookahead \in Terminal /\ m_tabActionReduce[closure][m_lookahead] = ACCEPT_VAL
  BY <1>1, ActFacts DEF newrule
<1>3. /\ calls[1].closure = 0
      /\ \A i \in 2 .. Len(calls) :
             \E X \in Terminal \cup NonTerminal : Goto(calls[i - 1].closure, X) = calls[i].closure
  BY <1>1 DEF EInv, Chained
<1>4. \A i \in 1 .. Len(calls) : calls[i].closure \in State /\ calls[i].closure # ERROR_VAL
  BY <1>2, GeneratedAssumption DEF Frame
<1>5. Len(calls) # 1
  BY <1>2, <1>3, AcceptAssumption DEF closure
<1>6. ~ (Len(calls) >= 3)
  <2> SUFFICES ASSUME Len(calls) >= 3 PROVE FALSE
    OBVIOUS
  <2>1. /\ Len(calls) \in 2 .. Len(calls) /\ Len(calls) - 1 \in 2 .. Len(calls)
        /\ (Len(calls) - 1) - 1 \in 1 .. Len(calls) /\ Len(calls) - 1 \in 1 .. Len(calls)
    BY <1>2
  <2>2. PICK X \in Terminal \cup NonTerminal : Goto(calls[Len(calls) - 1].closure, X) = closure
    BY <1>3, <2>1 DEF closure
  <2>3. PICK Y \in Terminal \cup NonTerminal :
            Goto(calls[(Len(calls) - 1) - 1].closure, Y) = calls[Len(calls) - 1].closure
    BY <1>3, <2>1
  <2>4. calls[Len(calls) - 1].closure # 0
    <3>1. calls[(Len(calls) - 1) - 1].closure \in State /\ calls[Len(calls) - 1].closure # ERROR_VAL
      BY <1>4, <2>1
    <3>. QED
      BY <2>3, <3>1, AcceptAssumption
  <2>5. calls[Len(calls) - 1].closure \in State /\ closure # ERROR_VAL
    BY <1>2, <1>4, <2>1, ActFacts, GeneratedAssumption
  <2>. QED
    BY <1>2, <2>2, <2>4, <2>5, AcceptAssumption
<1>7. \A n \in Nat \ {0} : n # 1 /\ ~ (n >= 3) => n = 2
  OBVIOUS
<1>. QED
  BY ONLY <1>2, <1>5, <1>6, <1>7

\* Before it has an answer, or none that it keeps, a running function knows this.
LEMMA RunningAct ==
    ASSUME RInv, EInv, Running("act")
    PROVE  /\ m_accepted = FALSE /\ m_dist_to_jump = 0 /\ CalledForTop
           /\ calls # <<>> /\ calls \in Seq(Frame) /\ Len(calls) \in Nat \ {0}
           /\ Len(m_symbols) \in Nat /\ Len(calls) > Len(m_symbols)
           /\ Rejected => m_symbols # <<>> /\ Adrift(Len(calls) - 1, closure)
           /\ Rejected \/ stopped = <<>>
<1>1. calls # <<>> /\ calls \in Seq(Frame) /\ calls[Len(calls)].pc = "act"
  BY DEF RInv, Running
<1>2. Len(calls) \in Nat \ {0}
  BY <1>1
<1>3. Len(m_symbols) \in Nat
  BY <1>1 DEF EInv
<1>4. CalledForTop /\ (Rejected => Astray)
  BY DEF EInv
<1>5. CASE stopped = <<>>
  <2>1. m_accepted = FALSE /\ m_dist_to_jump = 0 /\ Len(calls) = Len(m_symbols) + 1 /\ ~ Rejected
    BY <1>1, <1>5 DEF RInv, Before, ActOK, Rejected
  <2>. QED
    BY <1>1, <1>2, <1>3, <1>4, <1>5, <2>1
<1>6. CASE stopped # <<>>
  <2>1. Rejected
    BY <1>1, <1>6 DEF RInv, Rejected
  <2>2. /\ m_accepted = FALSE /\ m_dist_to_jump = 0 /\ m_symbols # <<>>
        /\ Adrift(Len(calls) - 1, closure)
    BY <1>4, <2>1 DEF Astray
  <2>3. Len(calls) > Len(m_symbols)
    BY <1>2, <1>3, <2>2 DEF Adrift
  <2>. QED
    BY <1>1, <1>2, <1>3, <1>4, <2>1, <2>2, <2>3
<1>. QED
  BY <1>5, <1>6

LEMMA ParseLost == ASSUME RInv, EInv, Parse PROVE EInv'
<1>1. /\ calls' = <<[closure |-> 0, pc |-> "act"]>> /\ m_symbols' = <<>> /\ stopped' = <<>>
  BY DEF Parse, Idle
<1>2. Len(calls') = 1 /\ calls'[1].closure = 0
  BY <1>1
<1>3. Chained(calls')
  BY <1>2 DEF Chained
<1>4. m_symbols' \in Seq({})
  BY <1>1
<1>5. CalledForTop' /\ ~ Rejected'
  BY <1>1 DEF CalledForTop, NonTerminalOnTop, Rejected
<1>. QED
  BY <1>3, <1>4, <1>5 DEF EInv

LEMMA ShiftLost == ASSUME RInv, EInv, Shift PROVE EInv'
<1> DEFINE f == [closure |-> newclosure, pc |-> "act"]
           token == [sym |-> m_lookahead, rule |-> P!NoRule,
                     from |-> m_lookahead_idx, to |-> m_lookahead_idx + 1]
<1>1. /\ Running("act") /\ newclosure # ERROR_VAL
      /\ m_symbols' = Append(m_symbols, token) /\ calls' = Append(InLoop, f)
      /\ m_dist_to_jump' = m_dist_to_jump /\ m_accepted' = m_accepted /\ stopped' = stopped
  BY DEF Shift
<1>2. PICK S : m_symbols \in Seq(S)
  BY <1>1, RunningAct DEF EInv
<1>3. /\ m_symbols' \in Seq(S \cup {token}) /\ m_symbols' # <<>>
      /\ Len(m_symbols') = Len(m_symbols) + 1 /\ m_symbols'[Len(m_symbols')] = token
  <2> HIDE DEF token
  <2>1. m_symbols \in Seq(S \cup {token})
    BY <1>2
  <2>. QED
    BY <1>1, <2>1
<1>4. topsym' \in Terminal /\ ~ NonTerminalOnTop'
  <2>1. topsym' = m_lookahead
    BY <1>3 DEF topsym
  <2>. QED
    BY <1>1, <2>1, ActFacts, GeneratedAssumption DEF NonTerminalOnTop
<1>5. f \in Frame /\ f.closure = newclosure /\ f.pc = "act"
  BY <1>1, ActFacts DEF Frame
<1>6. /\ InLoop \in Seq(Frame) /\ InLoop # <<>> /\ Len(InLoop) = Len(calls)
      /\ \A i \in 1 .. Len(calls) : InLoop[i].closure = calls[i].closure
  BY <1>1, RunningAct, InLoopType
<1>7. Chained(calls')
  <2>1. Chained(InLoop)
    <3>1. calls \in Seq(Frame) /\ Chained(calls) /\ Len(calls) \in Nat
      BY <1>1, RunningAct DEF EInv
    <3>. QED
      BY ONLY <1>6, <3>1, ChainedPart
  <2>2. Goto(InLoop[Len(InLoop)].closure, m_lookahead) = f.closure
    <3>1. InLoop[Len(InLoop)].closure = closure
      BY <1>1, <1>6, RunningAct DEF closure
    <3>. QED
      BY <1>1, <1>5, <3>1, ActFacts DEF Goto, newclosure
  <2> HIDE DEF f
  <2>. QED
    BY <1>1, <1>5, <1>6, <2>1, <2>2, ActFacts, ChainedCall
<1>8. /\ Len(calls') = Len(calls) + 1 /\ calls' # <<>> /\ calls'[Len(calls')] = f
  <2> HIDE DEF f
  <2>. QED
    BY <1>1, <1>5, <1>6
<1>9. Rejected' => Astray'
  <2> SUFFICES ASSUME Rejected PROVE Astray'
    BY <1>1 DEF Rejected
  <2>1. Len(calls) - 1 > Len(m_symbols)
    <3>1. ~ Deaf(closure)
      BY <1>1 DEF Deaf, newclosure
    <3>2. Adrift(Len(calls) - 1, closure) /\ Len(calls) \in Nat /\ Len(m_symbols) \in Nat
      BY <1>1, RunningAct
    <3>. QED
      BY <3>1, <3>2 DEF Adrift
  <2>2. Adrift(Len(calls) - 1, closure)'
    <3>1. Len(calls') - 1 > Len(m_symbols')
      BY <1>1, <1>3, <1>8, <2>1, RunningAct
    <3>2. Len(calls') - 1 \in Int /\ Len(m_symbols') \in Int
      BY <1>1, <1>3, <1>8, RunningAct
    <3>. QED
      BY <3>1, <3>2 DEF Adrift
  <2>3. ~ Running("jump")'
    BY <1>5, <1>8 DEF Running
  <2>4. m_accepted' = FALSE /\ m_dist_to_jump' = 0
    BY <1>1, RunningAct
  <2>. QED
    BY <1>3, <2>2, <2>3, <2>4 DEF Astray
<1>. QED
  BY <1>3, <1>4, <1>7, <1>9 DEF EInv, CalledForTop

\* A function that leaves its branches for its loop.
LEMMA LoopLost ==
    ASSUME RInv, EInv, Running("act"), calls' = InLoop
    PROVE  /\ Chained(calls') /\ calls' # <<>> /\ Len(calls') = Len(calls)
           /\ ~ Running("act")' /\ closure' = closure
           /\ \A i \in 1 .. Len(calls) : calls'[i].closure = calls[i].closure
<1>1. calls \in Seq(Frame) /\ calls # <<>> /\ Len(calls) \in Nat \ {0} /\ Chained(calls)
  BY RunningAct DEF EInv
<1>2. /\ calls' \in Seq(Frame) /\ Len(calls') = Len(calls) /\ calls' # <<>>
      /\ \A i \in 1 .. Len(calls) : calls'[i].closure = calls[i].closure
      /\ calls'[Len(calls)].pc = "jump"
  BY <1>1, InLoopType
<1>3. Chained(calls')
  BY ONLY <1>1, <1>2, ChainedPart
<1>4. ~ Running("act")' /\ closure' = closure
  BY <1>1, <1>2 DEF Running, closure
<1>. QED
  BY <1>2, <1>3, <1>4

LEMMA AcceptLost == ASSUME RInv, EInv, Accept PROVE EInv'
<1>1. /\ Running("act") /\ newrule = ACCEPT_VAL /\ Stop("accept") /\ calls' = InLoop
      /\ m_symbols' = m_symbols
  BY DEF Accept
\* Two functions have called no closure for a symbol that is not there.
<1>2. ~ Rejected
  <2> SUFFICES ASSUME Rejected PROVE FALSE
    OBVIOUS
  <2>1. Len(calls) = 2 /\ Adrift(1, closure) /\ m_symbols # <<>> /\ Len(m_symbols) \in Nat
    <3>1. Len(calls) = 2
      BY <1>1, AcceptsAtTwo
    <3>2. Adrift(Len(calls) - 1, closure) /\ m_symbols # <<>> /\ Len(m_symbols) \in Nat
      BY <1>1, RunningAct
    <3>3. Len(calls) - 1 = 1
      BY <3>1
    <3>. QED
      BY <3>1, <3>2, <3>3
  <2>2. Len(m_symbols) # 0
    <3>1. PICK S : m_symbols \in Seq(S)
      BY <1>1, RunningAct DEF EInv
    <3>. QED
      BY <2>1, <3>1
  <2>3. ~ Deaf(closure)
    BY <1>1, GeneratedAssumption DEF Deaf, newrule
  <2>4. ~ (1 = Len(m_symbols)) /\ 1 >= Len(m_symbols)
    BY <2>1, <2>3 DEF Adrift
  <2>5. \A k \in Nat : k # 0 /\ ~ (1 = k) => ~ (1 >= k)
    OBVIOUS
  <2>. QED
    BY ONLY <2>1, <2>2, <2>4, <2>5
<1>3. stopped = <<>>
  BY <1>1, <1>2, RunningAct
<1>4. stopped'.result = "accept"
  BY <1>1, <1>3, StopFacts
<1>5. ~ Rejected'
  BY <1>4 DEF Rejected
<1>. QED
  BY <1>1, <1>5, LoopLost, RunningAct DEF EInv

LEMMA NoBranchLost == ASSUME RInv, EInv, NoBranch PROVE EInv'
<1>1. /\ Running("act") /\ newclosure = ERROR_VAL /\ newrule = ERROR_VAL /\ calls' = InLoop
      /\ input' = input /\ m_lookahead_idx' = m_lookahead_idx /\ m_symbols' = m_symbols
      /\ m_dist_to_jump' = m_dist_to_jump /\ m_accepted' = m_accepted
  BY DEF NoBranch
<1>2. /\ Chained(calls') /\ calls' # <<>> /\ Len(calls') = Len(calls)
      /\ ~ Running("act")' /\ closure' = closure
      /\ \A i \in 1 .. Len(calls) : calls'[i].closure = calls[i].closure
  BY <1>1, LoopLost
<1>3. m_accepted = FALSE /\ m_dist_to_jump = 0 /\ CalledForTop /\ Len(calls) > Len(m_symbols)
      /\ Len(calls) \in Nat
  BY <1>1, RunningAct
<1>4. m_lookahead' = m_lookahead /\ topsym' = topsym
  BY <1>1 DEF m_lookahead, topsym
<1>5. Deaf(closure)'
  BY <1>1, <1>2, <1>4 DEF Deaf, newclosure, newrule
<1>6. CalledForTop'
  <2> SUFFICES ASSUME NonTerminalOnTop
               PROVE  Len(calls') > 1 /\ JumpOf(calls'[Len(calls') - 1].closure, topsym) = closure
    BY <1>1, <1>2, <1>4 DEF CalledForTop, NonTerminalOnTop, JumpOf
  <2>1. Len(calls) > 1 /\ JumpOf(calls[Len(calls) - 1].closure, topsym) = closure
    BY <1>3 DEF CalledForTop
  <2>2. calls'[Len(calls) - 1].closure = calls[Len(calls) - 1].closure
    BY <1>2, <1>3, <2>1
  <2>. QED
    BY <1>2, <2>1, <2>2
<1>7. Astray'
  BY <1>1, <1>2, <1>3, <1>5, <1>6 DEF Astray, GaveUp
<1>. QED
  BY <1>1, <1>2, <1>7, RunningAct DEF EInv

LEMMA ReduceLost == ASSUME RInv, EInv, Reduce PROVE EInv'
<1> DEFINE n    == m_numRhsSymsPerRule[newrule]
           node == P!Reduced(newrule, [i \in 1 .. n |-> m_symbols[Len(m_symbols) - n + i]])
<1>1. /\ Running("act") /\ newclosure = ERROR_VAL /\ newrule \in RuleNr
      /\ input' = input /\ m_lookahead_idx' = m_lookahead_idx /\ m_accepted' = m_accepted
      /\ \/ /\ CanReduce(n, Rules[newrule].lhs)
            /\ m_symbols' = Append(SubSeq(m_symbols, 1, Len(m_symbols) - n), node)
            /\ m_dist_to_jump' = n /\ calls' = InLoop /\ stopped' = stopped
         \/ Stop("undefined") /\ calls' = <<>>
  BY DEF Reduce
<1>2. n \in Nat
  BY <1>1, GeneratedAssumption
<1>3. /\ m_accepted' = FALSE /\ Len(calls) \in Nat \ {0} /\ Len(m_symbols) \in Nat
      /\ calls # <<>>
  BY <1>1, RunningAct
<1>4. CASE Stop("undefined") /\ calls' = <<>>
  BY <1>3, <1>4 DEF EInv, Chained, Running, Astray
<1>5. CASE /\ CanReduce(n, Rules[newrule].lhs)
           /\ m_symbols' = Append(SubSeq(m_symbols, 1, Len(m_symbols) - n), node)
           /\ m_dist_to_jump' = n /\ calls' = InLoop /\ stopped' = stopped
  <2>1. /\ Chained(calls') /\ calls' # <<>> /\ Len(calls') = Len(calls)
        /\ ~ Running("act")' /\ closure' = closure
        /\ \A i \in 1 .. Len(calls) : calls'[i].closure = calls[i].closure
    BY <1>1, <1>5, LoopLost
  <2>2. /\ n <= Len(m_symbols) /\ n < Len(calls)
        /\ JumpOf(calls[Len(calls) - n].closure, Rules[newrule].lhs) # ERROR_VAL
    BY <1>5 DEF CanReduce
  <2>3. node.sym = Rules[newrule].lhs
    BY DEF P!Reduced
  <2>4. PICK S : m_symbols \in Seq(S)
    BY <1>3 DEF EInv
  <2> HIDE DEF n, node
  <2>5. /\ m_symbols' \in Seq(S \cup {node}) /\ Len(m_symbols') = Len(m_symbols) - n + 1
        /\ m_symbols'[Len(m_symbols')] = node
    <3>1. Len(m_symbols) - n \in 0 .. Len(m_symbols)
      BY <1>2, <1>3, <2>2
    <3>2. /\ SubSeq(m_symbols, 1, Len(m_symbols) - n) \in Seq(S \cup {node})
          /\ Len(SubSeq(m_symbols, 1, Len(m_symbols) - n)) = Len(m_symbols) - n
      BY <2>4, <3>1, Prefix
    <3>. QED
      BY <1>5, <3>2
  <2>6. topsym' = Rules[newrule].lhs
    BY <2>3, <2>5 DEF topsym
  <2>7. Landing' = Len(calls) - n /\ Landing' \in 1 .. Len(calls)
    BY <1>2, <1>3, <1>5, <2>1, <2>2 DEF Landing
  <2>8. JumpOf(calls'[Landing'].closure, topsym') # ERROR_VAL
    BY <2>1, <2>2, <2>6, <2>7
  <2>9. Rejected' => Astray'
    <3> SUFFICES ASSUME Rejected PROVE Astray'
      BY <1>5 DEF Rejected
    <3>1. Len(calls) - 1 > Len(m_symbols)
      <4>1. ~ Deaf(closure)
        BY <1>1, GeneratedAssumption DEF Deaf, newrule
      <4>2. Adrift(Len(calls) - 1, closure)
        BY <1>1, RunningAct
      <4>. QED
        BY <1>3, <4>1, <4>2 DEF Adrift
    <3>2. Landing' > Len(m_symbols') /\ Landing' \in Int /\ Len(m_symbols') \in Int
      BY <1>2, <1>3, <2>5, <2>7, <3>1
    <3>3. Adrift(Landing, JumpOf(calls[Landing].closure, topsym))'
      BY <3>2 DEF Adrift
    <3>4. WillJump'
      BY <2>7, <2>8, <3>3 DEF WillJump, JumpOf
    <3>. QED
      BY <1>2, <1>3, <1>5, <2>1, <3>4 DEF Astray
  <2>. QED
    BY <2>1, <2>5, <2>9 DEF EInv
<1>. QED
  BY <1>1, <1>4, <1>5

LEMMA CallJumpLost == ASSUME RInv, EInv, CallJump PROVE EInv'
<1> DEFINE f == [closure |-> JumpOf(closure, topsym), pc |-> "act"]
<1>1. /\ Running("jump") /\ m_dist_to_jump = 0 /\ m_symbols # <<>> /\ topsym \in NonTerminal
      /\ JumpOf(closure, topsym) # ERROR_VAL /\ calls' = Append(calls, f)
      /\ input' = input /\ m_lookahead_idx' = m_lookahead_idx /\ m_symbols' = m_symbols
      /\ m_dist_to_jump' = m_dist_to_jump /\ m_accepted' = m_accepted /\ stopped' = stopped
  BY DEF CallJump, Looping
<1>2. calls \in Seq(Frame) /\ calls # <<>> /\ Len(calls) \in Nat \ {0} /\ Chained(calls)
  <2>1. calls \in Seq(Frame) /\ calls # <<>> /\ Chained(calls)
    BY <1>1 DEF RInv, Running, EInv
  <2>. QED
    BY <2>1
<1>3. closure \in State /\ f \in Frame /\ f.closure = JumpOf(closure, topsym) /\ f.pc = "act"
  <2>1. closure \in State
    <3>1. calls[Len(calls)] \in Frame
      BY <1>2
    <3>. QED
      BY <3>1 DEF closure, Frame
  <2>2. JumpOf(closure, topsym) \in State
    BY <1>1, <2>1, GeneratedAssumption DEF JumpOf
  <2>. QED
    BY <2>1, <2>2 DEF Frame
<1>4. Goto(calls[Len(calls)].closure, topsym) = f.closure
  <2>1. topsym \notin Terminal
    BY <1>1, GeneratedAssumption
  <2>. QED
    BY <1>3, <2>1 DEF Goto, JumpOf, closure
<1> HIDE DEF f
<1>5. Chained(calls')
  BY <1>1, <1>2, <1>3, <1>4, ChainedCall
<1>6. /\ Len(calls') = Len(calls) + 1 /\ calls' # <<>> /\ calls'[Len(calls')] = f
      /\ calls'[Len(calls)] = calls[Len(calls)]
  BY <1>1, <1>2, <1>3
<1>7. closure' = f.closure /\ topsym' = topsym /\ m_lookahead' = m_lookahead
  BY <1>1, <1>6 DEF closure, topsym, m_lookahead
<1>8. CalledForTop'
  <2>1. Len(calls') - 1 = Len(calls) /\ Len(calls') > 1
    BY <1>2, <1>6
  <2>2. JumpOf(calls'[Len(calls') - 1].closure, topsym') = closure'
    BY <1>3, <1>6, <1>7, <2>1 DEF closure
  <2>. QED
    BY <2>1, <2>2 DEF CalledForTop, JumpOf
<1>9. Rejected' => Astray'
  <2> SUFFICES ASSUME Rejected PROVE Astray'
    BY <1>1 DEF Rejected
  <2>1. m_accepted = FALSE /\ (WillJump \/ GaveUp)
    BY <1>1 DEF EInv, Astray, NonTerminalOnTop
  <2>2. Len(m_symbols) \in Nat
    BY <1>2 DEF EInv
  <2>3. Adrift(Len(calls), JumpOf(closure, topsym))
    <3>1. CASE WillJump
      <4>1. Landing = Len(calls)
        BY <1>1, <1>2 DEF Landing
      <4>. QED
        BY <3>1, <4>1 DEF WillJump, closure
    <3>2. CASE GaveUp
      BY <1>2, <2>2, <3>2 DEF GaveUp, Adrift
    <3>. QED
      BY <2>1, <3>1, <3>2
  <2>4. Len(calls') - 1 = Len(calls)
    BY <1>2, <1>6
  <2>5. Adrift(Len(calls) - 1, closure)'
    BY <1>1, <1>3, <1>7, <2>3, <2>4 DEF Adrift, Deaf
  <2>6. ~ Running("jump")'
    BY <1>3, <1>6 DEF Running
  <2>. QED
    BY <1>1, <2>1, <2>5, <2>6 DEF Astray
<1>10. \E S : m_symbols' \in Seq(S)
  BY <1>1, <1>2 DEF EInv
<1>. QED
  BY <1>5, <1>8, <1>9, <1>10 DEF EInv

LEMMA ReturnLost == ASSUME RInv, EInv, Return PROVE EInv'
<1>1. /\ Running("jump") /\ ~ Looping /\ calls' = SubSeq(calls, 1, Len(calls) - 1)
      /\ m_dist_to_jump' = IF m_dist_to_jump > 0 THEN m_dist_to_jump - 1 ELSE 0
      /\ input' = input /\ m_lookahead_idx' = m_lookahead_idx /\ m_symbols' = m_symbols
      /\ m_accepted' = m_accepted /\ stopped' = stopped
  BY DEF Return
<1>2. /\ calls \in Seq(Frame) /\ calls # <<>> /\ Chained(calls)
      /\ \A i \in 1 .. Len(calls) - 1 : calls[i].pc = "jump"
  BY <1>1 DEF RInv, Running, EInv
<1>3. /\ calls' \in Seq(Frame) /\ Len(calls') = Len(calls) - 1 /\ Len(calls) \in Nat \ {0}
      /\ \A i \in 1 .. Len(calls) - 1 : calls'[i] = calls[i]
  BY <1>1, <1>2, PopCall
<1>4. Chained(calls')
  <2>1. Len(calls') <= Len(calls) /\ \A i \in 1 .. Len(calls') : calls'[i].closure = calls[i].closure
    BY <1>3
  <2>. QED
    BY ONLY <1>2, <1>3, <2>1, ChainedPart
<1>5. ~ Running("act")'
  <2> SUFFICES ASSUME calls' # <<>> PROVE calls'[Len(calls')].pc # "act"
    BY DEF Running
  <2>1. Len(calls') \in 1 .. Len(calls) - 1
    BY <1>3
  <2>. QED
    BY <1>2, <1>3, <2>1
<1>6. topsym' = topsym /\ m_lookahead' = m_lookahead /\ (NonTerminalOnTop' <=> NonTerminalOnTop)
  BY <1>1 DEF topsym, m_lookahead, NonTerminalOnTop
<1>7. \E S : m_symbols' \in Seq(S)
  BY <1>1, <1>2 DEF EInv
<1>8. Rejected' => Astray'
  <2> SUFFICES ASSUME Rejected PROVE Astray'
    BY <1>1 DEF Rejected
  <2>1. m_accepted = FALSE /\ m_dist_to_jump \in Nat /\ (NonTerminalOnTop => WillJump \/ GaveUp)
    BY <1>1 DEF EInv, Astray
  <2>2. Len(m_symbols) \in Nat
    BY <1>2 DEF EInv
  <2>3. ASSUME NonTerminalOnTop PROVE WillJump'
    <3>1. CASE m_dist_to_jump > 0
      <4>1. WillJump
        BY <2>1, <2>3, <3>1 DEF GaveUp
      <4>2. Landing' = Landing /\ Landing \in 1 .. Len(calls) - 1
        BY <1>1, <1>3, <2>1, <3>1, <4>1 DEF Landing, WillJump
      <4>3. calls'[Landing] = calls[Landing]
        BY <1>3, <4>2
      <4>. QED
        BY <1>1, <1>6, <4>1, <4>2, <4>3 DEF WillJump, JumpOf, Adrift, Deaf
    <3>2. CASE m_dist_to_jump = 0
      <4>1. ~ HasLoop
        BY <1>1, <2>1, <2>3, <3>2 DEF Looping, NonTerminalOnTop
      <4>2. Landing = Len(calls) /\ Landing' = Len(calls) - 1
        BY <1>1, <1>3, <3>2 DEF Landing
      <4>3. ~ WillJump
        BY <2>3, <4>1, <4>2 DEF WillJump, HasLoop, NonTerminalOnTop, closure
      <4>4. /\ Deaf(closure) /\ Len(calls) > Len(m_symbols) /\ Len(calls) > 1
            /\ JumpOf(calls[Len(calls) - 1].closure, topsym) = closure
        BY <2>1, <2>3, <4>3 DEF GaveUp, CalledForTop
      <4>5. closure # ERROR_VAL
        <5>1. calls[Len(calls)] \in Frame
          BY <1>2, <1>3
        <5>. QED
          BY <5>1, GeneratedAssumption DEF closure, Frame
      <4>6. calls'[Len(calls) - 1] = calls[Len(calls) - 1]
        BY <1>3, <4>4
      <4>7. Adrift(Len(calls) - 1, closure) /\ Len(calls) - 1 >= 1
        BY <1>3, <2>2, <4>4 DEF Adrift
      <4>. QED
        BY <1>1, <1>6, <4>2, <4>4, <4>5, <4>6, <4>7 DEF WillJump, JumpOf, Adrift, Deaf
    <3>. QED
      BY <2>1, <3>1, <3>2
  <2>4. m_dist_to_jump' \in Nat
    BY <1>1, <2>1
  <2>. QED
    BY <1>1, <1>5, <1>6, <2>1, <2>3, <2>4 DEF Astray
<1>. QED
  BY <1>4, <1>5, <1>7, <1>8 DEF EInv

LEMMA EInvInit == ASSUME RecAscInit PROVE EInv
<1>1. calls = <<>> /\ stopped = <<>>
  BY DEF RecAscInit
<1>. QED
  BY <1>1 DEF EInv, Chained, Running, Rejected

LEMMA EInvStutter == ASSUME EInv, UNCHANGED vars PROVE EInv'
<1>1. /\ calls' = calls /\ stopped' = stopped /\ m_symbols' = m_symbols /\ m_accepted' = m_accepted
      /\ m_dist_to_jump' = m_dist_to_jump /\ input' = input /\ m_lookahead_idx' = m_lookahead_idx
  BY DEF vars
<1>2. /\ topsym' = topsym /\ closure' = closure /\ Landing' = Landing /\ m_lookahead' = m_lookahead
  BY <1>1 DEF topsym, closure, Landing, m_lookahead
<1>3. (CalledForTop' <=> CalledForTop) /\ (NonTerminalOnTop' <=> NonTerminalOnTop)
  BY <1>1, <1>2 DEF CalledForTop, NonTerminalOnTop, JumpOf
<1>4. (WillJump' <=> WillJump) /\ (GaveUp' <=> GaveUp)
  BY <1>1, <1>2, <1>3 DEF WillJump, GaveUp, Adrift, Deaf, JumpOf
<1>5. Astray' <=> Astray
  BY <1>1, <1>2, <1>3, <1>4 DEF Astray, Running, Adrift, Deaf
<1>. QED
  BY <1>1, <1>3, <1>5 DEF EInv, Running, Rejected

LEMMA EInvNext == ASSUME RInv, EInv, [RecAscNext]_vars PROVE EInv'
<1>1. Rest => UNCHANGED vars
  BY DEF Rest
<1>. QED
  BY <1>1, ParseLost, ShiftLost, AcceptLost, ReduceLost, NoBranchLost, CallJumpLost, ReturnLost,
     EInvStutter DEF RecAscNext

-----------------------------------------------------------------------------
(* The theorems. *)

\* Whatever an earlier call of Parse has left behind, and whether the input is a
\* sentence or not, the generated functions shift, reduce, accept and give up only
\* as the table-driven parser does: the call stack can stand for the state stack.
THEOREM ImplementsTables == RecAscSafeSpec => P!ParserSafeSpec
<1>1. RecAscInit => P!ParserInit
  BY InitMapped
<1>2. RInv /\ [RecAscNext]_vars => [P!ParserNext]_(P!vars)
  BY EveryStep
<1>. QED
  BY <1>1, <1>2, RInvAlways, PTL DEF RecAscSafeSpec, P!ParserSafeSpec

\* The answer is that of the table-driven parser, also while functions return or call
\* each other behind it: a tree that was accepted stays, and a rejected input is
\* not accepted by a function that is called for a symbol the second time.
THEOREM AnswersStand == RecAscSafeSpec => []AnswerStands
<1>1. RecAscInit => EInv
  BY EInvInit
<1>2. RInv /\ EInv /\ [RecAscNext]_vars => EInv'
  BY EInvNext
<1>3. RInv /\ EInv => AnswerStands
  BY DEF RInv, EInv, AnswerStands, AcceptanceStands, Rejected, Astray
<1>. QED
  BY <1>1, <1>2, <1>3, RInvAlways, PTL DEF RecAscSafeSpec
=============================================================================
