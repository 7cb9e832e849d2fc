# TLA+ specifications of lr1

lr1 is an LR(1) parser generator (`src/parsergen`), a table-driven parser and
compiler for a small script language on top of it (`src/codegen`,
`src/examples/script.cpp`), and a virtual machine that runs the compiled scripts
(`src/vm`). This directory holds TLA+ modules for its parts, the TLC
configurations that check them on small instances, and proofs for all instances
that TLAPS checks. Paths below are relative to `src/` of the repository.

## The system and its parts

A grammar goes through the generator once: FIRST and FOLLOW sets, closures, a
collection of closures, parse tables. A script goes through lexer, parser, code
generator and virtual machine. The parts meet in data: tables, token vectors,
syntax trees and byte code. Only the virtual machine is concurrent.

| part | state | operations | what makes it correct | hard because |
|---|---|---|---|---|
| VM core, `vm/vm.cpp` | registers ip, sp, bp, gbp; byte memory; code range | `Run`: pointer check, interrupt scan, one opcode per round | calls and returns nest, operands are read as what they were written, an overflow stops before damaged code runs, programs leave their result | frames, operands and code share one memory with no tags but those the code writes; long sequences of legal opcodes |
| Interrupts and timer, `vm/vm.cpp` | `m_irqs`, `m_isrs`, `m_timer_running`, `m_timer_thread` | `StartTimer`, `StopTimer`, `TimerFunc`, `RequestInterrupt`, `SetISR`, the scan in `Run`, `~VM` | no thread is replaced or destroyed unjoined, no served interrupt is lost, a routine is transparent for what it interrupts | two threads, every shared access a step; interrupts between any two opcodes |
| External functions, `vm/vm_extfuncs.cpp` | the VM's | `set_isr`, `set_timer`, `sleep`, output, input, numeric functions | they take their arguments and no more | they change the interrupt state in the middle of a program |
| Table-driven parser, `codegen/parser.cpp` | stack of states, stack of nodes, input index | `Parse`: throw, accept, shift, reduce | two stacks in step, every reduction a derivation step, only and all sentences accepted, errors found at the first wrong token, ends | correctness rests on a property of tables computed elsewhere |
| Symbols, FIRST and FOLLOW, `parsergen/symbol.*` | sets per nonterminal | `calc_first`, `calc_follow`, `RemoveLeftRecursion` | equal the textbook sets, ends | mutual recursion, empty rules, left recursion |
| Elements and closures, `parsergen/lr1_element.*`, `lr1_closure.*` | elements with core and look-aheads | `AddElement`, `AddLookaheads`, `DoTransition`, `GetComefromTerminals` | the closure is complete and independent of any order | recursion that changes the containers being iterated; iteration order of hash sets |
| Collections and tables, `parsergen/lr1_collection.cpp` | closures, transitions, conflict solutions | `DoTransitions`, `DoLALRTransitions`, `ConvertToLALR`, `ConvertToSLR`, `CreateParseTables` | both ways to the LALR collection agree, every cell is decided by a rule or reported | merging closures already left; conflict rules that overlap |
| LL(1) tables, `parsergen/ll1.cpp` | table | `CalcTable` | a cell has one rule | empty rules |
| Recursive-ascent parsers, `parsergen/parsergen.cpp` | call stack of closure functions, `m_symbols`, `m_dist_to_jump`, `m_accepted` | what `CreateParser` writes: `Parse`, `GetNextLookahead`, one function per closure | does what the table-driven parser does, the answer survives the returns, ends | the state stack is the C++ call stack; members outlive a call of `Parse` |
| Lexer, `codegen/lexer.cpp` | input stream, longest match, comment and string flags, line | `get_next_token`, `get_all_tokens`, `get_lexer_matching_tokens` | longest match, right lines | a character is put back and read again; some patterns only keep the search going |
| Syntax tree, `codegen/ast.h` | nodes | constructors, `cst_to_ast`, `DeriveDataType` | types are known when code is generated | two passes in place |
| Code generator, `codegen/ast_asm.cpp`, `sym.h` | symbol table, stack offsets, loop and function patch lists | one visitor per node, `PatchFunctionAddresses`, `FinishCodegen` | rejects just what is ill-formed, jumps land where the script says, variables do not overlap | back-patching over nested loops and functions, with lists that are filled and emptied along the visits |
| Script compiler, `examples/script.cpp` | none of its own | grammar, semantic rules, the order of the passes | the above together | |

## Modules

`Interrupts` is the interrupt protocol, and `VM` extends it: each of its actions
is what an instruction does to registers and memory together with the action of
`Interrupts` that the instruction performs. `LRParser` is the parser over
constant tables and implements `Derivation`; `ParseTrees` extends it by the sentences
of the grammar and says which tables are complete. `Elements` holds what is read off
a rule with a cursor; `Closure` and `Collection` extend it. `Closure` models the
steps of `AddElement`; in `Collection` the closure of some elements is a parameter,
which `LocalClosures` gives with `AddElement` as one step. `Tables` extends
`Collection`, so that tables come from closures in one behaviour, and `LL1`
extends `FirstFollow` in the same way. `RecAscent` implements `LRParser`. A
script goes through `Script` (semantic rules), `SyntaxTree` and `CodeGen`;
`Compiler` composes them. The code consists of the objects of module `Objects`,
which `VM` shares, so the machine runs what the compiler model generates; `Values`
has what the machine computes with them. A module ending in `_proofs` holds
theorems about the one it extends; one that begins with `MC` is an instance for
TLC. Definitions marked "(mutant)" are wrong on purpose: PROJECT.json pairs each
with the property that then fails.

### Interrupts

Variables have the names of the members; `run` and `irq` are the program
counter of the thread in `VM::Run`, `m_timer_thread` that of `VM::TimerFunc`.
Every access to a shared member is one step: testing a flag (`PollClear`,
`PollSet`), resetting it (`ClearIrq`), entering the routine (`EnterIsr`); the
timer thread's loop test, sleep and request. `StopTimer` clears the flag and
waits (`JoinTimer`), from `set_timer` with a negative delay and from the
destructor. `RequestInterrupt` is called by the program that embeds the machine
on its own lines. `lateTicks` is a history variable: timer routines entered
while no timer thread exists.

`m_timer_running` is a plain `bool` read and written by two threads. The read is
the condition of a loop whose body calls functions the compiler cannot see
through, so it is loaded once per round; the model takes it as such.

### VM, Values

`vm` holds the registers, the memory and how `Run` ended. Memory maps the
address of an object's first byte to the object. An object is a typed value as
`PushData` and `WriteMemData` write it (descriptor and payload), an opcode, or
the bare byte of a boolean; sizes are those of the code, and writing an object
destroys those it overlaps. A read that does not meet an object of a type the
code accepts there ends in `OperandError`: by an exception if what is there has a
descriptor, which the code looks at; otherwise the machine may also take the bytes
for something else, which is `undefined`. So are an integer division by zero and a
shift by more than the width. Addresses, the
65-byte variable slots, the 256-byte frames and the padding of 41 bytes above
the first global are the real ones. The programs of the runs are scripts, compiled
by `CodeGen`; two are written by hand, since scripts have no explicit casts and
no rotations.

`Values` has the conversions and operators. A real number is a multiple of 1/2,
counted in halves: enough for fractions to be cut off by `TOI` and to be seen in
text, and exact, so that nothing has to be said about rounding. `m_eps` is the
distance up to which two of them are equal; its default is smaller than any
distance here and is 0. Bit operations work on the 64 bits of an integer, sums and
products do not overflow. An external function is an action; its arguments are
converted in their places before they are popped (`Converted`), since the text of
a number is longer than the number and is written below it.

Opcodes are actions named after them. `CALL` and the entry of a service routine
share `CallFunction`, as they share the code in `Run`. `calls` is a history
variable: what each active call interrupted.

Objects that were popped, and the locals of a closed frame, are dropped. The
bytes stay in the machine's memory, below the stack pointer; a program that
reads them reads what it has not written, which the model shows as `undefined`.

Nothing in `VM::Run` keeps an instruction from writing or popping what belongs to
another frame; that the generated code does not is a matter of the compiler.
`Disciplined` states it instruction by instruction: `WRMEM` writes a global
variable, a local of the active frame or one of its arguments (`WritesVariable`);
operands lie in the active frame, also those of a program that ends in an
exception (`TakesOwnOperands`); `RET` ends a call and removes that call's arguments
and no more (`RemovesOwnArguments`); and what an external function converts an
argument to fits into the bytes popped since the instruction began
(`ConversionsFit`), below which `PushRaw` writes after the pointer check of this
round and before that of the next. `RoutinesQuiet` says which functions can be
service routines: those without arguments and value that write nothing that was
there before. `RunsToEnd` contains both, so run `vm` shows that its scripts keep
them as the compiler translates them.

Not modelled: other real numbers and the overflow of integers, the text that is
printed, `m_zeropoppedvals`, and `m_checks = false`, which no program of the
repository sets.

### LRParser, Derivation, ParseTrees, Language

`LRParser` has one action per branch of the loop in `Parser::Parse`. Grammar,
automaton and tables are constants. What `Parse` relies on is stated by
`TablesAssumption`: the tables belong to an automaton over sets of items, items
come over transitions, a reduce entry has a finished item, a closure in which a
rule starts has a jump for the rule's left-hand side, and no cell has two
entries. A node is its symbol, the rule that made it and the part of the input
it stands for. Popping too far or a missing jump, which the code does not check,
leads to the result `undefined`.

`Derivation` is the abstract specification: a sentential form in which a
right-hand side is replaced by its left-hand side. The refinement maps the node
stack followed by the unread tokens to the form.

`ParseTrees` has nothing of the code: it is what a parser is measured by. A
sentence comes with its tree (`IsTree`), whose nodes are numbered in the order in
which a bottom-up parser makes them. `CompleteAssumption` is the other half of what
the tables are: `TablesAssumption` says that every entry has its reason in
an item, completeness that every item with its look-ahead has its entries. A state
leads on with the symbol behind the cursor, has the rules of that symbol with all
terminals that may stand behind it (`FirstBehind`, the textbook's FIRST of a string),
and reduces where the cursor is at the end. `MCStmts` computes
the look-aheads along the automaton and TLC finds the generated tables complete.

`Language` computes the sentences of a grammar, and their prefixes, up to a
length, by expanding its rules. Only TLC uses it; in `MCStmts` it has to have the same
sentences as the trees.

### Elements, Closure

An element without its look-aheads is a core, a pair of rule and cursor. The
calls of `Closure::AddElement` are a stack, `frames`; a step is one turn of the
loop over the look-aheads (`NextLookahead`, which makes the next call), the end
of that loop (`NextRule`) or of the call (`Return`). The loop iterates the set
of the element the call was given. If the call stored this element
(`at # 0`), deeper calls insert look-aheads into the set that is being iterated,
which is what `Interrupted` is about: below the size at which the set rehashes
the loop may or may not visit the new ones, and a rehash changes the order of
the set, so that any may be left out. `BucketLimit` is that size.

The references to elements that `AddElement` keeps across calls are to shared
objects and stay valid when the vector of elements grows; the model therefore
names an element by its index and says no more about memory.

### Collection, Tables

`mode` says what is asked for: the LR(1) collection, the LALR(1) collection
made directly (`DoLALRTransitions`) or from the LR(1) one (`ConvertToLALR`), or
the SLR(1) collection. The recursion over closures is a stack of calls again:
`NewClosure` goes into a closure, `OldClosure` meets one that has been seen and
in the LALR case unites its look-aheads and redoes its transitions. Closures are
objects, named by the number they get when created; their `id`, which
`Simplify` changes, is a component. What is compared is a set of cores in the
LALR case, a set of elements with their look-aheads in the LR(1) case: what the
hashes stand for. `LocalClosure` is a constant operator: the recursion that
computes a closure is in `LocalClosures`, which the runs substitute for it, and the
theorems assume of it `LocalClosureCorrect`, those about completeness also
`LocalClosureExact`. That the hash of an element also depends on the order in
which its look-aheads are iterated is left out (see Disagreements), and so are
collisions.

`Tables` is `CreateParseTables`. `FillTables` fills the rows, `ResolveCell`
resolves one conflict. `Listing` is the explicit solution, `ByOperators` the one
by precedence and associativity; `Found` is what both together apply, as in the
code. `setup` holds what the caller passes. Cells of one state are looked at in
any order, which only decides which conflict is reported by the exception.

### FirstFollow, LL1

The maps have the names of the members. One call of `calc_first` or
`calc_follow` is a frame; a step treats one symbol of a rule, or one use of a
nonterminal. `At` and `Put` are the subscript operator of the maps, which makes
an empty entry for a key that is missing. The order of the nonterminals is any (`Ordered`),
since the callers build their lists by hand. `RemoveLeftRecursion` works
on the grammar before. The numbers of semantic rules are left out, and so what
`CalcTable` does with a rule that has none; a table entry is a rule's place.

`LL1` fills the table and runs the recursive-descent parser that
`PrintRecursiveDescentPseudocode` prints: `functions` is its call stack. The
parser is run on token vectors after its grammar has been analysed.

### RecAscent

The program that `CreateParser` writes, as a function of the tables. `calls` is
the C++ call stack: a function has its branches for the look-ahead in front of
it (`Shift`, `Accept`, `Reduce`, `NoBranch`) or is in its loop (`CallJump`,
`Return`). A reduction cannot pop frames, so it sets `m_dist_to_jump`, and that
many functions return before the loop of the next one calls the jump's closure
(`Landing`). `Parse` is a member function that may be called again: `Leftover`
holds what earlier calls may leave in the members, among them a call that ended
by an exception of a semantic rule.

The refinement to `LRParser` reads the state stack off the call stack. Between a
reduction and its jump the functions that are still to return do not count and
the closure of the jump does. `stopped` is a history variable: the mapped parser
when the first function accepted or gave up. The functions behind it still run,
and what they do must not change the answer.

### Objects, SyntaxTree, Script, CodeGen, Compiler

`Script` has the grammar of `script.cpp` and its semantic rules. A script is
given as a derivation, which is what the parser reduces; `ScriptSyntax` writes
derivations down. `SyntaxTree` has the nodes and the two passes in front of the
code generator.

In `CodeGen`, a visitor method is an operator from the generator `g` to the
generator behind it, and an exception is `g.error`, behind which nothing
changes. `m_ostr` is the stream as a sequence of objects; positions are byte
addresses computed from their sizes. A place to be patched is the number of the
object that is missing its address. `VisitLoop`, `VisitFunc` and
`VisitCondition` are split at the visits of their children (`BeginLoop`,
`EndLoop` and so on). `Compiler` makes one statement of the script a step, then
one call to be patched, then the end.

The assembly text, which the same visitor methods write in their other mode, and
`m_always_call_ext`, which no program sets, are left out, and so are the branches for
a `break` whose depth is no integer and for an operator without opcodes, which
no script reaches.

`ScriptFlow` says what a script means without generating code: whether it is
well-formed, and which point of execution may follow which (`TreeFlow`). A point
is seen by the number it evaluates. The same relation is read off the code
(`CodeFlow`), where a jump that does not land on an instruction shows as `wild`.

### Lexer

A step is one character, or one return of `get_next_token`. The patterns are the
languages of the regular expressions in `get_lexer_matching_tokens`, tried in the
same order, with those that match a prefix of a number (`0x`, `0b`). Putting a
character back is not taking it. The value of a number is its text; only whether
its conversion throws is modelled. Escapes in strings are not replaced. Words
for operators (`or`, `and`, `xor`) are letters, so they match as identifiers
first, as in the code.

## Runs

| run | instance | bounds | states |
|---|---|---|---|
| `interrupts` | 3 lines, 2 routine addresses | all counters are bounded by the protocol | 25,824 |
| `vm` | 24 programs, 1 line, 1,344 bytes, 2 numbers that may be typed | none but the programs | 171,223 |
| `vm_locals` | a function with four locals | ends in a violation | few |
| `parser` | statement lists of `examples/script.cpp`, LR(1) tables | prefixes of sentences up to 8 tokens, alone or with one more token | 6,549 |
| `recasc` | the same, 3 leftovers of earlier calls | the same | 15,793 |
| `recasc_errors` | the same | ends in a violation | few |
| `closure` | three grammars in one, 7 kernels | sets of up to 13 look-aheads | 1,762 |
| `closure_rehash` | the same, a set rehashes at its fourth member | ends in a violation | few |
| `tables` | 4 grammars, 4 collections each, 5 ways to settle conflicts | none but the grammars | 1,088 |
| `ll1` | 5 grammars, their nonterminals in every order | token vectors of up to 4 tokens for the parser | 21,386 |
| `codegen` | 3,448 scripts | shapes of the scripts, `MCCompiler` | 13,783 |
| `lexer` | texts of four kinds | up to 4 pieces (3 for operators and words) | 55,887 |

`interrupts` checks the protocol under weak fairness of both threads: the
operating system schedules them, and each sleep ends. Nothing is assumed of the
program or of the embedding program. Three lines are enough for a line before,
at and behind a given one; two addresses for a routine that is replaced.

`vm` runs each program with its timer at every possible speed: the timer thread
may request its interrupt between any two steps, so the service routine is
entered between any two instructions, also inside calls, and routines interrupt
routines until the memory is exhausted. The memory has room for a few nested frames
besides the program's own, so that exhaustion is reached and caught; each
program with a result gets to it when it is not interrupted so often (`RunsToEnd`,
which also says that all programs keep the discipline described above).
The programs are the scripts of `script_tests` with the loops cut short, and further
ones for calls of earlier and later functions, recursion, nested loops left by
`break` with a depth, every operator on every type it takes, every external
function, and a name of none. Seven scripts are accepted by the compiler and cannot finish:
one recurses without end, one uses the value of an assignment, which leaves none,
one passes a function to `sleep`, two mix integers and real numbers where the
compiler inserts no cast, one divides by zero and one shifts too far. No
fairness is assumed of the machine, and no liveness is claimed: an interrupt
routine may starve the program.

Deadlock is checked in every run: the machine stops only when it is destroyed
(`Dead`), the others only in their last actions (`Done`, `Stopped`, `Rest`).

`parser` and `recasc` run on the same inputs: every prefix of a sentence, alone
or followed by any token. No parser reads behind the first token it cannot use,
so longer wrong inputs show nothing new. Eight tokens hold an `if` with an empty
and one with an `else` branch nested in it, and reach every state and cell.
`parser` also asks what acceptance means: only sentences are accepted and only
their beginnings are shifted (`ShiftsOnlySentences`); an error comes at a token
with which no sentence goes on, and never earlier (`NoSentenceRejected`). The tables are
those of `DoTransitions(false)`; with the look-aheads of an LALR collection the
first part would hold for shifted tokens all the same, since a default
reduction shifts nothing. `Terminates` assumes weak fairness of the parser's own
step: the loop runs until it returns or throws.

`recasc` shows that the generated functions implement `LRParser` with its
fairness: they get to an answer, and it is that of the tables
(`Implements`). It then follows the functions that are still active behind the
answer: `AnswerStands`, and `UnwindingEnds` under weak fairness of the
functions' own steps. That they return after every erroneous input is not so,
which is what `recasc_errors` shows.

`closure` compares the closure with the least closed set of items, in every
order of iteration that valid iterators allow. The kernels are first closures
and closures after a transition; the grammars have left recursion, left
recursion by way of a second nonterminal (a call deep in the recursion then
inserts into the set of the outermost one), and rules that may be empty. No set
exceeds 13 members, the largest size the GNU library keeps without a rehash.
`ClosureTerminates` assumes weak fairness of the calls: they run.

`tables` follows each way from a grammar to its tables. `CollectionCorrect`
compares all four collections with the textbook's.
`FitForParser` is what `LRParser` and `RecAscent` assume, and `CompleteForParser`
what `ParseTrees` assumes of tables that were made without a conflict: an item is
carried on by the entry for its next symbol, its state has what it implies, and
a finished one is reduced. Two of the four grammars have no conflict, one is LR(1)
without being LALR(1), and one is ambiguous. The orders in which
hash sets are iterated matter only for which look-back terminal is asked first;
one order, `TermOrder`, is taken.

`ll1` checks that FIRST and FOLLOW have nothing that the textbook's have not, at any
time and for every order of the nonterminals (`MCSetsSound`), and what they lack at
the end (`SetsComplete`). In five of the eight grammars they lack nothing. The
other three are about entries that the subscript makes while the set is still
being calculated. `left` is `tests/left_recursion.cpp`: `As` begins with itself and may be
empty, the rule `As -> As A` reads the empty entry of `As` and stops, and FIRST of
`As` lacks `a`, which the property says of every rule that begins with its own nonterminal:
it adds nothing. In `begin` and `end` a call inside the one for S reads
S's unfinished entry, and its own result lacks what S gets later; in
some orders of the nonterminals it is made again by a call outside, in the others the
loss stays. The history variable `early` in `MCLL1` records who reads an unfinished entry of
another call, and only such a call may lack something else. Each of the three
exceptions is needed. The grammar
`layered` is also analysed after its left recursion has been removed;
`statements` is not LL(1), and the cells with two candidates are part of
`TableIsParser`. Four tokens are enough for one operator and one parenthesis.

`codegen` compiles all scripts of four shapes and some single ones: two
statements, each simple or with a block of one (so that every visitor method
stands inside and behind every other one); three definitions and calls of two
functions in every order, with wrong numbers of arguments, definitions made
twice and external declarations; a loop with an `if`-`else` in a function; three
nested loops that are left in all ways, also by more levels than there are.
`ErrorsExact` says that what the lists and tables of the generator decide agrees
with the script, and `FlowPreserved` that the code executes it in the orders it
asks for. The scripts of `vm` show on top of this that values get where they
belong.

`lexer` reads every text of up to four pieces. Numbers are made of the pieces
`0 1 2 b x .`, strings, comments and lines of quotes, `#`, newlines, blanks and
tokens; three pieces are enough for operators of one and two characters and for
words, with a piece behind. `LongestMatches` compares with a reference that
knows the whole rest of the text.

### Disagreements the runs show

* `vm_locals`: the diagram of the stack frame in `vm/vm.cpp` has all locals
  inside the frame; it has room for three, and the fourth lies among the
  function's operands.
* `closure_rehash`: `AddElement` iterates a hash set into which its own
  recursion inserts. With the GNU library the 14th look-ahead rehashes the set.
  Many are then never visited and the closure is not closed. The instance has
  few terminals and rehashes at the fourth, which is the only thing scaled.
* `recasc_errors`: a closure function without a branch for the look-ahead returns
  with `m_dist_to_jump` 0 into the loop of its caller, which then calls it again.
  For `expr ; }` closures 0 and 1 alternate without end, where the table-driven
  parser throws.

Met while modelling, without a run:

* Collections. The hash of an element depends on the order in which its
  look-aheads were inserted, so `DoTransitions(true)` makes closures twice; the
  tables are correct but larger. A conflict settled by a listed solution is
  settled again by the precedences, and if these disagree both entries go.
* FIRST and FOLLOW. FIRST of a left-recursive nonterminal that may be empty
  lacks what follows it (`tests/left_recursion.cpp` has one), and the sets of
  nonterminals that begin or end with each other depend on the order in which the
  caller lists them. Run `ll1` has instances of both, and `SetsComplete` allows just
  these losses. `HasEpsRule` sees
  only a direct epsilon rule. Both recursions do not end for some grammars:
  `calc_first` with indirect left recursion (unless a rule that begins with its own
  nonterminal has made an entry before), `calc_follow` when two nonterminals
  end with each other, as after removing the left recursion of
  `expr -> expr op expr`. The instances hold grammars on which they end.
  `RemoveLeftRecursion` clears the rules but not their semantic numbers (`ClearRules`), so
  those added behind stay assigned to the old rules.
* Code generator. A function defined inside a loop clears `m_cur_loop`: a later
  `break` of that loop is refused, and the end of the loop pops from an empty
  list. Functions and variables share the look-up by name, a second definition
  replaces the first, and `!` has no opcode, so `ErrorsExact` counts it among what is
  rejected. The value of an expression statement stays on the stack. A global
  variable may take 65 bytes and the padding above the first is 41 bytes.
* Types. The type of a variable is not known where it is used, and that of a call is
  taken from its arguments: `1.5 + a` with an integer `a`, and `sqrt(4) + 1`, get no
  cast and end in a type mismatch. `^` of two integers is 0, and `-` of two
  strings the empty one: `OpArithmetic` has no branch for them. A string variable
  has 65 bytes, whatever is assigned to it; 60 characters fit.
* Lexer. `[` is a token but no terminal of the grammar, and gets table index 0;
  `~` is a terminal but no token. `or`, `and` and `xor` are read as identifiers.
  `0x` alone is the number 0, `0b2` ends in an exception of the standard library,
  and a string that is still open at the end of the text is dropped.

## Proofs

* `VM_proofs` begins with module `Interrupts`: it proves `IntrTypeOK`, `NoThreadAbandoned` and
  `AtMostOneLateTick` for every number of lines and every set of routines. The
  two safety properties are not inductive. The invariant adds where the thread
  can be while the executing thread waits for it, that a thread is attached
  whenever the flag is set, and that a pending late request and a counted one
  exclude each other. It then proves that every step of the machine is a step of the interrupt
  protocol or leaves its variables alone, for every program, memory and frame
  size; the protocol's theorems then hold of the machine. For programs that are
  `Disciplined` it proves `CallChain` and `CodeIntact`, and with `RoutinesQuiet`
  also `InterruptTransparent`. None of them is inductive: that a link survives an
  instruction depends on where the instruction writes, and that on how the frames
  lie. `VMInv` says that the frames are disjoint and in the order of the calls
  (`Nested`), that the operands of the active frame begin where the frame ends, and
  that every frame's saved registers are in memory, and that the code is intact or
  the stack pointer has passed its end (`Standing`); that a machine in the middle of a round has not failed, and behind the pointer
  check has its pointers in bounds. An overflow between two checks may have destroyed
  code, but never a link: a push goes to lower addresses, and all links lie above
  the active operands (`StepStands`). For transparency `Kept` adds that
  all memory above what a service routine interrupted is what the call
  remembers, for each active call of a routine. `FrameStepStands` and `CallStands`
  are what the opcodes share, `RetStands` what `RET` does with the chain. How far
  `Skip` gets over several objects is a recursive function of the memory; `Iterates`
  and `SkipSteps` unfold it.
* `LRParser_proofs` proves the safety properties of `parser` (apart from those
  about the grammar's language), `ParserTypeOK` and `AcceptedWhole` for every
  grammar, all tables that satisfy the assumptions, and every input, and that
  the parser implements `Derivation`. `StackIsPath` says what the stacks are but
  not why a reduction finds its handle. The invariant adds `ItemsOK`: an item
  with cursor d in a state of the stack has been carried there over the first d
  symbols of its rule, so the item's beginning is in the state d below and those
  symbols are the nodes on top of it (`HandleOnStack`). It is kept by `PushOK` and
  `PopOK`. `SpansOK` states the order of the spans for every pair of nodes, so
  that no induction along the stack is needed when several are popped.
* `ParseTrees_proofs` proves what a parser is for, for every grammar, complete tables
  and input. `SentencesAccepted` is `NoSentenceRejected`: as long as what has been
  read is how a sentence begins the parser goes on, and it accepts at the
  sentence's end. The invariant says that it follows the sentence's tree
  (`Parsed`): m nodes of the tree have been made; the stack holds the roots among
  them, in order (`Roots`); the current token is the one behind node m; and every open
  node, one that begins by now and is not made yet, is waited for (`Waiting`): its
  first d children are on top of one another, and its rule, with the cursor behind them
  and with the token that stands behind the node, is in the state above them.
  That the tree and the stack agree is not enough: the state on top also has to
  have the entry for the next node, which may be reduced many steps after the closure
  was entered in which its rule began. `OpenedOnTop` finds the rule of a node that begins
  where the stack ends, down along the first children, by completeness of each
  closure; `FirstRight` shows that the token behind a node is in the FIRST set
  of what the open node expects next; `CarriedOn` moves the elements of open nodes over a new node.
  The tree's nodes are numbered, so induction over it is the choice of a
  least or greatest number (`LeastNumber`, `GreatestNumber`).
  `AcceptsOnlySentences` is the converse. Its invariant is that the nodes on the stack
  are the roots of trees built from the tokens read so far (`Built`), which a shift
  extends by a leaf and a reduction by a node (`TokenGrown`, `RuleGrown`). Together: if the
  tables are complete, `Parse` accepts exactly the sentences.
* `Closure_proofs` proves `ClosureTypeOK`, `CoresUnique` and soundness
  (`ClosureSound`: the items of the closure lie in every closed set that
  holds the kernel) for every grammar, every kernel and every `BucketLimit`, thus
  also for runs in which sets rehash. The invariant `CInv` says of each call
  that it works on rules of the nonterminal at its cursor, that the element it
  stored has kept its core, and that the look-aheads it has still to visit are
  among those of its element; `AddElementGrows` is what one call may do to the
  elements. For soundness every element, also one that only a call holds, stays
  within the closed set (`WithinInv`).
  It also proves the converse, `Complete`: whenever `AddElement`
  has returned to `DoLocal`, the closure holds the kernel and is closed, for every
  finite grammar, kernel and order of iteration, if the terminals are at most
  `BucketLimit` (`NoRehash`; `MCClosure.cfg` satisfies it, `MCRehash.cfg` does not
  and refutes the property). A call's stored element can grow behind its back, so
  "every item is closed" fails while calls are active. The invariant accounts for
  each item instead (`Accounted`): for every rule it implies, the items are there,
  or some call stands at that item and still owes the rule (`Owes`). What a call
  stored keeps its look-aheads (`Kept`), and of the kernel each element is there or
  still to be added (`KernelAdded`). When no call is left nobody owes anything.
  A third invariant, `KernelInv`, gives `ClosureOfItsKernel`: whatever the order
  of iteration, also with a rehash, the closure has its kernel's cores, and all
  else in it belongs to the beginning of a rule that is called for.
* `Collection_proofs` proves `ComefromsExact` for every grammar and all four ways to
  a collection, and `NoStaleClosure`: a closure whose look-aheads have grown is
  not left with the transitions made for the old ones. What the closures remember is easy to
  state and not inductive: `Simplify` renumbers them, `ConvertToLALR` looks the new
  ones up by the ids of the old. The invariant `CollInv` has three parts. `LRInv`:
  the closures are told apart by what the cache compares; the transitions that
  the calls of `DoTransitions` have still to make lead over the next symbol to
  what the closure implies (`FramesOK`), and for every closure and every symbol
  behind a cursor of it there is a transition whose target holds all that is
  implied, or a call that will make it (`AllCovered`). A closure whose look-aheads
  grow loses its cover, and the call that made them grow takes its place.
  `ConversionInv`: each old closure seen so far is mapped to a new one with the
  same cores, which has the comefroms of all that are mapped to it. `ResultInv` is
  what `CreateParseTables` finds: ids are places, every transition leads over its
  symbol, every symbol behind a cursor has one, and the conflicts of the result
  have been reported. `Simplify` orders by ids; that this numbers the closures
  from 0 without a gap rests on lemmas about how many members of a finite set are
  below a given one (`RankOnto`, `PlaceOnto`).
  It also proves that nothing is lost on the way to a collection
  (`CollectionComplete`): the first closure has the start rule with the end behind it,
  closures are closed, and a transition carries its items on. `CollInv` has the last
  part for finished closures; that closures are closed has to survive the look-aheads
  added later. `Going` says that every closure, also one that a call is still to add,
  is closed and has a look-ahead for each core, and that every transition leads to what
  the cache would find for it now, whatever has been added at either end since. Uniting
  two closed sets of items with the same cores gives a closed one (`UnitedFilled`). For a
  conversion, closures with the same cores have to lead to closures with the same cores
  (`JoinedTargets`), or the new closure could not carry on what it has united. While a conversion
  runs, a new closure has exactly the items of the old ones mapped to it
  (`Gathered`); SLR replaces look-aheads by FOLLOW sets, which are closed under the
  rules (`SlrLosesNothing`).
* `Tables_proofs` proves `FitForParser` and `ConflictsReported` for every grammar,
  every way to a collection, every list of solutions, precedences and
  associativities. `TabInv` says of a call of `CreateParseTables` that an entry is
  that of the collection or has been taken away, and that a cell with both entries
  is still to be looked at (`CellsLeft`). `FitForParser` has each clause of
  `LRParser!TablesAssumption`, read with the rule of the start symbol for rule 0, and
  the empty cells for the end of `RecAscent!GeneratedAssumption`; that cursors lie in
  their right-hand sides is the type of elements. The rest of
  `AcceptAssumption` follows: a state that accepts has `<<start, 1>>`, so where the
  transition to it starts there is `<<start, 0>>`, and that is state 0. The theorems
  about the two parsers so apply to what the generator returns. For this the
  invariant of the collection says that in every closure but the first whatever
  begins a rule is called for by another element (`AllCalledFor`), which the rule of
  the start symbol never is. `TablesComplete` is `CompleteForParser`, every clause of
  `ParseTrees!CompleteAssumption` that is about the tables: without a reported conflict no
  entry is taken away (`Untouched`), so a cell has what the collection says, and only one item
  can be reduced there (`ReducesFinished`). Together with `SentencesAccepted` and
  `AcceptsOnlySentences`: for every grammar whose tables are made without a conflict,
  `Parse` accepts exactly its sentences.
* `RecAscent_proofs` proves that the generated functions implement the
  table-driven parser (`ImplementsTables`, the safety part of `Implements`) for
  every grammar, all tables without conflicts and every input, so the
  parser's safety theorems hold of them too, and that nothing they do behind their answer
  changes it (`AnswersStand`). The invariant
  `RInv` relates the two stacks: a function in its branches has as many callers
  as there are symbols (`ActOK`), and behind a reduction the function that will
  jump is as deep as the node it jumps over and has an entry for it (`JumpOK`);
  all functions but the running one are in their loops. Behind a rejected input
  a function that has given up may call the closure of the symbol on top a second
  time, one level deeper, where other branches exist: the functions go on with a
  stack that fits no parse. `EInv` says why none accepts. From then on there are
  more functions than symbols (`Adrift`), reductions and shifts keep the difference,
  and a closure that accepts stands second on a stack of calls that leads from
  closure 0 over transitions (`Chained`), which would leave it without a symbol. Up
  to that point either the same function is called for the same look-ahead again or
  a terminal is on top and all return.
* `LL1_proofs` proves, for every grammar and order of its nonterminals, that the
  FIRST and FOLLOW sets are sound at every time of the analysis
  (`SetsAlwaysSound`: they lie in every pair of sets closed under the rules, so
  in the least one), and that the printed parser enters the rule of the table's
  cell and fails only where the table has no entry (`ParserFollowsTable`, for
  every input). Soundness needs that what an unfinished call has found is sound,
  and that `calc_first` has passed only nonterminals that may be empty
  (`FirstFramesSound`); that epsilon stands alone in its rule; and that every
  nonterminal has its FIRST entry before `calc_follow` looks it up without a test,
  so `FirstMade` follows each one from the list over the oldest call to the map.
  The parser needs that the look-ahead never gets past the end symbol
  (`InputOK`). Both are proved of analyses that begin with `calc_first`. That
  `RemoveLeftRecursion` makes a grammar satisfying the assumptions is left to
  TLC: its `SelectSeq` is a recursion over the rules. Completeness of the sets is
  false for some grammars (see Disagreements) and is checked on the instances.

Assumptions: `NumInterruptsAssumption`, `NoIsrAssumption`; for the machine
`SizesAssumption` and `CodeAssumption` (the sizes are numbers, code is a sequence of
objects that take bytes), and the discipline as a hypothesis of the theorems, which
includes that objects in memory take bytes: the length of a number's text is left
open in the proofs; for the parser
`SymbolsAssumption`, `TablesTypeAssumption`, `TablesAssumption` and
`InputsAssumption`; for its sentences `SentencesAssumption` (each has a tree),
`FirstAssumption` (what may be empty, and what a symbol begins with, are closed under
the rules) and `CompleteAssumption`; for the generated parser `GeneratedAssumption` and
`AcceptAssumption` (closure 0 is no target and leads to the closures that accept,
which follows from what the parser assumes of the items); for closures
`GrammarAssumption` and `ClosureAssumption`; for LL(1) another `GrammarAssumption` and
`InputsAssumption`; for collections and tables `CollectionAssumption`,
`EpsilonAssumption` (epsilon stands alone in its rule), `EndAssumption` (no rule
contains the end), `StartAssumption` (the start
symbol has one symbol behind it and occurs in no rule, and its follow set is the
end) and `TablesAssumption`. The grammars of the repository are written like this;
without `EpsilonAssumption`, a cursor stops in front of an epsilon and the next symbol is
looked for behind it. The theorems about collections and tables have the hypothesis
`LocalClosureCorrect`: a closure has one element for a core and is that of its kernel.
`UniqueCores` and `ClosureOfItsKernel` prove this of the steps of `AddElement`;
of `LocalClosures!ClosureOf`, which is recursive, TLC evaluates it for the kernels of
one and two elements of the instances (`ClosuresAsAssumed`). Completeness of
closures is not needed there, so these theorems also hold where a set has rehashed.
`CollectionComplete` and `TablesComplete` need it and have three hypotheses more:
`LocalClosureExact` (the closure of elements with look-aheads is the least closed
set around them, which `ClosureSound` and `ClosureComplete` prove of the steps of
`AddElement` as long as no set rehashes), `FirstNonempty` (a nonterminal that can begin
with nothing, not even epsilon, leaves elements without a look-ahead) and `FollowClosed`
(FOLLOW sets are closed under the rules). TLC evaluates the first for the same kernels
and the others for the instances' sets (`SetsAsAssumed`).
`GrammarAssumption` of `FirstFollow` says that the list of nonterminals is
the whole grammar, since the code looks up a FIRST set without testing that it is there.
TLC evaluates them in every run of the module.

Only model-checked: the liveness properties (`StopTimerReturns`,
`TimerInterruptServed`, `Terminates`, `ClosureTerminates`, `UnwindingEnds`, the
fairness part of `Implements`; TLAPS does not prove liveness under fairness), the
results of the machine's programs (`RunsToEnd`, `ResultUndisturbed`), which depend on
the code the compiler makes of a script, that what `Parse` has shifted can be
continued to a sentence (`ShiftsOnlySentences`; its other half is the theorem
`AcceptsOnlySentences`), which needs that every rule can produce something, and the
other properties of `FirstFollow`, `LL1`, `Compiler` and `Lexer` and
`CollectionCorrect`, which rest on recursive operators or compare with recursively computed sets.

## Plan

Done, in this order: `Interrupts`, `VM`, `LRParser` and `Derivation` with their
proofs, of the machine also that calls and interrupts leave each other's frames
alone; `Closure`, `Collection` and `Tables` against the textbook's definitions, with
proofs about all three; `FirstFollow` and `LL1` with their proofs; `RecAscent` with its
proofs; the compiler, composed with the machine; `Lexer`; `ParseTrees`, with the proofs
that over complete tables `Parse` accepts every sentence and nothing else, and the
proof that tables made without a conflict are complete.

Left: as theorems, that `Lexer` counts lines, stated without the recursive reference; and a
form of the generator's visit without a recursive operator, so that the patching of
its lists can be proved about. As models: the assembly text of the code generator,
with a model of what it is read by.

## Not modelled

The memory image writer, the syntax tree printer, the text output of the
generators, command lines and timing output are pure output. Regular expression
matching is the standard library's and is modelled by languages. The assembly
text that the code generator can write is read by no program of the repository.
`examples/expr_prec.cpp` applies the same library to a grammar of expressions
and evaluates them in its semantic rules; it adds no state. The tests are
programs without assertions that apply the generator to the grammars that
`MCCollection`, `MCTables`, `MCClosure` and `MCLL1` contain. CMake files and
setup scripts carry no logic.
