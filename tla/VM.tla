--------------------------------- MODULE VM ---------------------------------
(***************************************************************************)
(* The zero-address virtual machine: VM::Run with its registers, its byte   *)
(* addressed memory, the call frames it keeps on the stack, and the         *)
(* interrupts of module Interrupts, whose actions every step here performs  *)
(* together with what it does to registers and memory.                     *)
(*                                                                         *)
(* Addresses, object sizes, the stack and the frames are those of the code: *)
(* memory maps the address of an object's first byte to the object, an      *)
(* object occupies SizeOf(o) bytes, and writing one destroys every object   *)
(* it overlaps.  Reading where no object starts, i.e. reinterpreting the    *)
(* bytes of something else, ends a behaviour in the state "undefined".      *)
(* Objects popped from the stack, and the locals of a closed frame, are      *)
(* dropped: their bytes are below m_sp and whoever reads them has not        *)
(* written them.                                                            *)
(* What is computed with values is in module Values.  Left out:              *)
(* m_zeropoppedvals, which clears the bytes of what is popped.              *)
(***************************************************************************)
EXTENDS Interrupts, Values, Integers, Sequences, SequencesExt, TLC

CONSTANTS
    m_memsize,          \* size of the memory in bytes
    m_framesize,        \* size of a function's stack frame in bytes
    Inputs,             \* numbers that may be typed
    CodeOf,             \* for each program the opcodes and operands of its code
    ResultOf            \* for each program the value it leaves on the stack

Programs == DOMAIN CodeOf

ASSUME SizesAssumption == m_memsize \in Nat /\ m_framesize \in Nat
ASSUME CodeAssumption ==
    \A p \in Programs : \A objects \in {CodeOf[p]} :
        /\ DOMAIN objects = 1 .. Len(objects) /\ Len(objects) \in Nat
        /\ \A n \in DOMAIN objects : SizeOf(objects[n]) \in Nat \ {0}

\* sizeof(t_data) + 1, the padding above the first global variable
GlobalPadding == 41
m_gbp == m_memsize - GlobalPadding

VARIABLES
    vm,                 \* [ip, sp, bp, eps, mem, state]; eps is m_eps
    prog,               \* the program that was loaded
    code,               \* its code in memory, and the end of m_code_range
    calls               \* history: what each active call interrupted

machineVars == <<vm, prog, code, calls>>
vars == <<m_irqs, m_isrs, m_timer_running, m_timer_thread, run, irq, lateTicks,
          vm, prog, code, calls>>

-----------------------------------------------------------------------------
(* Memory. *)

\* CheckMemoryBounds
InMemory(a, size) == 0 <= a /\ a + size <= m_memsize

\* WriteMemRaw: the object replaces what it overlaps.
WriteObject(mem, a, o) ==
    LET kept == {b \in DOMAIN mem :
                    b + SizeOf(mem[b]) <= a \/ a + SizeOf(o) <= b}
    IN  [b \in {a} \cup kept |-> IF b = a THEN o ELSE mem[b]]

Drop(mem, addrs) == [a \in DOMAIN mem \ addrs |-> mem[a]]

IsObject(a, types) == a \in DOMAIN vm.mem /\ vm.mem[a].ty \in types

\* The address behind the n-th object from address a upwards; it stays put
\* where no object starts.
Skip(a, n) ==
    LET skip[k \in 0 .. n] ==
            IF k = 0 THEN a
            ELSE skip[k - 1] + IF skip[k - 1] \in DOMAIN vm.mem
                               THEN SizeOf(vm.mem[skip[k - 1]]) ELSE 0
    IN  skip[n]

-----------------------------------------------------------------------------
(* The stack of vm; object 0 is on top. *)

ObjAddr(k) == Skip(vm.sp, k)
Obj(k)     == vm.mem[ObjAddr(k)]

\* PopAddress adds the register an address is relative to, as it is after the
\* opcode was fetched and the address popped.
Absolute(o, sp) ==
    o.val + CASE o.ty = "ADDR_IP"  -> vm.ip + m_bytesize
              [] o.ty = "ADDR_SP"  -> sp
              [] o.ty = "ADDR_BP"  -> vm.bp
              [] o.ty = "ADDR_GBP" -> m_gbp
              [] OTHER             -> 0

AddressOnTop == Absolute(Obj(0), ObjAddr(1))

\* PushRaw of the payload, then of the descriptor, at stack pointer m.sp.  The
\* bounds are checked with the stack pointer before it moves.
Push(m, o) ==
    IF m.state # "ok" \/ ~ InMemory(m.sp, PayloadSize(o))
    THEN [m EXCEPT !.state = "exception"]
    ELSE IF m.sp < SizeOf(o) THEN [m EXCEPT !.state = "undefined"]
    ELSE [m EXCEPT !.sp  = @ - SizeOf(o),
                   !.mem = WriteObject(@, m.sp - SizeOf(o), o)]

\* The machine past an opcode that popped n objects.
Popped(n) ==
    [vm EXCEPT !.ip  = @ + m_bytesize,
               !.sp  = ObjAddr(n),
               !.mem = Drop(@, {ObjAddr(k) : k \in 0 .. n - 1})]

-----------------------------------------------------------------------------
(* The checks of the run loop. *)

\* SetMem(0, program, true): the objects of the code are written one after
\* the other from address 0 on, and the code range ends after the last one.
Load(objects) ==
    LET end[n \in 0 .. Len(objects)] ==
            IF n = 0 THEN 0 ELSE end[n - 1] + SizeOf(objects[n])
        starts == {end[n - 1] : n \in DOMAIN objects}
    IN  [mem |-> [a \in starts |-> objects[CHOOSE n \in DOMAIN objects : end[n - 1] = a]],
         end |-> end[Len(objects)]]

\* (mutant) the stack pointer is not checked
PointersInBoundsNoSp ==
    /\ vm.ip \in 0 .. m_memsize /\ vm.ip < code.end
    /\ \A p \in {vm.bp, m_gbp} : p \in code.end .. m_memsize

\* CheckPointerBounds, with the code range starting at address 0.
PointersInBounds ==
    /\ vm.ip \in 0 .. m_memsize /\ vm.ip < code.end
    /\ \A p \in {vm.sp, vm.bp, m_gbp} : p \in code.end .. m_memsize

Opcode == IF IsObject(vm.ip, {"OP"}) THEN vm.mem[vm.ip].val ELSE "NONE"

\* The types of the operands an opcode pops, from the top down.
IntType  == {"INT"}
BoolType == {"BOOL"}
Numbers  == {"INT", "REAL"}

ArithmeticOps == {"ADD", "SUB", "MUL", "DIV", "MOD", "POW"}
ComparisonOps == {"GT", "LT", "GEQU", "LEQU", "EQU", "NEQU"}
LogicalOps    == {"AND", "OR", "XOR"}
BinaryOps     == {"BINAND", "BINOR", "BINXOR", "SHL", "SHR", "ROTL", "ROTR"}
CastTo        == [TOI |-> "INT", TOF |-> "REAL", TOS |-> "STR"]

Opcodes ==
    ArithmeticOps \cup ComparisonOps \cup LogicalOps \cup BinaryOps \cup DOMAIN CastTo
        \cup {"WRMEM", "RDMEM", "JMP", "JMPCND", "CALL", "RET", "EXTCALL", "USUB", "NOT", "BINNOT",
              "NOP", "HALT", "PUSH"}

\* Instructions without operands of their own are those with an empty entry.
Operands ==
    [op \in Opcodes |->
        CASE op \in ArithmeticOps \cup ComparisonOps -> <<ValueTypes, ValueTypes>>
          [] op \in LogicalOps                      -> <<BoolType, BoolType>>
          [] op \in BinaryOps                       -> <<IntType, IntType>>
          [] op \in DOMAIN CastTo                   -> <<DataTypes>>
          [] op = "WRMEM"                           -> <<AddrTypes, ValueTypes>>
          [] op \in {"RDMEM", "JMP", "CALL"}        -> <<AddrTypes>>
          [] op = "JMPCND"                          -> <<AddrTypes, BoolType>>
          [] op \in {"RET", "BINNOT"}               -> <<IntType>>
          [] op = "EXTCALL"                         -> <<{"STR"}>>
          [] op = "USUB"                            -> <<Numbers>>
          [] op = "NOT"                             -> <<BoolType>>
          [] op \in {"NOP", "HALT", "PUSH"}         -> <<>>]

OperandsAre(types) ==
    \A k \in DOMAIN types : IsObject(ObjAddr(k - 1), types[k])

\* Two values have to be of one type.
OperandsFit(op) ==
    /\ OperandsAre(Operands[op])
    /\ op \in ArithmeticOps \cup ComparisonOps => Obj(0).ty = Obj(1).ty

\* How a round ends whose operands are of other types than these: what has a
\* descriptor is recognised and makes the instruction throw, but a boolean is
\* taken from any byte, and where no object starts any byte is a descriptor.
MisfitStates(types) ==
    IF \A k \in DOMAIN types :
           types[k] # BoolType /\ IsObject(ObjAddr(k - 1), DataTypes \cup {"UNKNOWN"})
    THEN {"exception"} ELSE {"exception", "undefined"}

\* code is chosen from a set of one member, so that Load is evaluated once.  The
\* default of m_eps is below all differences of numbers here.
VMInit ==
    /\ IntrInit
    /\ prog \in Programs
    /\ code \in {Load(objects) : objects \in {CodeOf[prog]}}
    /\ vm = [ip |-> 0, sp |-> m_memsize - m_framesize, bp |-> m_gbp, eps |-> 0,
             mem |-> code.mem, state |-> "ok"]
    /\ calls = <<>>

-----------------------------------------------------------------------------
(* Steps of the executing thread. *)

\* The wrap-around at the end of a round.
Wrapped(m) == IF m.ip > m_memsize THEN [m EXCEPT !.ip = @ % m_memsize] ELSE m

\* The machine becomes m; Run goes on or ends with the exception.
Commit(m) ==
    /\ vm' = Wrapped(m)
    /\ UNCHANGED <<prog, code>>
    /\ IF m.state = "ok" THEN Execute ELSE Leave

\* Run ends in the given state.
Fail(state) ==
    /\ Leave
    /\ vm' = [vm EXCEPT !.state = state]
    /\ UNCHANGED <<prog, code, calls>>

PointerCheck ==
    /\ run = "head"
    /\ IF PointersInBounds
       THEN BeginScan /\ UNCHANGED machineVars
       ELSE Fail("exception")

ScanStep ==
    /\ PollClear \/ PollSet \/ EndScan \/ ClearIrq
    /\ UNCHANGED machineVars

\* (mutant) the base pointer is saved before the instruction pointer
CallFunctionSwapped(m, addr) ==
    LET saved == Push(Push(m, AddrMem(m.bp)), AddrMem(m.ip))
    IN  [saved EXCEPT !.bp = saved.sp, !.sp = saved.sp - m_framesize, !.ip = addr]

\* CALL: save ip and bp, open a frame for the local variables.
CallFunction(m, addr) ==
    LET saved == Push(Push(m, AddrMem(m.ip)), AddrMem(m.bp))
    IN  [saved EXCEPT !.bp = saved.sp, !.sp = saved.sp - m_framesize, !.ip = addr]

\* What a call leaves in the history: the registers its RET must give back,
\* and the memory above the stack pointer.
Interrupted(m, byIrq) ==
    [ip |-> m.ip, bp |-> m.bp, sp |-> m.sp, byIrq |-> byIrq,
     mem |-> [a \in {b \in DOMAIN m.mem : b >= m.sp} |-> m.mem[a]]]

\* (mutant) the opcode is fetched before the interrupt is taken, and lost
DispatchIsrSkips ==
    /\ run = "dispatch"
    /\ \E m \in {CallFunction([vm EXCEPT !.ip = @ + m_bytesize], m_isrs[irq])} :
           /\ vm' = Wrapped(m)
           /\ UNCHANGED <<prog, code>>
           /\ IF m.state = "ok"
              THEN EnterIsr /\ calls' = Append(calls, Interrupted(vm, TRUE))
              ELSE Leave /\ UNCHANGED calls

\* PushAddress(*m_isrs[irq]) and CALL in place of an instruction.
DispatchIsr ==
    /\ run = "dispatch"
    /\ \E m \in {CallFunction(vm, m_isrs[irq])} :
           /\ vm' = Wrapped(m)
           /\ UNCHANGED <<prog, code>>
           /\ IF m.state = "ok"
              THEN EnterIsr /\ calls' = Append(calls, Interrupted(vm, TRUE))
              ELSE Leave /\ UNCHANGED calls

\* An instruction finds the operands it needs.
Instr(op) == run = "fetch" /\ Opcode = op /\ OperandsFit(op)

\* An opcode that does not exist, or operands of the wrong types.
OperandError ==
    /\ run = "fetch"
    /\ IF Opcode \in DOMAIN Operands
       THEN ~ OperandsFit(Opcode) /\ \E state \in MisfitStates(Operands[Opcode]) : Fail(state)
       ELSE \E state \in {"exception", "undefined"} : Fail(state)

\* (mutant) HALT switches the timer off
HaltStopsTimer ==
    /\ Instr("HALT")
    /\ vm' = [vm EXCEPT !.state = "halted"]
    /\ run' = "left" /\ m_timer_running' = FALSE
    /\ UNCHANGED <<m_irqs, m_isrs, m_timer_thread, irq, lateTicks, prog, code, calls>>

Halt == Instr("HALT") /\ Fail("halted")

Nop ==
    /\ Instr("NOP")
    /\ Commit(Popped(0))
    /\ UNCHANGED calls

\* A value of another type is replaced; an address is left as it is.
Cast == \E op \in DOMAIN CastTo :
    /\ Instr(op)
    /\ Commit(IF Obj(0).ty \in ValueTypes \ {CastTo[op]}
              THEN Push(Popped(1), OpCast(Obj(0), CastTo[op])) ELSE Popped(0))
    /\ UNCHANGED calls

\* PUSH: the operand follows the opcode; an argument index becomes the
\* argument's address relative to the base pointer.
PushDirect ==
    /\ Instr("PUSH")
    /\ LET at   == vm.ip + m_bytesize
           o    == vm.mem[at]
           next == [vm EXCEPT !.ip = at + SizeOf(o)]
       IN  IF IsObject(at, DataTypes) THEN Commit(Push(next, o))
           ELSE IF IsObject(at, {"ADDR_BP_ARG"})
           THEN Commit(Push(next, [ty |-> "ADDR_BP", val |-> Skip(vm.bp, o.val) - vm.bp]))
           ELSE Fail("undefined")
    /\ UNCHANGED calls

Wrmem ==
    /\ Instr("WRMEM")
    /\ IF InMemory(AddressOnTop, SizeOf(Obj(1)))
       THEN Commit([Popped(2) EXCEPT !.mem = WriteObject(@, AddressOnTop, Obj(1))])
       ELSE Fail("exception")
    /\ UNCHANGED calls

Rdmem ==
    /\ Instr("RDMEM")
    /\ IF ~ InMemory(AddressOnTop, m_bytesize) THEN Fail("exception")
       ELSE IF IsObject(AddressOnTop, DataTypes)
       THEN Commit(Push(Popped(1), vm.mem[AddressOnTop]))
       ELSE Fail("undefined")
    /\ UNCHANGED calls

Usub ==
    /\ Instr("USUB")
    /\ Commit(Push(Popped(1), [Obj(0) EXCEPT !.val = - @]))
    /\ UNCHANGED calls

OpArithmetic == \E op \in ArithmeticOps :
    /\ Instr(op)
    /\ IF Divides0(op, Obj(1), Obj(0)) THEN Fail("undefined")
       ELSE Commit(Push(Popped(2), Arithmetic(op, Obj(1), Obj(0))))
    /\ UNCHANGED calls

OpComparison == \E op \in ComparisonOps :
    /\ Instr(op)
    /\ Commit(Push(Popped(2), Bool(Comparison(op, Obj(1), Obj(0), vm.eps))))
    /\ UNCHANGED calls

OpBinary == \E op \in BinaryOps :
    /\ Instr(op)
    /\ IF ShiftsTooFar(op, Obj(0).val) THEN Fail("undefined")
       ELSE Commit(Push(Popped(2), Int64(Binary(op, Obj(1).val, Obj(0).val))))
    /\ UNCHANGED calls

BinNot ==
    /\ Instr("BINNOT")
    /\ Commit(Push(Popped(1), Int64(- Obj(0).val - 1)))
    /\ UNCHANGED calls

OpLogical == \E op \in LogicalOps :
    /\ Instr(op)
    /\ LET x == Obj(1).val
           y == Obj(0).val
       IN  Commit(Push(Popped(2), Bool(CASE op = "AND" -> x /\ y
                                         [] op = "OR" -> x \/ y
                                         [] op = "XOR" -> x # y)))
    /\ UNCHANGED calls

Not ==
    /\ Instr("NOT")
    /\ Commit(Push(Popped(1), Bool(~ Obj(0).val)))
    /\ UNCHANGED calls

Jmp ==
    /\ Instr("JMP")
    /\ Commit([Popped(1) EXCEPT !.ip = AddressOnTop])
    /\ UNCHANGED calls

JmpCnd ==
    /\ Instr("JMPCND")
    /\ Commit(IF Obj(1).val THEN [Popped(2) EXCEPT !.ip = AddressOnTop] ELSE Popped(2))
    /\ UNCHANGED calls

Call ==
    /\ Instr("CALL")
    /\ \E m \in {CallFunction(Popped(1), AddressOnTop)} :
           /\ Commit(m)
           /\ calls' = IF m.state = "ok"
                       THEN Append(calls, Interrupted(Popped(1), FALSE)) ELSE calls

\* (mutant) an empty operand stack counts as a value
ValueLeftOrNone == ObjAddr(1) + m_framesize <= vm.bp

\* Operands are left below the frame once RET has popped the argument count.
ValueLeft == ObjAddr(1) + m_framesize < vm.bp

\* (mutant) the arguments stay on the stack
CallerSpKeepsArgs(num_args) == Skip(vm.bp, 2)

\* The stack pointer behind the saved registers and the arguments.
CallerSp(num_args) == Skip(vm.bp, 2 + num_args)

\* A returned value keeps its type descriptor, except that an address gets one
\* that nothing can pop.
Returned(o) == IF o.ty \in AddrTypes THEN [ty |-> "UNKNOWN", val |-> o.val] ELSE o

\* RET takes the number of arguments, and the return value if there is one; it
\* closes the frame, restores bp and ip, removes the arguments and pushes the
\* value.
Ret ==
    /\ Instr("RET")
    /\ LET caller == CallerSp(Obj(0).val)
           gone   == {a \in DOMAIN vm.mem : a \in vm.sp .. caller - 1}
           frame  == [vm EXCEPT !.ip  = vm.mem[Skip(vm.bp, 1)].val,
                                !.bp  = vm.mem[vm.bp].val,
                                !.sp  = caller,
                                !.mem = Drop(@, gone)]
           intact == /\ IsObject(vm.bp, {"ADDR_MEM"})
                     /\ IsObject(Skip(vm.bp, 1), {"ADDR_MEM"})
                     /\ \A k \in 1 .. Obj(0).val : IsObject(Skip(vm.bp, k + 1), DataTypes)
       IN  IF ~ intact \/ (ValueLeft /\ ~ IsObject(ObjAddr(1), DataTypes))
           THEN Fail("undefined")
           ELSE /\ Commit(IF ValueLeft THEN Push(frame, Returned(Obj(1))) ELSE frame)
                /\ calls' = IF calls # <<>> THEN Front(calls) ELSE calls

-----------------------------------------------------------------------------
(* CallExternal: the name is on top of the arguments, the first of them on     *)
(* top of the others.                                                      *)

\* An argument is converted in its place before it is popped: the machine m, with
\* the converted argument pushed and popped again.
Converted(m, o) ==
    LET pushed == Push(m, o)
    IN  IF pushed.state # "ok" THEN pushed
        ELSE [pushed EXCEPT !.sp = m.sp, !.mem = Drop(@, {pushed.sp})]

\* The functions, and the types each converts its arguments to.
ExternalFunctions ==
    {"set_isr", "set_timer", "sleep", "print", "println", "set_eps", "get_eps", "pow", "sqrt",
     "sin", "cos", "tan", "input_int", "input_real"}
ArgTypes ==
    [name \in ExternalFunctions |->
        CASE name = "set_isr"                               -> <<"INT", "ADDR">>
          [] name = "pow"                                   -> <<"REAL", "REAL">>
          [] name \in {"set_timer", "sleep"}                -> <<"INT">>
          [] name \in {"print", "println"}                  -> <<"STR">>
          [] name \in {"get_eps", "input_int", "input_real"} -> <<>>
          [] OTHER                                          -> <<"REAL">>]

\* The k-th argument is popped from the machine m as its type; an address is
\* popped as it is.
PopArg(m, k) ==
    LET type   == ArgTypes[Obj(0).val][k]
        popped == [m EXCEPT !.sp = ObjAddr(k + 1), !.mem = Drop(@, {ObjAddr(k)})]
    IN  IF m.state # "ok" THEN m
        ELSE IF type \in {Obj(k).ty, "ADDR"} THEN popped
        ELSE Converted(popped, OpCast(Obj(k), type))

\* The machine past EXTCALL, the name and its arguments.
Consumed ==
    LET num_args == Len(ArgTypes[Obj(0).val])
        past[k \in 0 .. num_args] == IF k = 0 THEN Popped(1) ELSE PopArg(past[k - 1], k)
    IN  past[num_args]

\* What an argument of the given type may be before the conversion.
Accepted(types) == [k \in DOMAIN types |-> IF types[k] = "ADDR" THEN AddrTypes ELSE ValueTypes]

\* A call of one of the functions; arguments that cannot be converted make it throw.
ExtCall(names, effect) ==
    /\ Instr("EXTCALL") /\ Obj(0).val \in names
    /\ LET needed == <<{"STR"}>> \o Accepted(ArgTypes[Obj(0).val])
       IN  IF OperandsAre(needed) THEN effect
           ELSE \E state \in MisfitStates(needed) : Fail(state)

\* What a function returns is pushed.
Return(m, o) == Commit(IF m.state = "ok" THEN Push(m, o) ELSE m) /\ UNCHANGED calls

\* set_isr(line, routine)
RegisterIsr ==
    LET num     == ToInt(Obj(1))
        routine == Absolute(Obj(2), ObjAddr(3))
        m       == Consumed
    IN  IF m.state # "ok" THEN Fail(m.state)
        ELSE IF num \in Irq /\ routine \in IsrAddr
        THEN /\ vm' = Wrapped(m)
             /\ SetISR(num, routine)
             /\ UNCHANGED <<prog, code, calls>>
        ELSE Fail("undefined")
ExtSetIsr == ExtCall({"set_isr"}, RegisterIsr)

\* set_timer(delay)
SetTimer ==
    LET m == Consumed
    IN  IF m.state # "ok" THEN Fail(m.state)
        ELSE /\ vm' = Wrapped(m)
             /\ IF ToInt(Obj(1)) < 0 THEN StopTimerCall ELSE StartTimer
             /\ UNCHANGED <<prog, code, calls>>
ExtSetTimer == ExtCall({"set_timer"}, SetTimer)

\* sleep(delay)
ExtSleep == ExtCall({"sleep"}, Commit(Consumed) /\ UNCHANGED calls)

\* print(text), println(text)
ExtPrint == ExtCall({"print", "println"}, Commit(Consumed) /\ UNCHANGED calls)

\* set_eps(eps), get_eps()
ExtSetEps ==
    ExtCall({"set_eps"},
            Commit([Consumed EXCEPT !.eps = ToReal(Obj(1))]) /\ UNCHANGED calls)
ExtGetEps == ExtCall({"get_eps"}, Return(Consumed, Half(vm.eps)))

\* pow(base, exponent); the functions of one real number, where they have a
\* value that is a multiple of 1/2.
ExtPow ==
    ExtCall({"pow"},
            Return(Consumed, Half(HalvesPow(ToReal(Obj(1)), ToReal(Obj(2))))))
RealFunction(name, x) ==
    CASE name = "sqrt"                -> CHOOSE r \in 0 .. x + 1 : r * r = 2 * x
      [] name = "cos" /\ x = 0        -> 2
      [] name \in {"sin", "tan"} /\ x = 0 -> 0
ExtReal ==
    ExtCall({"sqrt", "sin", "cos", "tan"},
            Return(Consumed, Half(RealFunction(Obj(0).val, ToReal(Obj(1))))))

\* input_int() and input_real(): what is typed, or 0 if that is no number.
ExtInput ==
    ExtCall({"input_int", "input_real"},
            \E n \in Inputs :
                Return(Consumed, IF Obj(0).val = "input_int" THEN Int64(n) ELSE Half(2 * n)))

\* A name that is unknown calls nothing, and its arguments stay.
ExtUnknown ==
    /\ Instr("EXTCALL") /\ Obj(0).val \notin ExternalFunctions
    /\ Commit(Popped(1))
    /\ UNCHANGED calls

Extcall ==
    \/ ExtSetIsr \/ ExtSetTimer \/ ExtSleep \/ ExtPrint \/ ExtSetEps \/ ExtGetEps
    \/ ExtPow \/ ExtReal \/ ExtInput \/ ExtUnknown

-----------------------------------------------------------------------------
InstructionStep ==
    \/ Halt \/ Nop \/ Cast \/ PushDirect \/ Wrmem \/ Rdmem \/ Usub \/ Not \/ BinNot
    \/ OpArithmetic \/ OpComparison \/ OpLogical \/ OpBinary \/ Jmp \/ JmpCnd
    \/ Call \/ Ret \/ Extcall \/ OperandError

VMThread ==
    \/ PointerCheck \/ ScanStep \/ DispatchIsr \/ InstructionStep
    \/ (JoinTimerCall \/ DestructorStop \/ DestructorJoin) /\ UNCHANGED machineVars

VMNext ==
    \/ VMThread
    \/ TimerFunc /\ UNCHANGED machineVars
    \/ Dead /\ UNCHANGED machineVars

VMSpec == VMInit /\ [][VMNext]_vars

-----------------------------------------------------------------------------
(* Properties *)

\* Bytes CALL pushes for the saved registers, and where they start.
SavedSize == 2 * (m_bytesize + m_addrsize)
FrameBase(c) == c.sp - SavedSize

\* The frame of the n-th active call, or of the program itself for n = 0: the
\* address its base pointer has, and where its operands begin, downwards.
BaseOf(n)     == IF n = 0 THEN m_gbp ELSE FrameBase(calls[n])
OperandsOf(n) == IF n = 0 THEN m_memsize - m_framesize ELSE BaseOf(n) - m_framesize
Depth         == Len(calls)

\* WRMEM writes a variable: a local one or a global one, or an argument.
WritesVariable ==
    Instr("WRMEM") =>
        LET Within(low, high) == AddressOnTop \in low .. high - SizeOf(Obj(1))
        IN  \/ Depth > 0 /\ Within(OperandsOf(Depth), BaseOf(Depth))
            \/ Within(OperandsOf(0), m_memsize)
            \/ Depth > 0 /\ Within(BaseOf(Depth) + SavedSize, OperandsOf(Depth - 1))

\* An instruction takes its operands from the active frame, and RET removes the
\* arguments of the call it ends.
TakesOwnOperands ==
    \A op \in DOMAIN Operands : Instr(op) =>
        LET args == IF op = "EXTCALL" /\ Obj(0).val \in ExternalFunctions
                    THEN Len(ArgTypes[Obj(0).val]) ELSE 0
        IN  ObjAddr(Len(Operands[op]) + args) <= OperandsOf(Depth)
RemovesOwnArguments ==
    Instr("RET") => /\ Depth > 0
                    /\ CallerSp(Obj(0).val) \in BaseOf(Depth) + SavedSize .. OperandsOf(Depth - 1)

\* An argument of an external function has room for what it is converted to, in
\* the bytes of what was popped since the instruction began.
ConversionsFit ==
    Instr("EXTCALL") /\ Obj(0).val \in ExternalFunctions =>
        \A k \in DOMAIN ArgTypes[Obj(0).val] :
            LET type == ArgTypes[Obj(0).val][k]
            IN  Obj(k).ty \in ValueTypes /\ type \in ValueTypes \ {Obj(k).ty} =>
                    SizeOf(OpCast(Obj(k), type)) \in 1 .. ObjAddr(k + 1) - vm.sp

\* How compiled code uses the machine, instruction by instruction.  Nothing in
\* VM::Run enforces it; CallChain and CodeIntact rest on it.
Disciplined ==
    /\ \A a \in DOMAIN vm.mem : SizeOf(vm.mem[a]) \in Nat \ {0}
    /\ WritesVariable /\ TakesOwnOperands /\ RemovesOwnArguments /\ ConversionsFit

\* The active calls form a chain in memory: the base pointer points to the
\* last one's saved registers, those hold what the call interrupted, and the
\* chain ends at the global base pointer.  Nothing a program does between a
\* CALL and its RET, and no interrupt at any point, may overwrite a link.
CallChain ==
    vm.state = "ok" =>
        /\ vm.bp = IF calls = <<>> THEN m_gbp ELSE FrameBase(Last(calls))
        /\ \A i \in DOMAIN calls :
               LET base == FrameBase(calls[i])
               IN  /\ {base, base + SavedSize \div 2} \subseteq DOMAIN vm.mem
                   /\ vm.mem[base] = AddrMem(calls[i].bp)
                   /\ vm.mem[base + SavedSize \div 2] = AddrMem(calls[i].ip)

\* No instruction is fetched after a stack overflow has reached the code: the
\* pointer check at the loop head comes between the push or call that
\* overwrites code and the next fetch, also when that call is an interrupt's.
CodeIntact ==
    run = "fetch" =>
        \A a \in DOMAIN code.mem : a \in DOMAIN vm.mem /\ vm.mem[a] = code.mem[a]

\* A service routine that has no parameters and no value, and writes nothing that
\* was there when it interrupted.
RoutinesQuiet ==
    \A i \in DOMAIN calls : calls[i].byIrq =>
        /\ Instr("WRMEM") => AddressOnTop + SizeOf(Obj(1)) <= calls[i].sp
        /\ Instr("RET") /\ i = Depth => Obj(0).val = 0 /\ ~ ValueLeft

\* What a program that must not halt has for its result.
NoResult == [ty |-> "NONE", val |-> 0]

\* The programs use the machine as compiled code does, and one that has a result
\* never reads bytes as something they were not written as: no variable, operand,
\* saved register or opcode is torn by another object.  Nothing but service
\* routines that interrupt each other until the stack is full can keep it from
\* its end.
RunsToEnd ==
    /\ Disciplined /\ RoutinesQuiet
    /\ ResultOf[prog] # NoResult =>
           /\ vm.state # "undefined"
           /\ vm.state = "exception" => \E i \in DOMAIN calls : calls[i].byIrq

\* The locals of a function lie in its stack frame, the m_framesize bytes below
\* the base pointer, where its operands and the frames it calls do not reach.
LocalsInFrame ==
    /\ run = "fetch"
    /\ Opcode \in {"RDMEM", "WRMEM"}
    /\ IsObject(vm.sp, {"ADDR_BP"})
    /\ AddressOnTop < vm.bp
    => AddressOnTop >= vm.bp - m_framesize

\* A program that halts leaves its result, and nothing else, on the stack,
\* wherever and however deeply the timer interrupted it.
ResultUndisturbed ==
    vm.state = "halted" =>
        /\ IsObject(vm.sp, DataTypes)
        /\ Obj(0) = ResultOf[prog]
        /\ ObjAddr(1) = m_memsize - m_framesize

\* A service routine without parameters and value is transparent: its RET
\* gives back ip, bp, sp and every object at or above sp as they were when
\* the interrupt was taken, between any two instructions.
InterruptTransparent ==
    [][ calls # <<>> /\ calls' = Front(calls) /\ Last(calls).byIrq /\ vm'.state = "ok"
            => Interrupted(vm', TRUE) = Last(calls) ]_vars
=============================================================================
