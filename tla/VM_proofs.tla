------------------------------ MODULE VM_proofs ------------------------------
(* The virtual machine implements module Interrupts, for every program and   *)
(* every size of memory and frame, so what is proved there of the two        *)
(* threads holds for the machine that executes code.  For programs that keep *)
(* the discipline of compiled code, the frames of the active calls stay      *)
(* linked, no opcode is damaged before it is executed, and an interrupt      *)
(* gives back all that it interrupted.                                       *)
EXTENDS VM, TLAPS, WellFoundedInduction

(* The two threads of module Interrupts, for any number of lines and         *)
(* routines.                                                                 *)

\* Which thread states go with which state of the executing thread.
ThreadInv ==
    /\ m_timer_running => m_timer_thread \in {"test", "sleep", "request"}
    /\ run \in {"join", "destroy"} => ~ m_timer_running /\ m_timer_thread # "none"
    /\ run \notin {"join", "destroy"} /\ ~ m_timer_running => m_timer_thread = "none"
    /\ run = "dead" => ~ m_timer_running

\* The scan index names a line while a line is being served, and only the
\* executing thread resets the flag it saw set.
ScanInv ==
    /\ run \in {"clear", "dispatch"} => irq \in Irq
    /\ run = "clear" => m_irqs[irq]

\* A request left over by the joined thread is used up by its one service.
LateInv ==
    m_timer_thread = "none" =>
        /\ lateTicks \in {0, 1}
        /\ lateTicks = 1 => ~ m_irqs[m_timer_interrupt]
        /\ run = "dispatch" /\ irq = m_timer_interrupt =>
               ~ m_irqs[m_timer_interrupt] /\ lateTicks = 0

IInv == IntrTypeOK /\ ThreadInv /\ ScanInv /\ LateInv

LEMMA TimerLine == m_timer_interrupt \in Irq
  BY NumInterruptsAssumption DEF Irq, m_timer_interrupt

LEMMA InitIInv == IntrInit => IInv
<1> SUFFICES ASSUME IntrInit PROVE IInv
  OBVIOUS
<1>1. irq \in 0 .. m_num_interrupts /\ lateTicks = 0
  BY NumInterruptsAssumption DEF IntrInit
<1>2. IntrTypeOK
  <2>1. m_irqs \in [Irq -> BOOLEAN] /\ m_isrs \in [Irq -> IsrAddr \cup {NoIsr}]
    BY DEF IntrInit
  <2>2. /\ m_timer_running \in BOOLEAN /\ m_timer_thread \in ThreadState
        /\ run \in RunState
    BY DEF IntrInit, ThreadState, RunState
  <2> QED
    BY <1>1, <2>1, <2>2 DEF IntrTypeOK
<1>3. ThreadInv /\ ScanInv
  BY DEF IntrInit, ThreadInv, ScanInv
<1>4. LateInv
  BY TimerLine DEF IntrInit, LateInv
<1> QED
  BY <1>2, <1>3, <1>4 DEF IInv

LEMMA StepIInv == IInv /\ [IntrNext]_intrVars => IInv'
<1> SUFFICES ASSUME IInv, [IntrNext]_intrVars PROVE IInv'
  OBVIOUS
<1> USE NumInterruptsAssumption, TimerLine
    DEF IInv, IntrTypeOK, ThreadInv, ScanInv, LateInv, ThreadState, RunState,
        irqVars, timerVars
<1>1. CASE BeginScan
  BY <1>1 DEF BeginScan, Irq
<1>2. CASE PollClear
  BY <1>2 DEF PollClear, Irq
<1>3. CASE PollSet
  BY <1>3 DEF PollSet
<1>4. CASE EndScan
  BY <1>4 DEF EndScan
<1>5. CASE ClearIrq
  <2>1. m_irqs' \in [Irq -> BOOLEAN]
    BY <1>5 DEF ClearIrq
  <2>2. irq = m_timer_interrupt => ~ m_irqs'[m_timer_interrupt]
    BY <1>5 DEF ClearIrq
  <2>3. m_irqs'[m_timer_interrupt] => m_irqs[m_timer_interrupt]
    BY <1>5 DEF ClearIrq
  <2> QED
    BY <1>5, <2>1, <2>2, <2>3 DEF ClearIrq, Irq
<1>6. CASE EnterIsr
  BY <1>6 DEF EnterIsr
<1>7. CASE Execute
  BY <1>7 DEF Execute
<1>8. CASE Leave
  BY <1>8 DEF Leave
<1>9. ASSUME NEW num \in Irq, NEW addr \in IsrAddr, SetISR(num, addr)
      PROVE  IInv'
  BY <1>9 DEF SetISR
<1>10. CASE StartTimer
  BY <1>10 DEF StartTimer
<1>11. CASE StopTimerCall \/ DestructorStop
  BY <1>11 DEF StopTimerCall, DestructorStop, StopTimer
<1>12. CASE JoinTimerCall \/ DestructorJoin
  BY <1>12 DEF JoinTimerCall, DestructorJoin, JoinTimer
<1>13. CASE TimerFunc
  <2>1. CASE TimerTest \/ TimerSleep
    BY <2>1 DEF TimerTest, TimerSleep
  <2>2. CASE TimerRequest
    <3>1. m_irqs' \in [Irq -> BOOLEAN]
      BY <2>2 DEF TimerRequest
    <3> QED
      BY <2>2, <3>1 DEF TimerRequest
  <2> QED
    BY <1>13, <2>1, <2>2 DEF TimerFunc
<1>14. ASSUME NEW num \in Irq, RequestInterrupt(num)
       PROVE  IInv'
  BY <1>14 DEF RequestInterrupt
<1>15. CASE Dead \/ UNCHANGED intrVars
  BY <1>15 DEF Dead, intrVars
<1> QED
  BY <1>1, <1>2, <1>3, <1>4, <1>5, <1>6, <1>7, <1>8, <1>9, <1>10, <1>11, <1>12,
     <1>13, <1>14, <1>15
  DEF IntrNext, RunThread, Scan, Instruction

LEMMA InductiveInvariant == IntrSafeSpec => []IInv
  BY InitIInv, StepIInv, PTL DEF IntrSafeSpec

\* The state of both threads and of every line keeps its type.
THEOREM TypeCorrect == IntrSafeSpec => []IntrTypeOK
<1>1. IInv => IntrTypeOK
  BY DEF IInv
<1> QED
  BY <1>1, InductiveInvariant, PTL

\* StopTimer's join makes every later StartTimer, and the end of the VM, find
\* no attached thread, however the two threads interleave.
THEOREM ThreadNeverAbandoned == IntrSafeSpec => []NoThreadAbandoned
<1>1. IInv => NoThreadAbandoned
  BY DEF IInv, ThreadInv, NoThreadAbandoned
<1> QED
  BY <1>1, InductiveInvariant, PTL

\* At most one timer service starts after the timer was stopped.
THEOREM OneLateTick == IntrSafeSpec => []AtMostOneLateTick
<1>1. IInv => AtMostOneLateTick
  BY DEF IInv, LateInv, AtMostOneLateTick
<1> QED
  BY <1>1, InductiveInvariant, PTL

-----------------------------------------------------------------------------
(* The machine implements Interrupts.                                        *)

\* The external functions that reach the interrupt state do it through the
\* operations of Interrupts.
LEMMA ExtcallIsStep ==
    ASSUME Extcall
    PROVE  RunThread
<1> USE DEF RunThread, Instruction
<1>1. ASSUME NEW state, Fail(state)
      PROVE  RunThread
  BY <1>1 DEF Fail
<1>2. ASSUME NEW m, Commit(m)
      PROVE  RunThread
  BY <1>2 DEF Commit
<1>3. CASE ExtSetIsr
  <2>1. CASE RegisterIsr
    <3>1. CASE \E num \in Irq, addr \in IsrAddr : SetISR(num, addr)
      BY <3>1
    <3> QED BY <2>1, <3>1, <1>1 DEF RegisterIsr
  <2> QED BY <1>1, <1>3, <2>1 DEF ExtSetIsr, ExtCall
<1>4. CASE ExtSetTimer
  <2>1. CASE SetTimer
    <3>1. CASE StopTimerCall \/ StartTimer
      BY <3>1
    <3> QED BY <2>1, <3>1, <1>1 DEF SetTimer
  <2> QED BY <1>1, <1>4, <2>1 DEF ExtSetTimer, ExtCall
<1>5. CASE ExtSleep
  BY <1>1, <1>2, <1>5 DEF ExtSleep, ExtCall
<1>6. CASE ExtPrint
  BY <1>1, <1>2, <1>6 DEF ExtPrint, ExtCall
<1>7. CASE ExtSetEps
  BY <1>1, <1>2, <1>7 DEF ExtSetEps, ExtCall
<1>8. CASE ExtGetEps
  BY <1>1, <1>2, <1>8 DEF ExtGetEps, ExtCall, Return
<1>9. CASE ExtPow
  BY <1>1, <1>2, <1>9 DEF ExtPow, ExtCall, Return
<1>10. CASE ExtReal
  BY <1>1, <1>2, <1>10 DEF ExtReal, ExtCall, Return
<1>11. CASE ExtInput
  BY <1>1, <1>2, <1>11 DEF ExtInput, ExtCall, Return
<1>12. CASE ExtUnknown
  BY <1>2, <1>12 DEF ExtUnknown
<1> QED
  BY <1>3, <1>4, <1>5, <1>6, <1>7, <1>8, <1>9, <1>10, <1>11, <1>12 DEF Extcall

\* Every other instruction is a plain one, or leaves Run.
LEMMA InstructionIsStep ==
    ASSUME InstructionStep
    PROVE  RunThread
<1> USE DEF RunThread, Instruction
<1>1. CASE Halt          BY <1>1 DEF Halt, Fail
<1>2. CASE Nop           BY <1>2 DEF Nop, Commit
<1>3. CASE Cast          BY <1>3 DEF Cast, Commit
<1>4. CASE PushDirect    BY <1>4 DEF PushDirect, Commit, Fail
<1>5. CASE Wrmem         BY <1>5 DEF Wrmem, Commit, Fail
<1>6. CASE Rdmem         BY <1>6 DEF Rdmem, Commit, Fail
<1>7. CASE Usub          BY <1>7 DEF Usub, Commit
<1>8. CASE Not           BY <1>8 DEF Not, Commit
<1>9. CASE BinNot        BY <1>9 DEF BinNot, Commit
<1>10. CASE OpArithmetic BY <1>10 DEF OpArithmetic, Commit, Fail
<1>11. CASE OpComparison BY <1>11 DEF OpComparison, Commit
<1>12. CASE OpLogical    BY <1>12 DEF OpLogical, Commit
<1>13. CASE OpBinary     BY <1>13 DEF OpBinary, Commit, Fail
<1>14. CASE Jmp          BY <1>14 DEF Jmp, Commit
<1>15. CASE JmpCnd       BY <1>15 DEF JmpCnd, Commit
<1>16. CASE Call         BY <1>16 DEF Call, Commit
<1>17. CASE Ret          BY <1>17 DEF Ret, Commit, Fail
<1>18. CASE Extcall      BY <1>18, ExtcallIsStep
<1>19. CASE OperandError BY <1>19 DEF OperandError, Fail
<1> QED
  BY <1>1, <1>2, <1>3, <1>4, <1>5, <1>6, <1>7, <1>8, <1>9, <1>10, <1>11,
     <1>12, <1>13, <1>14, <1>15, <1>16, <1>17, <1>18, <1>19 DEF InstructionStep

\* A step of the machine is a step of Interrupts.
LEMMA ThreadIsStep ==
    ASSUME VMThread
    PROVE  RunThread
<1>1. CASE PointerCheck
  BY <1>1 DEF PointerCheck, Fail, RunThread, Scan
<1>2. CASE ScanStep
  BY <1>2 DEF ScanStep, RunThread, Scan
<1>3. CASE DispatchIsr
  BY <1>3 DEF DispatchIsr, RunThread, Scan
<1>4. CASE InstructionStep
  BY <1>4, InstructionIsStep
<1>5. CASE JoinTimerCall \/ DestructorStop \/ DestructorJoin
  BY <1>5 DEF RunThread, Instruction
<1> QED
  BY <1>1, <1>2, <1>3, <1>4, <1>5 DEF VMThread

\* The machine implements the interrupt protocol: whatever the program does,
\* the executing thread touches m_irqs, m_isrs and the timer only by the
\* protocol's steps.
THEOREM ImplementsInterrupts == VMSpec => IntrSafeSpec
<1>1. VMInit => IntrInit
  BY DEF VMInit
<1>2. [VMNext]_vars => [IntrNext]_intrVars
  <2> SUFFICES ASSUME [VMNext]_vars PROVE [IntrNext]_intrVars
    OBVIOUS
  <2>1. CASE VMThread
    BY <2>1, ThreadIsStep DEF IntrNext
  <2>2. CASE TimerFunc
    BY <2>2 DEF IntrNext
  <2>3. CASE Dead
    BY <2>3 DEF IntrNext
  <2>4. CASE UNCHANGED vars
    BY <2>4 DEF vars, intrVars
  <2> QED BY <2>1, <2>2, <2>3, <2>4 DEF VMNext
<1> QED BY <1>1, <1>2, PTL DEF VMSpec, IntrSafeSpec

\* No program can make the machine assign over, or destroy, an attached timer
\* thread.
THEOREM MachineAbandonsNoThread == VMSpec => []NoThreadAbandoned
BY ImplementsInterrupts, ThreadNeverAbandoned, PTL

\* No program sees a second interrupt of a timer it switched off.
THEOREM MachineOneLateTick == VMSpec => []AtMostOneLateTick
BY ImplementsInterrupts, OneLateTick, PTL
-----------------------------------------------------------------------------
(* Induction, and what it says of the walks over objects in memory. *)

LEMMA SetInduction ==
    ASSUME NEW S \in SUBSET Nat, 0 \in S, \A n \in S : n + 1 \in S
    PROVE  S = Nat
<1> DEFINE R == OpToRel(<, Nat)
<1>1. SUFFICES ASSUME Nat \ S # {} PROVE FALSE
  OBVIOUS
<1>2. PICK x \in Nat \ S : \A y \in Nat \ S : ~(<<y, x>> \in R)
  BY <1>1, NatLessThanWellFounded, WFMin
<1>3. x \in Nat /\ x \notin S
  OBVIOUS
<1>4. \A y \in Nat \ S : ~(y < x)
  BY <1>2 DEF OpToRel
<1> HIDE DEF R
<1>5. x # 0
  BY <1>3
<1>6. x - 1 \in Nat /\ x - 1 < x /\ (x - 1) + 1 = x
  BY ONLY <1>3, <1>5
<1>7. x - 1 \in S
  BY ONLY <1>4, <1>6
<1>8. (x - 1) + 1 \in S
  BY <1>7
<1> QED
  BY ONLY <1>3, <1>6, <1>8

\* A recursive function over an interval is there: g says how it goes on.
LEMMA Iterates ==
    ASSUME NEW x0 \in Int, NEW g \in [Nat \X Int -> Int], NEW n \in Nat
    PROVE  \E f \in [0 .. n -> Int] : f[0] = x0 /\ \A k \in 1 .. n : f[k] = g[<<k, f[k - 1]>>]
<1> DEFINE Is(f, m) == f[0] = x0 /\ \A k \in 1 .. m : f[k] = g[<<k, f[k - 1]>>]
           S == {m \in Nat : \E f \in [0 .. m -> Int] : Is(f, m)}
<1>1. 0 \in S
  <2>1. [k \in 0 .. 0 |-> x0] \in [0 .. 0 -> Int] /\ Is([k \in 0 .. 0 |-> x0], 0)
    OBVIOUS
  <2> QED
    BY <2>1
<1>2. ASSUME NEW m \in S PROVE m + 1 \in S
  <2>1. PICK f \in [0 .. m -> Int] : Is(f, m)
    BY <1>2
  <2> DEFINE h == [k \in 0 .. m + 1 |-> IF k = m + 1 THEN g[<<m + 1, f[m]>>] ELSE f[k]]
  <2>2. m \in Nat /\ f[m] \in Int /\ g[<<m + 1, f[m]>>] \in Int
    BY <2>1
  <2>3. h \in [0 .. m + 1 -> Int] /\ h[m + 1] = g[<<m + 1, f[m]>>] /\ \A k \in 0 .. m : h[k] = f[k]
    BY <2>1, <2>2
  <2> HIDE DEF h
  <2>4. Is(h, m + 1)
    <3>1. h[0] = x0
      BY <2>1, <2>2, <2>3
    <3>2. ASSUME NEW k \in 1 .. m + 1 PROVE h[k] = g[<<k, h[k - 1]>>]
      <4>1. CASE k = m + 1
        <5>1. k - 1 = m /\ m \in 0 .. m
          BY <2>2, <4>1
        <5> QED
          BY <2>3, <4>1, <5>1
      <4>2. CASE k # m + 1
        <5>1. k \in 1 .. m /\ k \in 0 .. m /\ k - 1 \in 0 .. m
          BY <2>2, <3>2, <4>2
        <5> QED
          BY <2>1, <2>3, <5>1
      <4> QED
        BY <4>1, <4>2
    <3> QED
      BY <3>1, <3>2
  <2>5. m + 1 \in Nat /\ \E f_ \in [0 .. m + 1 -> Int] : Is(f_, m + 1)
    <3> HIDE DEF Is
    <3> QED
      BY <2>2, <2>3, <2>4
  <2> HIDE DEF Is
  <2> QED
    BY ONLY <2>5 DEF S
<1>3. n \in S
  <2> HIDE DEF S
  <2>1. S \in SUBSET Nat
    BY DEF S
  <2> QED
    BY <1>1, <1>2, <2>1, SetInduction
<1> QED
  BY <1>3

\* Every object has a size; what a walk adds at address a.
Sized == \A a \in DOMAIN vm.mem : SizeOf(vm.mem[a]) \in Nat \ {0}
SizeAt(a) == IF a \in DOMAIN vm.mem THEN SizeOf(vm.mem[a]) ELSE 0

\* The addresses that Skip passes.
Walk(f, a, n) == f = [k \in 0 .. n |-> IF k = 0 THEN a ELSE f[k - 1] + SizeAt(f[k - 1])]

LEMMA SkipWalks ==
    ASSUME Sized, NEW a \in Int, NEW n \in Nat
    PROVE  \E f : Walk(f, a, n) /\ Skip(a, n) = f[n]
<1> DEFINE g == [p \in Nat \X Int |-> p[2] + SizeAt(p[2])]
<1>1. g \in [Nat \X Int -> Int] /\ \A k \in Nat, b \in Int : g[<<k, b>>] = b + SizeAt(b)
  BY DEF Sized, SizeAt
<1> HIDE DEF g
<1>2. PICK f \in [0 .. n -> Int] : f[0] = a /\ \A k \in 1 .. n : f[k] = g[<<k, f[k - 1]>>]
  <2>1. g \in [Nat \X Int -> Int]
    BY <1>1
  <2> QED
    BY ONLY <2>1, a \in Int, n \in Nat, Iterates
<1>3. \A k \in 1 .. n : f[k] = f[k - 1] + SizeAt(f[k - 1])
  <2> SUFFICES ASSUME NEW k \in 1 .. n PROVE f[k] = f[k - 1] + SizeAt(f[k - 1])
    OBVIOUS
  <2>1. k - 1 \in 0 .. n /\ k \in Nat
    OBVIOUS
  <2> QED
    BY <1>1, <1>2, <2>1
<1>4. Walk(f, a, n)
  <2> DEFINE h == [k \in 0 .. n |-> IF k = 0 THEN a ELSE f[k - 1] + SizeAt(f[k - 1])]
  <2>1. DOMAIN h = 0 .. n /\ DOMAIN f = 0 .. n
    BY <1>2
  <2>2. \A k \in 0 .. n : f[k] = h[k]
    <3> SUFFICES ASSUME NEW k \in 0 .. n PROVE f[k] = h[k]
      OBVIOUS
    <3>1. CASE k = 0
      BY <1>2, <3>1
    <3>2. CASE k # 0
      BY <1>3, <3>2
    <3> QED
      BY <3>1, <3>2
  <2>3. f = h
    <3> HIDE DEF h
    <3>1. h = [k \in 0 .. n |-> h[k]]
      BY DEF h
    <3> QED
      BY <1>2, <2>1, <2>2, <3>1
  <2> QED
    BY <2>3 DEF Walk
<1>5. \E f_ : Walk(f_, a, n)
  BY <1>4
<1> DEFINE w == CHOOSE f_ : Walk(f_, a, n)
<1>6. Walk(w, a, n)
  BY <1>5
<1>7. Skip(a, n) = w[n]
  BY DEF Skip, Walk, SizeAt
<1> HIDE DEF w
<1> QED
  BY <1>6, <1>7

LEMMA WalkType ==
    ASSUME Sized, NEW a \in Int, NEW n \in Nat, NEW f, Walk(f, a, n)
    PROVE  /\ \A k \in 0 .. n : f[k] \in Int
           /\ f[0] = a /\ \A k \in 0 .. n - 1 : f[k + 1] = f[k] + SizeAt(f[k])
<1>1. f[0] = a /\ \A k \in 1 .. n : f[k] = f[k - 1] + SizeAt(f[k - 1])
  <2>1. \A k \in 0 .. n : f[k] = IF k = 0 THEN a ELSE f[k - 1] + SizeAt(f[k - 1])
    BY DEF Walk
  <2> QED
    BY <2>1
<1>2. \A k \in 0 .. n - 1 : f[k + 1] = f[k] + SizeAt(f[k])
  <2> SUFFICES ASSUME NEW k \in 0 .. n - 1 PROVE f[k + 1] = f[k] + SizeAt(f[k])
    OBVIOUS
  <2>1. k + 1 \in 1 .. n /\ (k + 1) - 1 = k
    OBVIOUS
  <2> QED
    BY <1>1, <2>1
<1> DEFINE S == {k \in Nat : k <= n => f[k] \in Int}
<1>3. 0 \in S
  BY <1>1
<1>4. ASSUME NEW k \in S PROVE k + 1 \in S
  <2>1. CASE k + 1 <= n
    <3>1. f[k] \in Int /\ SizeAt(f[k]) \in Int
      BY <1>4, <2>1 DEF Sized, SizeAt
    <3> QED
      BY <1>2, <2>1, <3>1
  <2> QED
    BY <2>1
<1>5. \A k \in Nat : k \in S
  <2> HIDE DEF S
  <2>1. S \in SUBSET Nat
    BY DEF S
  <2> QED
    BY <1>3, <1>4, <2>1, SetInduction
<1> QED
  BY <1>1, <1>2, <1>5

\* Skip, step by step.
LEMMA SkipSteps ==
    ASSUME Sized, NEW a \in Int
    PROVE  /\ Skip(a, 0) = a
           /\ \A n \in Nat : Skip(a, n) \in Int /\ Skip(a, n + 1) = Skip(a, n) + SizeAt(Skip(a, n))
<1>1. Skip(a, 0) = a
  <2>1. PICK f : Walk(f, a, 0) /\ Skip(a, 0) = f[0]
    BY SkipWalks
  <2> QED
    BY <2>1, WalkType
<1>2. ASSUME NEW n \in Nat
      PROVE  Skip(a, n) \in Int /\ Skip(a, n + 1) = Skip(a, n) + SizeAt(Skip(a, n))
  <2>1. PICK f : Walk(f, a, n) /\ Skip(a, n) = f[n]
    BY SkipWalks
  <2>2. n + 1 \in Nat
    OBVIOUS
  <2>3. PICK h : Walk(h, a, n + 1) /\ Skip(a, n + 1) = h[n + 1]
    BY <2>2, SkipWalks
  <2>4. /\ \A k \in 0 .. n : f[k] \in Int
        /\ f[0] = a /\ \A k \in 0 .. n - 1 : f[k + 1] = f[k] + SizeAt(f[k])
    BY <2>1, WalkType
  <2>5. h[0] = a /\ \A k \in 0 .. n : h[k + 1] = h[k] + SizeAt(h[k])
    BY <2>2, <2>3, WalkType
  <2> DEFINE S == {k \in Nat : k <= n => f[k] = h[k]}
  <2>6. 0 \in S
    BY <2>4, <2>5
  <2>7. ASSUME NEW k \in S PROVE k + 1 \in S
    <3>1. CASE k + 1 <= n
      BY <2>4, <2>5, <2>7, <3>1
    <3> QED
      BY <3>1
  <2>8. \A k \in Nat : k \in S
    <3> HIDE DEF S
    <3>1. S \in SUBSET Nat
      BY DEF S
    <3> QED
      BY <2>6, <2>7, <3>1, SetInduction
  <2>9. f[n] = h[n] /\ f[n] \in Int /\ h[n + 1] = h[n] + SizeAt(h[n])
    BY <2>4, <2>5, <2>8
  <2> QED
    BY <2>1, <2>3, <2>9
<1> QED
  BY <1>1, <1>2

LEMMA ObjAddrs ==
    ASSUME Sized, vm.sp \in Int
    PROVE  /\ ObjAddr(0) = vm.sp
           /\ \A n \in Nat : /\ ObjAddr(n) \in Int
                             /\ ObjAddr(n + 1) = ObjAddr(n) + SizeAt(ObjAddr(n))
                             /\ ObjAddr(n) \in DOMAIN vm.mem => ObjAddr(n) < ObjAddr(n + 1)
           /\ \A n \in Nat : \A k \in 0 .. n : ObjAddr(k) <= ObjAddr(n)
<1>1. ObjAddr(0) = vm.sp
  BY SkipSteps DEF ObjAddr
<1>2. \A n \in Nat : ObjAddr(n) \in Int /\ ObjAddr(n + 1) = ObjAddr(n) + SizeAt(ObjAddr(n))
  BY SkipSteps DEF ObjAddr
<1>3. \A a \in Int : SizeAt(a) \in Nat /\ (a \in DOMAIN vm.mem => SizeAt(a) > 0)
  BY DEF SizeAt, Sized
<1>4. \A n \in Nat : ObjAddr(n) <= ObjAddr(n + 1)
                     /\ (ObjAddr(n) \in DOMAIN vm.mem => ObjAddr(n) < ObjAddr(n + 1))
  <2> SUFFICES ASSUME NEW n \in Nat
               PROVE  ObjAddr(n) <= ObjAddr(n + 1)
                      /\ (ObjAddr(n) \in DOMAIN vm.mem => ObjAddr(n) < ObjAddr(n + 1))
    OBVIOUS
  <2>1. ObjAddr(n) \in Int /\ ObjAddr(n + 1) = ObjAddr(n) + SizeAt(ObjAddr(n))
    BY <1>2
  <2> QED
    BY <1>3, <2>1
<1> DEFINE S == {n \in Nat : \A k \in 0 .. n : ObjAddr(k) <= ObjAddr(n)}
<1>5. 0 \in S
  BY <1>2
<1>6. ASSUME NEW n \in S PROVE n + 1 \in S
  <2>1. ASSUME NEW k \in 0 .. n + 1 PROVE ObjAddr(k) <= ObjAddr(n + 1)
    <3>1. n \in Nat /\ k \in Nat /\ n + 1 \in Nat
      OBVIOUS
    <3>2. ObjAddr(k) \in Int /\ ObjAddr(n) \in Int /\ ObjAddr(n + 1) \in Int
      BY <1>2, <3>1
    <3>3. CASE k = n + 1
      BY <3>2, <3>3
    <3>4. CASE k # n + 1
      <4>1. k \in 0 .. n
        BY <3>1, <3>4
      <4>2. ObjAddr(k) <= ObjAddr(n) /\ ObjAddr(n) <= ObjAddr(n + 1)
        BY <1>4, <1>6, <3>1, <4>1
      <4> QED
        BY <3>2, <4>2
    <3> QED
      BY <3>3, <3>4
  <2> QED
    BY <2>1
<1>7. \A n \in Nat : n \in S
  <2> HIDE DEF S
  <2>1. S \in SUBSET Nat
    BY DEF S
  <2> QED
    BY <1>5, <1>6, <2>1, SetInduction
<1> QED
  BY <1>1, <1>2, <1>4, <1>7

-----------------------------------------------------------------------------
(* What the instructions leave as it was. *)

Registers == {"ip", "sp", "bp", "eps", "mem", "state"}
IsMachine(m) == m = [r \in Registers |-> m[r]]

CodeIn(mem) == \A a \in DOMAIN code.mem : a \in DOMAIN mem /\ mem[a] = code.mem[a]
CodeLaid ==
    /\ code.end \in Nat
    /\ \A a \in DOMAIN code.mem : /\ a \in Nat /\ SizeOf(code.mem[a]) \in Nat \ {0}
                                  /\ a + SizeOf(code.mem[a]) <= code.end

\* What is in mem from address top upwards is what vm had there.
SameAbove(mem, top) ==
    /\ DOMAIN mem \subseteq Int
    /\ \A a \in Int : a >= top =>
           /\ a \in DOMAIN mem <=> a \in DOMAIN vm.mem
           /\ a \in DOMAIN mem => mem[a] = vm.mem[a]

\* The machine m on the way from vm to the end of an instruction: its stack and
\* what it has written are below top, and the code is as it was loaded unless
\* the stack has reached it.
Keeps(m, top) ==
    /\ IsMachine(m) /\ m.sp \in Int /\ m.sp <= top
    /\ SameAbove(m.mem, top)
    /\ CodeIn(m.mem) \/ m.sp < code.end

MemoryOK == IsMachine(vm) /\ vm.sp \in Int /\ DOMAIN vm.mem \subseteq Int

LEMMA PushEffect ==
    ASSUME NEW m, IsMachine(m), NEW o, Push(m, o).state = "ok"
    PROVE  /\ IsMachine(Push(m, o)) /\ m.state = "ok"
           /\ Push(m, o).sp = m.sp - SizeOf(o)
           /\ Push(m, o).mem = WriteObject(m.mem, m.sp - SizeOf(o), o)
           /\ Push(m, o).ip = m.ip /\ Push(m, o).bp = m.bp
           /\ Push(m, o).sp \in DOMAIN Push(m, o).mem /\ Push(m, o).mem[Push(m, o).sp] = o
<1> DEFINE a == m.sp - SizeOf(o)
           p == [m EXCEPT !.sp = a, !.mem = WriteObject(m.mem, a, o)]
<1>1. Push(m, o) = p /\ m.state = "ok"
  BY DEF Push, IsMachine
<1>2. a \in DOMAIN WriteObject(m.mem, a, o) /\ WriteObject(m.mem, a, o)[a] = o
  BY DEF WriteObject
<1> HIDE DEF a
<1>3. /\ IsMachine(p) /\ p.sp = a /\ p.mem = WriteObject(m.mem, a, o)
      /\ p.ip = m.ip /\ p.bp = m.bp
  <2> DEFINE x == WriteObject(m.mem, a, o)
  <2> HIDE DEF x
  <2>1. p = [m EXCEPT !.sp = a, !.mem = x]
    BY DEF x
  <2>2. IsMachine(p) /\ p.sp = a /\ p.mem = x /\ p.ip = m.ip /\ p.bp = m.bp
    <3> HIDE DEF p
    <3> QED
      BY <2>1 DEF IsMachine, Registers
  <2> QED
    BY <2>2 DEF x
<1>4. p.sp \in DOMAIN p.mem /\ p.mem[p.sp] = o
  <2> HIDE DEF p
  <2> QED
    BY <1>2, <1>3
<1> HIDE DEF p
<1> QED
  BY <1>1, <1>3, <1>4 DEF a

\* Writing an object below top changes nothing from top upwards.
LEMMA WriteSame ==
    ASSUME NEW mem, NEW top \in Int, SameAbove(mem, top),
           NEW a \in Int, NEW o, SizeOf(o) \in Nat \ {0}, a + SizeOf(o) <= top
    PROVE  SameAbove(WriteObject(mem, a, o), top)
<1> DEFINE new == WriteObject(mem, a, o)
           kept == {b \in DOMAIN mem : b + SizeOf(mem[b]) <= a \/ a + SizeOf(o) <= b}
<1>1. new = [b \in {a} \cup kept |-> IF b = a THEN o ELSE mem[b]]
  BY DEF WriteObject
<1>2. DOMAIN mem \subseteq Int
  BY DEF SameAbove
<1>3. \A b \in Int : b >= top => (b \in {a} \cup kept <=> b \in DOMAIN mem) /\ b # a
  OBVIOUS
<1>4. DOMAIN new = {a} \cup kept /\ \A b \in kept : b # a => new[b] = mem[b]
  BY <1>1
<1> HIDE DEF new
<1>5. DOMAIN new \subseteq Int
  BY <1>2, <1>4
<1> QED
  BY <1>2, <1>3, <1>4, <1>5 DEF SameAbove, new

LEMMA PushKeeps ==
    ASSUME CodeLaid, NEW top \in Int, NEW m, Keeps(m, top), NEW o, Push(m, o).state = "ok",
           SizeOf(o) \in Nat \ {0}
    PROVE  Keeps(Push(m, o), top)
<1> DEFINE p == Push(m, o)
           a == m.sp - SizeOf(o)
<1>1. IsMachine(m) /\ m.sp \in Int /\ m.sp <= top /\ SameAbove(m.mem, top)
  BY DEF Keeps
<1>2. IsMachine(p) /\ p.sp = a /\ p.mem = WriteObject(m.mem, a, o)
  <2> HIDE DEF p, a
  <2>1. /\ IsMachine(Push(m, o)) /\ Push(m, o).sp = m.sp - SizeOf(o)
        /\ Push(m, o).mem = WriteObject(m.mem, m.sp - SizeOf(o), o)
    BY <1>1, PushEffect
  <2> QED
    BY <2>1 DEF p, a
<1>3. a \in Int /\ a + SizeOf(o) = m.sp /\ a < m.sp
  BY <1>1
<1> HIDE DEF a, p
<1>4. SameAbove(p.mem, top)
  BY <1>1, <1>2, <1>3, WriteSame
<1>5. ASSUME CodeIn(m.mem), a >= code.end PROVE CodeIn(p.mem)
  <2> SUFFICES ASSUME NEW b \in DOMAIN code.mem PROVE b \in DOMAIN p.mem /\ p.mem[b] = code.mem[b]
    BY DEF CodeIn
  <2>1. b \in DOMAIN m.mem /\ m.mem[b] = code.mem[b]
    BY <1>5 DEF CodeIn
  <2>2. b \in Nat /\ SizeOf(code.mem[b]) \in Nat \ {0} /\ b + SizeOf(code.mem[b]) <= code.end
        /\ code.end \in Nat
    BY DEF CodeLaid
  <2>3. b + SizeOf(m.mem[b]) <= a /\ b # a
    BY <1>3, <1>5, <2>1, <2>2
  <2> QED
    BY <1>2, <2>1, <2>3 DEF WriteObject
<1>6. CodeIn(p.mem) \/ p.sp < code.end
  <2>1. code.end \in Nat
    BY DEF CodeLaid
  <2>2. CASE a >= code.end
    <3>1. ~(m.sp < code.end)
      BY <1>1, <1>3, <2>1, <2>2
    <3> QED
      BY <1>5, <2>2, <3>1 DEF Keeps
  <2>3. CASE ~(a >= code.end)
    BY <1>2, <1>3, <2>1, <2>3
  <2> QED
    BY <2>2, <2>3
<1>7. p.sp \in Int /\ p.sp <= top
  BY <1>1, <1>2, <1>3
<1> QED
  BY <1>2, <1>4, <1>6, <1>7 DEF Keeps, p

LEMMA DropSame ==
    ASSUME NEW mem, NEW top \in Int, SameAbove(mem, top),
           NEW addrs \in SUBSET Int, \A a \in addrs : a < top
    PROVE  SameAbove(Drop(mem, addrs), top)
<1>1. DOMAIN mem \subseteq Int
  BY DEF SameAbove
<1>2. /\ DOMAIN Drop(mem, addrs) = DOMAIN mem \ addrs
      /\ \A a \in DOMAIN mem \ addrs : Drop(mem, addrs)[a] = mem[a]
  BY DEF Drop
<1>3. \A a \in Int : a >= top => a \notin addrs
  OBVIOUS
<1> QED
  BY <1>1, <1>2, <1>3 DEF SameAbove

LEMMA DropCode ==
    ASSUME CodeLaid, NEW mem, CodeIn(mem), NEW addrs \in SUBSET Int, \A a \in addrs : a >= code.end
    PROVE  CodeIn(Drop(mem, addrs))
<1>1. \A a \in DOMAIN code.mem : a \notin addrs
  <2> SUFFICES ASSUME NEW a \in DOMAIN code.mem PROVE a \notin addrs
    OBVIOUS
  <2>1. a \in Nat /\ SizeOf(code.mem[a]) \in Nat \ {0} /\ a + SizeOf(code.mem[a]) <= code.end
        /\ code.end \in Nat
    BY DEF CodeLaid
  <2>2. a < code.end
    BY <2>1
  <2> QED
    BY <2>1, <2>2
<1> QED
  BY <1>1 DEF CodeIn, Drop

\* The machine as an instruction finds it.
Ready ==
    /\ Sized /\ MemoryOK /\ CodeLaid /\ CodeIn(vm.mem)
    /\ vm.state = "ok" /\ vm.sp >= code.end
    /\ OperandsOf(Depth) \in Int /\ vm.sp <= OperandsOf(Depth)
    /\ TakesOwnOperands /\ ConversionsFit

LEMMA VmKeeps ==
    ASSUME Ready
    PROVE  Keeps(vm, OperandsOf(Depth))
BY DEF Ready, MemoryOK, Keeps, SameAbove

\* On the way through its operands, an instruction has kept the code as well.
KeepsAll(m, sp) == /\ Keeps(m, OperandsOf(Depth)) /\ CodeIn(m.mem)
                   /\ m.sp = sp /\ m.bp = vm.bp /\ m.state = "ok"

LEMMA PoppedKeeps ==
    ASSUME Ready, NEW n \in Nat, \A k \in 0 .. n - 1 : ObjAddr(k) \in DOMAIN vm.mem,
           ObjAddr(n) <= OperandsOf(Depth)
    PROVE  KeepsAll(Popped(n), ObjAddr(n))
<1> DEFINE addrs == {ObjAddr(k) : k \in 0 .. n - 1}
           mem == Drop(vm.mem, addrs)
           top == OperandsOf(Depth)
<1>1. /\ ObjAddr(0) = vm.sp
      /\ \A i \in Nat : /\ ObjAddr(i) \in Int
                        /\ ObjAddr(i) \in DOMAIN vm.mem => ObjAddr(i) < ObjAddr(i + 1)
      /\ \A i \in Nat : \A k \in 0 .. i : ObjAddr(k) <= ObjAddr(i)
  BY ObjAddrs DEF Ready, MemoryOK
<1>2. vm.sp \in Int /\ top \in Int /\ IsMachine(vm) /\ code.end \in Nat
  BY DEF Ready, MemoryOK, CodeLaid
<1>3. \A k \in 0 .. n - 1 : ObjAddr(k) \in Int /\ vm.sp <= ObjAddr(k) /\ ObjAddr(k) < top
  <2> SUFFICES ASSUME NEW k \in 0 .. n - 1
               PROVE  ObjAddr(k) \in Int /\ vm.sp <= ObjAddr(k) /\ ObjAddr(k) < top
    OBVIOUS
  <2>1. k \in Nat /\ k + 1 \in Nat /\ 0 \in 0 .. k /\ k + 1 \in 0 .. n
    OBVIOUS
  <2>2. ObjAddr(k) \in Int /\ ObjAddr(k + 1) \in Int /\ ObjAddr(n) \in Int
    BY <1>1, <2>1
  <2>3. ObjAddr(k) < ObjAddr(k + 1) /\ ObjAddr(k + 1) <= ObjAddr(n) /\ vm.sp <= ObjAddr(k)
    BY <1>1, <2>1
  <2> HIDE DEF top
  <2> QED
    BY <1>2, <2>2, <2>3 DEF top
<1>4. addrs \in SUBSET Int /\ \A a \in addrs : a < top /\ a >= code.end
  <2>1. vm.sp >= code.end
    BY DEF Ready
  <2>2. \A k \in 0 .. n - 1 : ObjAddr(k) \in Int /\ ObjAddr(k) < top /\ ObjAddr(k) >= code.end
    <3> HIDE DEF top
    <3> QED
      BY <1>2, <1>3, <2>1
  <2> QED
    BY <2>2
<1> HIDE DEF addrs
<1>5. SameAbove(vm.mem, top)
  BY VmKeeps DEF Keeps
<1>6. SameAbove(mem, top) /\ CodeIn(mem)
  <2> HIDE DEF top
  <2> QED
    BY <1>2, <1>4, <1>5, DropSame, DropCode DEF Ready
<1> HIDE DEF mem
<1>7. Popped(n) = [vm EXCEPT !.ip = @ + m_bytesize, !.sp = ObjAddr(n), !.mem = mem]
  BY DEF Popped, mem, addrs
<1>8. /\ IsMachine(Popped(n)) /\ Popped(n).sp = ObjAddr(n) /\ Popped(n).mem = mem
      /\ Popped(n).bp = vm.bp /\ Popped(n).state = vm.state
  BY <1>2, <1>7 DEF IsMachine, Registers
<1>9. ObjAddr(n) \in Int
  BY <1>1
<1> QED
  BY <1>2, <1>6, <1>8, <1>9 DEF Keeps, KeepsAll, Ready

\* The operands an instruction finds are objects of its frame.
LEMMA OperandsFound ==
    ASSUME Ready, NEW op \in Opcodes, Instr(op), op # "EXTCALL",
           NEW n \in Nat, Len(Operands[op]) = n, DOMAIN Operands[op] = 1 .. n
    PROVE  /\ \A k \in 0 .. n - 1 : ObjAddr(k) \in DOMAIN vm.mem
           /\ ObjAddr(n) <= OperandsOf(Depth)
<1>1. op \in DOMAIN Operands
  BY DEF Operands
<1>2. OperandsAre(Operands[op])
  BY DEF Instr, OperandsFit
<1>3. \A k \in 0 .. n - 1 : ObjAddr(k) \in DOMAIN vm.mem
  <2> SUFFICES ASSUME NEW k \in 0 .. n - 1 PROVE ObjAddr(k) \in DOMAIN vm.mem
    OBVIOUS
  <2>1. k + 1 \in DOMAIN Operands[op] /\ (k + 1) - 1 = k
    OBVIOUS
  <2>2. IsObject(ObjAddr((k + 1) - 1), Operands[op][k + 1])
    BY <1>2, <2>1 DEF OperandsAre
  <2> QED
    BY <2>1, <2>2 DEF IsObject
<1>4. ObjAddr(Len(Operands[op]) + 0) <= OperandsOf(Depth)
  BY <1>1 DEF Ready, TakesOwnOperands
<1>5. n + 0 = n
  OBVIOUS
<1> QED
  BY <1>3, <1>4, <1>5

LEMMA OperandCounts ==
    /\ \A op \in {"NOP", "HALT", "PUSH"} :
           op \in Opcodes /\ Len(Operands[op]) = 0 /\ DOMAIN Operands[op] = 1 .. 0
    /\ \A op \in DOMAIN CastTo \cup {"RDMEM", "JMP", "CALL", "RET", "BINNOT", "USUB", "NOT", "EXTCALL"} :
           op \in Opcodes /\ Len(Operands[op]) = 1 /\ DOMAIN Operands[op] = 1 .. 1
    /\ \A op \in ArithmeticOps \cup ComparisonOps \cup LogicalOps \cup BinaryOps \cup {"WRMEM", "JMPCND"} :
           op \in Opcodes /\ Len(Operands[op]) = 2 /\ DOMAIN Operands[op] = 1 .. 2
BY DEF Operands, Opcodes, ArithmeticOps, ComparisonOps, LogicalOps, BinaryOps, CastTo

\* What a step has to show of an instruction within its frame.
StepKeeps == vm'.state = "ok" => Keeps(vm', OperandsOf(Depth)) /\ vm'.bp = vm.bp

LEMMA WrappedMachine ==
    ASSUME NEW m, IsMachine(m)
    PROVE  /\ IsMachine(Wrapped(m)) /\ Wrapped(m).sp = m.sp /\ Wrapped(m).bp = m.bp
           /\ Wrapped(m).mem = m.mem /\ Wrapped(m).state = m.state
           /\ m.ip \in 0 .. m_memsize => Wrapped(m).ip = m.ip
BY SizesAssumption DEF Wrapped, IsMachine, Registers

LEMMA PushMachine ==
    ASSUME NEW m, IsMachine(m), NEW o
    PROVE  IsMachine(Push(m, o))
<1> DEFINE x == WriteObject(m.mem, m.sp - SizeOf(o), o)
           y == m.sp - SizeOf(o)
<1> HIDE DEF x, y
<1>1. /\ IsMachine([m EXCEPT !.state = "exception"]) /\ IsMachine([m EXCEPT !.state = "undefined"])
      /\ IsMachine([m EXCEPT !.sp = y, !.mem = x])
  BY DEF IsMachine, Registers
<1>2. \/ Push(m, o) = [m EXCEPT !.state = "exception"]
      \/ Push(m, o) = [m EXCEPT !.state = "undefined"]
      \/ Push(m, o) = [m EXCEPT !.sp = y, !.mem = x]
  <2>1. [m EXCEPT !.sp = @ - SizeOf(o), !.mem = WriteObject(@, m.sp - SizeOf(o), o)]
            = [m EXCEPT !.sp = y, !.mem = x]
    BY DEF x, y, IsMachine, Registers
  <2> QED
    BY <2>1 DEF Push
<1> QED
  BY <1>1, <1>2

LEMMA Becomes ==
    ASSUME NEW m, vm' = Wrapped(m), Keeps(m, OperandsOf(Depth)), m.bp = vm.bp
    PROVE  StepKeeps
BY WrappedMachine DEF StepKeeps, Keeps

LEMMA BecomesPush ==
    ASSUME Ready, Sized', NEW m, Keeps(m, OperandsOf(Depth)), m.bp = vm.bp,
           NEW o, vm' = Wrapped(Push(m, o))
    PROVE  StepKeeps
<1>1. IsMachine(m)
  BY DEF Keeps
<1>2. CASE Push(m, o).state = "ok"
  <2>1. /\ Push(m, o).sp \in DOMAIN Push(m, o).mem /\ Push(m, o).mem[Push(m, o).sp] = o
        /\ Push(m, o).bp = m.bp /\ IsMachine(Push(m, o))
    BY <1>1, <1>2, PushEffect
  <2>2. vm'.mem = Push(m, o).mem
    BY <2>1, WrappedMachine
  <2>3. SizeOf(o) \in Nat \ {0}
    BY <2>1, <2>2 DEF Sized
  <2>4. CodeLaid /\ OperandsOf(Depth) \in Int
    BY DEF Ready
  <2>5. Keeps(Push(m, o), OperandsOf(Depth))
    BY <1>2, <2>3, <2>4, PushKeeps
  <2> QED
    BY <2>1, <2>5, Becomes
<1>3. CASE Push(m, o).state # "ok"
  <2>1. vm'.state # "ok"
    BY <1>1, <1>3, PushMachine, WrappedMachine
  <2> QED
    BY <2>1 DEF StepKeeps
<1> QED
  BY <1>2, <1>3

LEMMA RegisterKeeps ==
    ASSUME NEW m, NEW top, Keeps(m, top), NEW x
    PROVE  /\ Keeps([m EXCEPT !.ip = x], top) /\ [m EXCEPT !.ip = x].bp = m.bp
           /\ [m EXCEPT !.ip = x].state = m.state
           /\ Keeps([m EXCEPT !.eps = x], top) /\ [m EXCEPT !.eps = x].bp = m.bp
           /\ [m EXCEPT !.eps = x].state = m.state
<1>1. \A p \in {[m EXCEPT !.ip = x], [m EXCEPT !.eps = x]} :
          IsMachine(p) /\ p.sp = m.sp /\ p.mem = m.mem /\ p.bp = m.bp /\ p.state = m.state
  BY DEF Keeps, IsMachine, Registers
<1> QED
  BY <1>1 DEF Keeps

-----------------------------------------------------------------------------
(* The arguments of external functions. *)

LEMMA PopArgKeeps ==
    ASSUME Ready, Instr("EXTCALL"), Obj(0).val \in ExternalFunctions,
           NEW k \in DOMAIN ArgTypes[Obj(0).val], k \in Nat,
           ObjAddr(k) \in DOMAIN vm.mem, ObjAddr(k + 1) <= OperandsOf(Depth),
           ArgTypes[Obj(0).val][k] # "ADDR" =>
               Obj(k).ty \in ValueTypes /\ ArgTypes[Obj(0).val][k] \in ValueTypes,
           NEW m, KeepsAll(m, ObjAddr(k)), PopArg(m, k).state = "ok"
    PROVE  KeepsAll(PopArg(m, k), ObjAddr(k + 1))
<1> DEFINE top == OperandsOf(Depth)
           mem == Drop(m.mem, {ObjAddr(k)})
           popped == [m EXCEPT !.sp = ObjAddr(k + 1), !.mem = mem]
           type == ArgTypes[Obj(0).val][k]
<1>1. /\ ObjAddr(k) \in Int /\ ObjAddr(k + 1) \in Int /\ ObjAddr(k) < ObjAddr(k + 1)
      /\ vm.sp <= ObjAddr(k)
  <2>1. 0 \in 0 .. k /\ k + 1 \in Nat
    OBVIOUS
  <2> QED
    BY <2>1, ObjAddrs DEF Ready, MemoryOK
<1>2. top \in Int /\ code.end \in Nat /\ code.end <= vm.sp /\ vm.sp \in Int /\ CodeLaid
  BY DEF Ready, CodeLaid, MemoryOK
<1>3. IsMachine(m) /\ m.bp = vm.bp /\ m.state = "ok" /\ SameAbove(m.mem, top) /\ CodeIn(m.mem)
  BY DEF KeepsAll, Keeps
<1> HIDE DEF top
<1>4. {ObjAddr(k)} \in SUBSET Int /\ \A a \in {ObjAddr(k)} : a < top /\ a >= code.end
  <2>1. ObjAddr(k + 1) <= top
    BY DEF top
  <2> QED
    BY <1>1, <1>2, <2>1
<1>5. SameAbove(mem, top) /\ CodeIn(mem)
  BY <1>2, <1>3, <1>4, DropSame, DropCode
<1> HIDE DEF mem
<1>6. /\ IsMachine(popped) /\ popped.sp = ObjAddr(k + 1) /\ popped.mem = mem
      /\ popped.bp = vm.bp /\ popped.state = "ok"
  BY <1>3 DEF IsMachine, Registers
<1>7. PopArg(m, k) = IF type \in {Obj(k).ty, "ADDR"} THEN popped
                     ELSE Converted(popped, OpCast(Obj(k), type))
  <2>1. [m EXCEPT !.sp = ObjAddr(k + 1), !.mem = Drop(@, {ObjAddr(k)})] = popped
    BY <1>3 DEF IsMachine, Registers, mem
  <2> HIDE DEF popped
  <2> QED
    BY <1>3, <2>1 DEF PopArg
<1> HIDE DEF popped, type
<1>8. Keeps(popped, top) /\ KeepsAll(popped, ObjAddr(k + 1))
  BY <1>1, <1>5, <1>6 DEF Keeps, KeepsAll, top
<1>9. CASE type \in {Obj(k).ty, "ADDR"}
  BY <1>7, <1>8, <1>9
<1>10. CASE type \notin {Obj(k).ty, "ADDR"}
  <2> DEFINE o == OpCast(Obj(k), type)
             p == Push(popped, o)
             back == Drop(p.mem, {p.sp})
  <2>1. SizeOf(o) \in 1 .. ObjAddr(k + 1) - vm.sp
    BY <1>10 DEF Ready, ConversionsFit, type
  <2> HIDE DEF o
  <2>2. PopArg(m, k) = IF p.state # "ok" THEN p ELSE [p EXCEPT !.sp = popped.sp, !.mem = back]
    <3>1. IsMachine(p)
      BY <1>6, PushMachine
    <3>2. [p EXCEPT !.sp = popped.sp, !.mem = Drop(@, {p.sp})] = [p EXCEPT !.sp = popped.sp, !.mem = back]
      <4> HIDE DEF p
      <4> QED
        BY <3>1 DEF IsMachine, Registers
    <3>3. PopArg(m, k) = Converted(popped, o)
      BY <1>7, <1>10 DEF o
    <3> HIDE DEF p, back
    <3> QED
      BY <3>2, <3>3 DEF Converted, p
  <2>3. p.state = "ok"
    BY <2>2
  <2>4. SizeOf(o) \in Nat \ {0}
    BY <1>1, <1>2, <2>1
  <2>5. IsMachine(p) /\ p.sp = ObjAddr(k + 1) - SizeOf(o) /\ p.bp = vm.bp
    BY <1>6, <2>3, PushEffect
  <2>6. Keeps(p, top)
    BY <1>2, <1>8, <2>3, <2>4, PushKeeps
  <2> HIDE DEF p
  <2>7. p.sp \in Int /\ p.sp >= vm.sp /\ p.sp < top
    <3>1. ObjAddr(k + 1) <= top
      BY DEF top
    <3> QED
      BY <1>1, <1>2, <2>1, <2>4, <2>5, <3>1
  <2>8. CodeIn(p.mem) /\ SameAbove(p.mem, top)
    <3>1. ~(p.sp < code.end)
      BY <1>2, <2>7
    <3> QED
      BY <2>6, <3>1 DEF Keeps
  <2>9. SameAbove(back, top) /\ CodeIn(back)
    <3>1. {p.sp} \in SUBSET Int /\ \A a \in {p.sp} : a < top /\ a >= code.end
      BY <1>2, <2>7
    <3> QED
      BY <1>2, <2>8, <3>1, DropSame, DropCode
  <2> HIDE DEF back
  <2>10. LET q == [p EXCEPT !.sp = popped.sp, !.mem = back]
         IN  IsMachine(q) /\ q.sp = ObjAddr(k + 1) /\ q.mem = back /\ q.bp = vm.bp /\ q.state = "ok"
    BY <1>6, <2>3, <2>5 DEF IsMachine, Registers
  <2>11. /\ IsMachine(PopArg(m, k)) /\ PopArg(m, k).sp = ObjAddr(k + 1) /\ PopArg(m, k).mem = back
         /\ PopArg(m, k).bp = vm.bp /\ PopArg(m, k).state = "ok"
    BY <2>2, <2>3, <2>10
  <2> QED
    BY <1>1, <2>9, <2>11 DEF Keeps, KeepsAll, top
<1> QED
  BY <1>9, <1>10

LEMMA ArgTypesAre ==
    ASSUME NEW name \in ExternalFunctions
    PROVE  LET types == ArgTypes[name]
           IN  /\ Len(types) \in 0 .. 2 /\ DOMAIN types = 1 .. Len(types)
               /\ \A k \in DOMAIN types : types[k] \in ValueTypes \cup {"ADDR"}
<1>1. ArgTypes[name] \in {<<"INT", "ADDR">>, <<"REAL", "REAL">>, <<"INT">>, <<"STR">>, <<>>, <<"REAL">>}
  BY DEF ArgTypes
<1>2. {"INT", "REAL", "STR"} \subseteq ValueTypes
  BY DEF ValueTypes
<1> QED
  BY <1>1, <1>2

LEMMA PopArgMachine ==
    ASSUME NEW m, IsMachine(m), NEW k
    PROVE  IsMachine(PopArg(m, k))
<1> DEFINE x == ObjAddr(k + 1)
           popped == [m EXCEPT !.sp = x, !.mem = Drop(@, {ObjAddr(k)})]
<1>1. IsMachine(popped)
  <2> HIDE DEF x
  <2> QED
    BY DEF IsMachine, Registers
<1> HIDE DEF popped
<1>2. ASSUME NEW o PROVE IsMachine(Converted(popped, o))
  <2> DEFINE p == Push(popped, o)
  <2>1. IsMachine(p)
    BY <1>1, PushMachine
  <2> HIDE DEF p
  <2>2. IsMachine([p EXCEPT !.sp = popped.sp, !.mem = Drop(@, {p.sp})])
    BY <2>1 DEF IsMachine, Registers
  <2> QED
    BY <2>1, <2>2 DEF Converted, p
<1>3. \A o : IsMachine(Converted(popped, o))
  BY <1>2
<1> QED
  BY <1>1, <1>3 DEF PopArg, popped

\* Consumed, argument by argument.
LEMMA ConsumedIs ==
    ASSUME Obj(0).val \in ExternalFunctions
    PROVE  LET n == Len(ArgTypes[Obj(0).val])
           IN  /\ n = 0 => Consumed = Popped(1)
               /\ n = 1 => Consumed = PopArg(Popped(1), 1)
               /\ n = 2 => Consumed = PopArg(PopArg(Popped(1), 1), 2)
<1> DEFINE n == Len(ArgTypes[Obj(0).val])
           Past(f) == f = [k \in 0 .. n |-> IF k = 0 THEN Popped(1) ELSE PopArg(f[k - 1], k)]
           p0 == Popped(1)
           p1 == PopArg(p0, 1)
           p2 == PopArg(p1, 2)
           g == [k \in 0 .. n |-> IF k = 0 THEN p0 ELSE IF k = 1 THEN p1 ELSE p2]
<1>1. n \in 0 .. 2
  BY ArgTypesAre
<1> HIDE DEF n
<1>2. Past(g)
  <2> DEFINE h == [k \in 0 .. n |-> IF k = 0 THEN p0 ELSE PopArg(g[k - 1], k)]
  <2>1. ASSUME NEW k \in 0 .. n PROVE g[k] = h[k]
    <3>1. CASE k = 0
      BY <3>1
    <3>2. CASE k = 1
      <4>1. 0 \in 0 .. n /\ g[0] = p0 /\ k - 1 = 0
        BY <1>1, <3>2
      <4>2. g[k] = p1
        BY <3>2
      <4>3. h[k] = PopArg(g[k - 1], k)
        BY <3>2
      <4> HIDE DEF g, h, p0
      <4> QED
        BY <3>2, <4>1, <4>2, <4>3
    <3>3. CASE k = 2
      <4>1. 1 \in 0 .. n /\ g[1] = p1 /\ k - 1 = 1
        BY <1>1, <3>3
      <4>2. g[k] = p2
        BY <3>3
      <4>3. h[k] = PopArg(g[k - 1], k)
        BY <3>3
      <4> HIDE DEF g, h, p1
      <4> QED
        BY <3>3, <4>1, <4>2, <4>3
    <3> QED
      BY <1>1, <3>1, <3>2, <3>3
  <2>2. g = h
    <3>1. DOMAIN g = 0 .. n /\ DOMAIN h = 0 .. n
      OBVIOUS
    <3>2. g = [k \in 0 .. n |-> g[k]] /\ h = [k \in 0 .. n |-> h[k]]
      OBVIOUS
    <3> HIDE DEF g, h
    <3> QED
      BY <2>1, <3>2
  <2> HIDE DEF g
  <2> QED
    BY <2>2
<1> DEFINE w == CHOOSE f : Past(f)
<1>3. Past(w)
  BY <1>2
<1>4. Consumed = w[n]
  BY DEF Consumed, n
<1> HIDE DEF w
<1>5. w[0] = Popped(1) /\ \A k \in 1 .. n : w[k] = PopArg(w[k - 1], k)
  <2>1. DOMAIN w = 0 .. n /\ \A k \in 0 .. n : w[k] = IF k = 0 THEN Popped(1) ELSE PopArg(w[k - 1], k)
    BY <1>3
  <2>2. 0 \in 0 .. n /\ \A k \in 1 .. n : k \in 0 .. n /\ k # 0
    BY <1>1
  <2> QED
    BY <2>1, <2>2
<1>6. n = 1 => w[1] = PopArg(w[0], 1)
  BY <1>5
<1>7. n = 2 => w[1] = PopArg(w[0], 1) /\ w[2] = PopArg(w[1], 2)
  <2>1. n = 2 => 1 \in 1 .. n /\ 2 \in 1 .. n /\ 1 - 1 = 0 /\ 2 - 1 = 1
    OBVIOUS
  <2>2. n = 2 => w[1] = PopArg(w[1 - 1], 1) /\ w[2] = PopArg(w[2 - 1], 2)
    BY <1>5, <2>1
  <2> QED
    BY <2>1, <2>2
<1> QED
  BY <1>4, <1>5, <1>6, <1>7 DEF n

LEMMA ConcatIs ==
    ASSUME NEW T, NEW a \in Seq(T), NEW b \in Seq(T)
    PROVE  /\ DOMAIN (a \o b) = 1 .. Len(a) + Len(b)
           /\ \A k \in 1 .. Len(a) + Len(b) : (a \o b)[k] = IF k <= Len(a) THEN a[k] ELSE b[k - Len(a)]
OBVIOUS

LEMMA ConsumedKeeps ==
    ASSUME Ready, Instr("EXTCALL"), Obj(0).val \in ExternalFunctions,
           OperandsAre(<<{"STR"}>> \o Accepted(ArgTypes[Obj(0).val]))
    PROVE  /\ IsMachine(Consumed)
           /\ Consumed.state = "ok" =>
                  KeepsAll(Consumed, ObjAddr(1 + Len(ArgTypes[Obj(0).val])))
<1> DEFINE types == ArgTypes[Obj(0).val]
           n == Len(types)
           acc == Accepted(types)
<1>1. /\ n \in 0 .. 2 /\ DOMAIN types = 1 .. n
      /\ \A k \in DOMAIN types : types[k] \in ValueTypes \cup {"ADDR"}
  BY ArgTypesAre
<1> HIDE DEF types
<1>2. /\ acc \in Seq({AddrTypes, ValueTypes}) /\ Len(acc) = n /\ DOMAIN acc = 1 .. n
      /\ \A k \in 1 .. n : acc[k] = IF types[k] = "ADDR" THEN AddrTypes ELSE ValueTypes
  <2>1. acc = [k \in 1 .. n |-> IF types[k] = "ADDR" THEN AddrTypes ELSE ValueTypes]
    BY <1>1 DEF Accepted
  <2>2. n \in Nat
    BY <1>1
  <2> HIDE DEF acc, n
  <2> QED
    BY <2>1, <2>2
<1> HIDE DEF n, acc
<1>3. /\ IsObject(ObjAddr(0), {"STR"})
      /\ \A k \in 1 .. n : IsObject(ObjAddr(k), acc[k])
  <2> DEFINE head == <<{"STR"}>>
             needed == head \o acc
             T == {AddrTypes, ValueTypes, {"STR"}}
  <2>1. head \in Seq(T) /\ acc \in Seq(T) /\ Len(head) = 1 /\ head[1] = {"STR"}
    BY <1>2
  <2>a. OperandsAre(needed)
    BY DEF acc, types
  <2> HIDE DEF head
  <2>2. /\ DOMAIN needed = 1 .. 1 + n /\ needed[1] = head[1]
        /\ \A k \in 1 .. n : needed[1 + k] = acc[k]
    <3> HIDE DEF T
    <3>1. /\ DOMAIN needed = 1 .. 1 + n
          /\ \A k \in 1 .. 1 + n : needed[k] = IF k <= 1 THEN head[k] ELSE acc[k - 1]
      <4>1. head \in Seq(T) /\ acc \in Seq(T)
        BY <2>1
      <4>2. /\ DOMAIN (head \o acc) = 1 .. Len(head) + Len(acc)
            /\ \A k \in 1 .. Len(head) + Len(acc) :
                   (head \o acc)[k] = IF k <= Len(head) THEN head[k] ELSE acc[k - Len(head)]
        BY ONLY <4>1, ConcatIs
      <4>3. Len(head) = 1 /\ Len(acc) = n
        BY <1>2, <2>1
      <4> QED
        BY ONLY <4>2, <4>3
    <3>2. 1 \in 1 .. 1 + n /\ \A k \in 1 .. n : 1 + k \in 1 .. 1 + n /\ ~(1 + k <= 1) /\ (1 + k) - 1 = k
      BY <1>1
    <3> HIDE DEF needed
    <3> QED
      BY <3>1, <3>2
  <2> HIDE DEF needed
  <2>3. 1 \in DOMAIN needed /\ 1 - 1 = 0 /\ \A k \in 1 .. n : 1 + k \in DOMAIN needed /\ (1 + k) - 1 = k
    BY <1>1, <2>2
  <2>4. \A j \in DOMAIN needed : IsObject(ObjAddr(j - 1), needed[j])
    BY <2>a DEF OperandsAre
  <2>5. IsObject(ObjAddr(1 - 1), needed[1])
    BY <2>3, <2>4
  <2>6. \A k \in 1 .. n : IsObject(ObjAddr((1 + k) - 1), needed[1 + k])
    BY <2>3, <2>4
  <2>7. IsObject(ObjAddr(0), {"STR"})
    BY <2>1, <2>2, <2>3, <2>5
  <2>8. \A k \in 1 .. n : IsObject(ObjAddr(k), acc[k])
    <3> SUFFICES ASSUME NEW k \in 1 .. n PROVE IsObject(ObjAddr(k), acc[k])
      OBVIOUS
    <3> QED
      BY <2>2, <2>3, <2>6
  <2> QED
    BY <2>7, <2>8
<1>4. \A k \in 0 .. n : ObjAddr(k) \in DOMAIN vm.mem
  <2>1. ObjAddr(0) \in DOMAIN vm.mem /\ \A k \in 1 .. n : ObjAddr(k) \in DOMAIN vm.mem
    BY <1>3 DEF IsObject
  <2>2. \A k \in 0 .. n : k = 0 \/ k \in 1 .. n
    OBVIOUS
  <2> QED
    BY <2>1, <2>2
<1>5. \A k \in 1 .. n : types[k] # "ADDR" => Obj(k).ty \in ValueTypes /\ types[k] \in ValueTypes
  BY <1>1, <1>2, <1>3 DEF IsObject, Obj
<1>6. ObjAddr(1 + n) <= OperandsOf(Depth)
  <2>1. "EXTCALL" \in DOMAIN Operands /\ Len(Operands["EXTCALL"]) = 1
    BY OperandCounts DEF Operands
  <2>2. ObjAddr(Len(Operands["EXTCALL"]) + n) <= OperandsOf(Depth)
    BY <2>1 DEF Ready, TakesOwnOperands, n, types
  <2> QED
    BY <2>1, <2>2
<1>7. \A k \in 0 .. n : ObjAddr(k + 1) <= OperandsOf(Depth)
  <2> SUFFICES ASSUME NEW k \in 0 .. n PROVE ObjAddr(k + 1) <= OperandsOf(Depth)
    OBVIOUS
  <2>1. k + 1 \in 0 .. 1 + n /\ 1 + n \in Nat /\ k + 1 \in Nat
    BY <1>1
  <2>2. ObjAddr(k + 1) <= ObjAddr(1 + n) /\ ObjAddr(k + 1) \in Int /\ ObjAddr(1 + n) \in Int
    BY <2>1, ObjAddrs DEF Ready, MemoryOK
  <2>3. OperandsOf(Depth) \in Int
    BY DEF Ready
  <2> QED
    BY <1>6, <2>2, <2>3
<1>8. KeepsAll(Popped(1), ObjAddr(1))
  <2>1. \A k \in 0 .. 1 - 1 : ObjAddr(k) \in DOMAIN vm.mem
    BY <1>1, <1>4
  <2>2. ObjAddr(0 + 1) <= OperandsOf(Depth) /\ 0 + 1 = 1
    BY <1>1, <1>7
  <2> QED
    BY <2>1, <2>2, PoppedKeeps
<1>9. ASSUME NEW k \in 1 .. n, NEW m, KeepsAll(m, ObjAddr(k)), PopArg(m, k).state = "ok"
      PROVE  KeepsAll(PopArg(m, k), ObjAddr(k + 1))
  <2>1. k \in DOMAIN types /\ k \in Nat /\ k \in 0 .. n
    BY <1>1
  <2> QED
    BY <1>4, <1>5, <1>7, <1>9, <2>1, PopArgKeeps DEF types
<1> DEFINE p0 == Popped(1)
           p1 == PopArg(p0, 1)
           p2 == PopArg(p1, 2)
<1>10. IsMachine(p0) /\ IsMachine(p1) /\ IsMachine(p2)
  <2>1. IsMachine(p0)
    BY <1>8 DEF KeepsAll, Keeps
  <2> HIDE DEF p0
  <2>2. IsMachine(p1)
    BY <2>1, PopArgMachine
  <2> HIDE DEF p1
  <2> QED
    BY <2>1, <2>2, PopArgMachine
<1>11. (n = 0 => Consumed = p0) /\ (n = 1 => Consumed = p1) /\ (n = 2 => Consumed = p2)
  BY ConsumedIs DEF n, types
<1>12. n >= 1 /\ p1.state = "ok" => KeepsAll(p1, ObjAddr(2))
  <2> SUFFICES ASSUME n >= 1, p1.state = "ok" PROVE KeepsAll(p1, ObjAddr(2))
    OBVIOUS
  <2>1. 1 \in 1 .. n /\ 1 + 1 = 2
    BY <1>1
  <2>2. KeepsAll(PopArg(Popped(1), 1), ObjAddr(1 + 1))
    BY <1>8, <1>9, <2>1
  <2> QED
    BY <2>1, <2>2
<1> HIDE DEF p0
<1>13. n = 2 /\ p2.state = "ok" => KeepsAll(p2, ObjAddr(3))
  <2> SUFFICES ASSUME n = 2, p2.state = "ok" PROVE KeepsAll(p2, ObjAddr(3))
    OBVIOUS
  <2>1. 2 \in 1 .. n /\ 2 + 1 = 3
    OBVIOUS
  <2>2. p1.state = "ok"
    BY DEF PopArg
  <2>3. KeepsAll(p1, ObjAddr(2))
    BY <1>12, <2>2
  <2> HIDE DEF p1
  <2>4. KeepsAll(PopArg(p1, 2), ObjAddr(2 + 1))
    BY <1>9, <2>1, <2>3
  <2> QED
    BY <2>1, <2>4
<1> HIDE DEF p1, p2
<1>14. n = 0 \/ n = 1 \/ n = 2
  BY <1>1
<1>15. IsMachine(Consumed)
  BY <1>10, <1>11, <1>14
<1>16. Consumed.state = "ok" => KeepsAll(Consumed, ObjAddr(1 + n))
  <2>1. (n = 0 => 1 + n = 1) /\ (n = 1 => 1 + n = 2) /\ (n = 2 => 1 + n = 3)
    OBVIOUS
  <2> QED
    BY <1>8, <1>11, <1>12, <1>13, <1>14, <2>1 DEF p0
<1> QED
  BY <1>15, <1>16 DEF n, types

-----------------------------------------------------------------------------
(* The instructions that stay within a frame. *)

\* The end of such an instruction.
FrameStep ==
    /\ StepKeeps /\ UNCHANGED <<prog, code, calls>>
    /\ run' = "left" \/ (run' \in {"head", "join"} /\ vm'.state = "ok")

LEMMA FailKeeps ==
    ASSUME Ready, NEW state, state # "ok", Fail(state)
    PROVE  FrameStep
<1>1. vm' = [vm EXCEPT !.state = state] /\ run' = "left" /\ UNCHANGED <<prog, code, calls>>
  BY DEF Fail, Leave
<1>2. vm'.state = state
  BY <1>1 DEF Ready, MemoryOK, IsMachine, Registers
<1> QED
  BY <1>1, <1>2 DEF FrameStep, StepKeeps

LEMMA CommitEnds ==
    ASSUME NEW m, IsMachine(m), Commit(m)
    PROVE  /\ run' = "left" \/ (run' = "head" /\ vm'.state = "ok")
           /\ vm' = Wrapped(m) /\ UNCHANGED <<prog, code>>
           /\ vm'.state = m.state
BY WrappedMachine DEF Commit, Execute, Leave

LEMMA CommitKeeps ==
    ASSUME NEW m, Keeps(m, OperandsOf(Depth)), m.bp = vm.bp, Commit(m), UNCHANGED calls
    PROVE  FrameStep
<1>1. IsMachine(m)
  BY DEF Keeps
<1> QED
  BY <1>1, CommitEnds, Becomes DEF FrameStep

LEMMA CommitPushKeeps ==
    ASSUME Ready, Sized', NEW m, Keeps(m, OperandsOf(Depth)), m.bp = vm.bp,
           NEW o, Commit(Push(m, o)), UNCHANGED calls
    PROVE  FrameStep
<1>1. IsMachine(Push(m, o))
  BY PushMachine DEF Keeps
<1>2. vm' = Wrapped(Push(m, o))
  BY DEF Commit
<1>3. StepKeeps
  BY <1>2, BecomesPush
<1> HIDE DEF StepKeeps
<1> QED
  BY <1>1, <1>3, CommitEnds DEF FrameStep

\* An instruction that has popped its n operands.
LEMMA OperandsPopped ==
    ASSUME Ready, NEW op \in Opcodes, Instr(op), op # "EXTCALL",
           NEW n \in Nat, Len(Operands[op]) = n, DOMAIN Operands[op] = 1 .. n
    PROVE  KeepsAll(Popped(n), ObjAddr(n))
BY OperandsFound, PoppedKeeps

\* Operands may be left where they are.
LEMMA NonePopped ==
    ASSUME Ready
    PROVE  KeepsAll(Popped(0), ObjAddr(0))
<1>1. ObjAddr(0) = vm.sp
  BY ObjAddrs DEF Ready, MemoryOK
<1>2. ObjAddr(0) <= OperandsOf(Depth)
  BY <1>1 DEF Ready
<1>3. \A k \in 0 .. 0 - 1 : ObjAddr(k) \in DOMAIN vm.mem
  OBVIOUS
<1> QED
  BY <1>2, <1>3, PoppedKeeps

\* Every instruction but WRMEM, the external functions, CALL and RET.
LEMMA PlainKeeps ==
    ASSUME Ready, Sized',
           \/ Halt \/ Nop \/ Cast \/ PushDirect \/ Rdmem \/ Usub \/ Not \/ BinNot
           \/ OpArithmetic \/ OpComparison \/ OpLogical \/ OpBinary \/ Jmp \/ JmpCnd
           \/ OperandError
    PROVE  FrameStep
<1> DEFINE top == OperandsOf(Depth)
<1>1. KeepsAll(Popped(0), ObjAddr(0))
  BY NonePopped
<1>2. ASSUME NEW op \in DOMAIN CastTo \cup {"RDMEM", "JMP", "USUB", "NOT", "BINNOT"}, Instr(op)
      PROVE  Keeps(Popped(1), OperandsOf(Depth)) /\ Popped(1).bp = vm.bp
  <2>1. op \in Opcodes /\ Len(Operands[op]) = 1 /\ DOMAIN Operands[op] = 1 .. 1 /\ op # "EXTCALL"
    BY OperandCounts DEF CastTo
  <2> QED
    BY <1>2, <2>1, OperandsPopped DEF KeepsAll
<1>3. ASSUME NEW op \in ArithmeticOps \cup ComparisonOps \cup LogicalOps \cup BinaryOps \cup {"JMPCND"},
             Instr(op)
      PROVE  Keeps(Popped(2), OperandsOf(Depth)) /\ Popped(2).bp = vm.bp
  <2>1. op \in Opcodes /\ Len(Operands[op]) = 2 /\ DOMAIN Operands[op] = 1 .. 2 /\ op # "EXTCALL"
    BY OperandCounts DEF ArithmeticOps, ComparisonOps, LogicalOps, BinaryOps
  <2> QED
    BY <1>3, <2>1, OperandsPopped DEF KeepsAll
<1>4. ASSUME NEW state, state # "ok", Fail(state)
      PROVE  FrameStep
  BY <1>4, FailKeeps
<1>5. ASSUME NEW m, Keeps(m, OperandsOf(Depth)), m.bp = vm.bp, Commit(m), UNCHANGED calls
      PROVE  FrameStep
  BY <1>5, CommitKeeps
<1>6. ASSUME NEW m, Keeps(m, OperandsOf(Depth)), m.bp = vm.bp, NEW o, Commit(Push(m, o)), UNCHANGED calls
      PROVE  FrameStep
  BY <1>6, CommitPushKeeps
<1> HIDE DEF FrameStep, Commit, Fail, Instr
<1>7. CASE Halt
  BY <1>4, <1>7 DEF Halt
<1>8. CASE Nop
  BY <1>1, <1>5, <1>8 DEF Nop, KeepsAll
<1>9. CASE Cast
  <2>1. PICK op \in DOMAIN CastTo :
            /\ Instr(op)
            /\ Commit(IF Obj(0).ty \in ValueTypes \ {CastTo[op]}
                      THEN Push(Popped(1), OpCast(Obj(0), CastTo[op])) ELSE Popped(0))
            /\ UNCHANGED calls
    BY <1>9 DEF Cast
  <2>2. Keeps(Popped(1), OperandsOf(Depth)) /\ Popped(1).bp = vm.bp
    BY <1>2, <2>1
  <2>3. Keeps(Popped(0), OperandsOf(Depth)) /\ Popped(0).bp = vm.bp
    BY <1>1 DEF KeepsAll
  <2> QED
    BY <1>5, <1>6, <2>1, <2>2, <2>3
<1>10. CASE PushDirect
  <2> DEFINE at == vm.ip + m_bytesize
             x == at + SizeOf(vm.mem[at])
             next == [vm EXCEPT !.ip = x]
  <2>1. \/ \E o : Commit(Push(next, o)) /\ UNCHANGED calls
        \/ Fail("undefined")
    <3> HIDE DEF next
    <3> QED
      BY <1>10 DEF PushDirect, next
  <2> HIDE DEF x
  <2>2. Keeps(next, OperandsOf(Depth)) /\ next.bp = vm.bp
    BY VmKeeps, RegisterKeeps
  <2> QED
    BY <1>4, <1>6, <2>1, <2>2
<1>11. CASE Rdmem
  BY <1>2, <1>4, <1>6, <1>11 DEF Rdmem
<1>12. CASE Usub
  BY <1>2, <1>6, <1>12 DEF Usub
<1>13. CASE Not
  BY <1>2, <1>6, <1>13 DEF Not
<1>14. CASE BinNot
  BY <1>2, <1>6, <1>14 DEF BinNot
<1>15. CASE OpArithmetic
  BY <1>3, <1>4, <1>6, <1>15 DEF OpArithmetic
<1>16. CASE OpComparison
  BY <1>3, <1>6, <1>16 DEF OpComparison
<1>17. CASE OpLogical
  BY <1>3, <1>6, <1>17 DEF OpLogical
<1>18. CASE OpBinary
  BY <1>3, <1>4, <1>6, <1>18 DEF OpBinary
<1>19. CASE Jmp
  BY <1>2, <1>5, <1>19, RegisterKeeps DEF Jmp
<1>20. CASE JmpCnd
  <2>1. Keeps(Popped(2), OperandsOf(Depth)) /\ Popped(2).bp = vm.bp
    BY <1>3, <1>20 DEF JmpCnd
  <2>2. LET m == [Popped(2) EXCEPT !.ip = AddressOnTop]
        IN  Keeps(m, OperandsOf(Depth)) /\ m.bp = vm.bp
    BY <2>1, RegisterKeeps
  <2> QED
    BY <1>5, <1>20, <2>1, <2>2 DEF JmpCnd
<1>21. CASE OperandError
  <2>1. \E state \in {"exception", "undefined"} : Fail(state)
    BY <1>21 DEF OperandError, MisfitStates
  <2> QED
    BY <1>4, <2>1
<1> QED
  BY <1>7, <1>8, <1>9, <1>10, <1>11, <1>12, <1>13, <1>14, <1>15, <1>16, <1>17, <1>18, <1>19,
     <1>20, <1>21

\* The external functions.
LEMMA ExtcallKeeps ==
    ASSUME Ready, Sized', Extcall
    PROVE  FrameStep
<1> DEFINE names == ExternalFunctions
           needed == <<{"STR"}>> \o Accepted(ArgTypes[Obj(0).val])
<1>1. ASSUME NEW state, state # "ok", Fail(state)
      PROVE  FrameStep
  BY <1>1, FailKeeps
<1>2. ASSUME NEW m, Keeps(m, OperandsOf(Depth)), m.bp = vm.bp, Commit(m), UNCHANGED calls
      PROVE  FrameStep
  BY <1>2, CommitKeeps
<1>3. ASSUME NEW m, Keeps(m, OperandsOf(Depth)), m.bp = vm.bp, NEW o, Commit(Push(m, o)), UNCHANGED calls
      PROVE  FrameStep
  BY <1>3, CommitPushKeeps
<1>4. ASSUME NEW m, IsMachine(m), m.state # "ok", Commit(m), UNCHANGED calls
      PROVE  FrameStep
  BY <1>4, CommitEnds DEF FrameStep, StepKeeps
<1>5. ASSUME NEW state \in MisfitStates(needed), Fail(state)
      PROVE  FrameStep
  <2>1. state # "ok"
    BY <1>5 DEF MisfitStates
  <2> QED
    BY <1>1, <1>5, <2>1
\* The machine with the name and the arguments popped.
<1>6. ASSUME Instr("EXTCALL"), Obj(0).val \in names, OperandsAre(needed)
      PROVE  /\ IsMachine(Consumed)
             /\ Consumed.state = "ok" => Keeps(Consumed, OperandsOf(Depth)) /\ Consumed.bp = vm.bp
  BY <1>6, ConsumedKeeps DEF KeepsAll
<1>7. ASSUME IsMachine(Consumed), Commit(Consumed), UNCHANGED calls,
             Consumed.state = "ok" => Keeps(Consumed, OperandsOf(Depth)) /\ Consumed.bp = vm.bp
      PROVE  FrameStep
  BY <1>2, <1>4, <1>7
<1>8. ASSUME IsMachine(Consumed), NEW o, Return(Consumed, o),
             Consumed.state = "ok" => Keeps(Consumed, OperandsOf(Depth)) /\ Consumed.bp = vm.bp
      PROVE  FrameStep
  BY <1>3, <1>4, <1>8 DEF Return
<1> HIDE DEF FrameStep, Commit, Fail, Instr, Consumed, IsMachine, needed, Return
<1>9. CASE ExtSetIsr
  <2>1. ASSUME IsMachine(Consumed), RegisterIsr,
               Consumed.state = "ok" => Keeps(Consumed, OperandsOf(Depth)) /\ Consumed.bp = vm.bp
        PROVE  FrameStep
    <3>1. CASE Consumed.state # "ok"
      BY <1>1, <2>1, <3>1 DEF RegisterIsr
    <3>2. CASE Consumed.state = "ok" /\ Fail("undefined")
      BY <1>1, <3>2
    <3>3. CASE Consumed.state = "ok" /\ ~ Fail("undefined")
      <4>1. vm' = Wrapped(Consumed) /\ UNCHANGED <<prog, code, calls>> /\ run' = "head"
        BY <2>1, <3>3 DEF RegisterIsr, SetISR
      <4>2. StepKeeps
        BY <2>1, <3>3, <4>1, Becomes
      <4> QED
        BY <2>1, <3>3, <4>1, <4>2, WrappedMachine DEF FrameStep
    <3> QED
      BY <3>1, <3>2, <3>3
  <2>2. Instr("EXTCALL") /\ Obj(0).val \in names
    BY <1>9 DEF ExtSetIsr, ExtCall, ExternalFunctions
  <2> QED
    BY <1>5, <1>6, <1>9, <2>1, <2>2 DEF ExtSetIsr, ExtCall, needed
<1>10. CASE ExtSetTimer
  <2>1. ASSUME IsMachine(Consumed), SetTimer,
               Consumed.state = "ok" => Keeps(Consumed, OperandsOf(Depth)) /\ Consumed.bp = vm.bp
        PROVE  FrameStep
    <3>1. CASE Consumed.state # "ok"
      BY <1>1, <2>1, <3>1 DEF SetTimer
    <3>2. CASE Consumed.state = "ok"
      <4>1. vm' = Wrapped(Consumed) /\ UNCHANGED <<prog, code, calls>> /\ run' \in {"head", "join"}
        BY <2>1, <3>2 DEF SetTimer, StopTimerCall, StopTimer, StartTimer
      <4>2. StepKeeps
        BY <2>1, <3>2, <4>1, Becomes
      <4> QED
        BY <2>1, <3>2, <4>1, <4>2, WrappedMachine DEF FrameStep
    <3> QED
      BY <3>1, <3>2
  <2>2. Instr("EXTCALL") /\ Obj(0).val \in names
    BY <1>10 DEF ExtSetTimer, ExtCall, ExternalFunctions
  <2> QED
    BY <1>5, <1>6, <1>10, <2>1, <2>2 DEF ExtSetTimer, ExtCall, needed
<1>11. CASE ExtSleep \/ ExtPrint
  <2>1. /\ Instr("EXTCALL") /\ Obj(0).val \in names
        /\ \/ OperandsAre(needed) /\ Commit(Consumed) /\ UNCHANGED calls
           \/ \E state \in MisfitStates(needed) : Fail(state)
    BY <1>11 DEF ExtSleep, ExtPrint, ExtCall, ExternalFunctions, needed
  <2> QED
    BY <1>5, <1>6, <1>7, <2>1
<1>12. CASE ExtSetEps
  <2> DEFINE x == ToReal(Obj(1))
             m == [Consumed EXCEPT !.eps = x]
  <2>1. /\ Instr("EXTCALL") /\ Obj(0).val \in names
        /\ \/ OperandsAre(needed) /\ Commit(m) /\ UNCHANGED calls
           \/ \E state \in MisfitStates(needed) : Fail(state)
    BY <1>12 DEF ExtSetEps, ExtCall, ExternalFunctions, needed
  <2> HIDE DEF x
  <2>2. CASE OperandsAre(needed) /\ Commit(m) /\ UNCHANGED calls
    <3>1. IsMachine(Consumed)
      BY <1>6, <2>1, <2>2
    <3>2. IsMachine(m) /\ m.state = Consumed.state
      BY <3>1 DEF IsMachine, Registers
    <3>3. Consumed.state = "ok" => Keeps(m, OperandsOf(Depth)) /\ m.bp = vm.bp
      BY <1>6, <2>1, <2>2, RegisterKeeps
    <3> HIDE DEF m
    <3> QED
      BY <1>2, <1>4, <2>2, <3>2, <3>3
  <2> QED
    BY <1>5, <2>1, <2>2
<1>13. CASE ExtGetEps \/ ExtPow \/ ExtReal \/ ExtInput
  <2>1. /\ Instr("EXTCALL") /\ Obj(0).val \in names
        /\ \/ OperandsAre(needed) /\ \E o : Return(Consumed, o)
           \/ \E state \in MisfitStates(needed) : Fail(state)
    <3>1. CASE ExtGetEps
      BY <3>1 DEF ExtGetEps, ExtCall, ExternalFunctions, needed
    <3>2. CASE ExtPow
      BY <3>2 DEF ExtPow, ExtCall, ExternalFunctions, needed
    <3>3. CASE ExtReal
      BY <3>3 DEF ExtReal, ExtCall, ExternalFunctions, needed
    <3>4. CASE ExtInput
      BY <3>4 DEF ExtInput, ExtCall, ExternalFunctions, needed
    <3> QED
      BY <1>13, <3>1, <3>2, <3>3, <3>4
  <2> QED
    BY <1>5, <1>6, <1>8, <2>1
<1>14. CASE ExtUnknown
  <2>1. Instr("EXTCALL") /\ Obj(0).val \notin ExternalFunctions
        /\ Commit(Popped(1)) /\ UNCHANGED calls
    BY <1>14 DEF ExtUnknown
  <2>2. "EXTCALL" \in DOMAIN Operands /\ Len(Operands["EXTCALL"]) = 1
        /\ DOMAIN Operands["EXTCALL"] = 1 .. 1 /\ Operands["EXTCALL"][1] = {"STR"}
    BY DEF Operands, Opcodes, ArithmeticOps, ComparisonOps, LogicalOps, BinaryOps, CastTo
  <2>3. ObjAddr(1 + 0) <= OperandsOf(Depth)
    BY <2>1, <2>2 DEF Ready, TakesOwnOperands
  <2>4. IsObject(ObjAddr(1 - 1), Operands["EXTCALL"][1])
    BY <2>1, <2>2 DEF Instr, OperandsFit, OperandsAre
  <2>5. \A k \in 0 .. 1 - 1 : ObjAddr(k) \in DOMAIN vm.mem
    BY <2>4 DEF IsObject
  <2>6. KeepsAll(Popped(1), ObjAddr(1))
    BY <2>3, <2>5, PoppedKeeps
  <2> QED
    BY <1>2, <2>1, <2>6 DEF KeepsAll
<1> QED
  BY <1>9, <1>10, <1>11, <1>12, <1>13, <1>14 DEF Extcall

-----------------------------------------------------------------------------
(* The chain of frames. *)

\* The frames lie one below the other: a call's saved registers are below the
\* operands of every call that was active before it.
Nested ==
    /\ \E S : calls \in Seq(S)
    /\ \A i \in 1 .. Depth : calls[i].sp \in Int /\ calls[i].bp = BaseOf(i - 1)
    /\ \A j \in 1 .. Depth : \A i \in 0 .. j - 1 : calls[j].sp <= OperandsOf(i)

Linked(mem) ==
    \A i \in 1 .. Depth :
        /\ BaseOf(i) \in DOMAIN mem /\ mem[BaseOf(i)] = AddrMem(calls[i].bp)
        /\ BaseOf(i) + 5 \in DOMAIN mem /\ mem[BaseOf(i) + 5] = AddrMem(calls[i].ip)

\* The machine while it runs.
Standing ==
    /\ MemoryOK /\ Linked(vm.mem)
    /\ vm.bp = BaseOf(Depth) /\ vm.sp <= OperandsOf(Depth)
    /\ CodeIn(vm.mem) \/ vm.sp < code.end

LEMMA Frames ==
    ASSUME Nested
    PROVE  /\ Depth \in Nat /\ DOMAIN calls = 1 .. Depth /\ \E S : calls \in Seq(S)
           /\ m_gbp \in Int /\ m_framesize \in Nat /\ OperandsOf(0) = m_memsize - m_framesize
           /\ \A n \in 0 .. Depth : BaseOf(n) \in Int /\ OperandsOf(n) \in Int
           /\ \A n \in 1 .. Depth : /\ BaseOf(n) = calls[n].sp - 10
                                    /\ OperandsOf(n) = BaseOf(n) - m_framesize
                                    /\ calls[n].sp \in Int /\ calls[n].bp = BaseOf(n - 1)
           /\ \A n \in 0 .. Depth : OperandsOf(Depth) <= OperandsOf(n)
           /\ \A n \in 1 .. Depth : OperandsOf(Depth) <= BaseOf(n)
           /\ \A j \in 1 .. Depth : \A i \in 0 .. j - 1 : calls[j].sp <= OperandsOf(i)
<1>1. Depth \in Nat /\ DOMAIN calls = 1 .. Depth
  BY DEF Nested, Depth
<1>2. m_gbp \in Int /\ m_framesize \in Nat /\ OperandsOf(0) = m_memsize - m_framesize /\ OperandsOf(0) \in Int
      /\ BaseOf(0) \in Int
  BY SizesAssumption DEF m_gbp, GlobalPadding, OperandsOf, BaseOf
<1>3. \A n \in 1 .. Depth : /\ BaseOf(n) = calls[n].sp - 10
                            /\ OperandsOf(n) = BaseOf(n) - m_framesize
                            /\ calls[n].sp \in Int /\ calls[n].bp = BaseOf(n - 1)
  <2> SUFFICES ASSUME NEW n \in 1 .. Depth
               PROVE  /\ BaseOf(n) = calls[n].sp - 10
                      /\ OperandsOf(n) = BaseOf(n) - m_framesize
                      /\ calls[n].sp \in Int /\ calls[n].bp = BaseOf(n - 1)
    OBVIOUS
  <2>1. n # 0 /\ SavedSize = 10
    BY DEF SavedSize, m_bytesize, m_addrsize
  <2>2. BaseOf(n) = calls[n].sp - 10 /\ OperandsOf(n) = BaseOf(n) - m_framesize
    BY <2>1 DEF BaseOf, FrameBase, OperandsOf
  <2> QED
    BY <2>2 DEF Nested
<1>4. \A n \in 1 .. Depth : BaseOf(n) \in Int /\ OperandsOf(n) \in Int /\ OperandsOf(n) <= BaseOf(n)
                           /\ OperandsOf(n) <= calls[n].sp
  BY <1>2, <1>3
<1>5. \A n \in 0 .. Depth : BaseOf(n) \in Int /\ OperandsOf(n) \in Int
  <2>1. \A n \in 0 .. Depth : n = 0 \/ n \in 1 .. Depth
    BY <1>1
  <2> QED
    BY <1>2, <1>4, <2>1
<1>6. \A j \in 1 .. Depth : \A i \in 0 .. j - 1 : calls[j].sp <= OperandsOf(i)
  BY DEF Nested
<1>7. ASSUME NEW n \in 0 .. Depth PROVE OperandsOf(Depth) <= OperandsOf(n)
  <2>1. CASE n = Depth
    BY <1>5, <2>1
  <2>2. CASE n # Depth
    <3>1. Depth \in 1 .. Depth /\ n \in 0 .. Depth - 1 /\ Depth \in 0 .. Depth
      BY <1>1, <2>2
    <3>2. calls[Depth].sp <= OperandsOf(n) /\ OperandsOf(Depth) <= calls[Depth].sp
      BY <1>4, <1>6, <3>1
    <3>3. OperandsOf(n) \in Int /\ OperandsOf(Depth) \in Int /\ calls[Depth].sp \in Int
      BY <1>3, <1>5, <3>1
    <3> QED
      BY <3>2, <3>3
  <2> QED
    BY <2>1, <2>2
<1>8. ASSUME NEW n \in 1 .. Depth PROVE OperandsOf(Depth) <= BaseOf(n)
  <2>1. n \in 0 .. Depth /\ Depth \in 0 .. Depth
    BY <1>1
  <2>2. OperandsOf(Depth) <= OperandsOf(n) /\ OperandsOf(n) <= BaseOf(n)
    BY <1>4, <1>7, <2>1
  <2>3. OperandsOf(n) \in Int /\ OperandsOf(Depth) \in Int /\ BaseOf(n) \in Int
    BY <1>5, <2>1
  <2> QED
    BY <2>2, <2>3
<1>9. \E S : calls \in Seq(S)
  BY DEF Nested
<1> QED
  BY <1>1, <1>2, <1>3, <1>5, <1>6, <1>7, <1>8, <1>9

\* What lies above the operands of the active frame includes all links.
LEMMA LinksSame ==
    ASSUME Nested, Linked(vm.mem), NEW mem, SameAbove(mem, OperandsOf(Depth))
    PROVE  Linked(mem)
<1> SUFFICES ASSUME NEW i \in 1 .. Depth
             PROVE  /\ BaseOf(i) \in DOMAIN mem /\ mem[BaseOf(i)] = AddrMem(calls[i].bp)
                    /\ BaseOf(i) + 5 \in DOMAIN mem /\ mem[BaseOf(i) + 5] = AddrMem(calls[i].ip)
  BY DEF Linked
<1>1. Depth \in Nat /\ i \in 0 .. Depth /\ Depth \in 0 .. Depth
  BY Frames
<1>2. /\ BaseOf(i) \in Int /\ OperandsOf(Depth) \in Int /\ OperandsOf(Depth) <= BaseOf(i)
  BY <1>1, Frames
<1>3. BaseOf(i) + 5 \in Int /\ OperandsOf(Depth) <= BaseOf(i) + 5
  BY <1>2
<1>4. \A a \in Int : a >= OperandsOf(Depth) =>
          /\ a \in DOMAIN mem <=> a \in DOMAIN vm.mem
          /\ a \in DOMAIN mem => mem[a] = vm.mem[a]
  BY DEF SameAbove
<1>5. /\ BaseOf(i) \in DOMAIN vm.mem /\ vm.mem[BaseOf(i)] = AddrMem(calls[i].bp)
      /\ BaseOf(i) + 5 \in DOMAIN vm.mem /\ vm.mem[BaseOf(i) + 5] = AddrMem(calls[i].ip)
  BY DEF Linked
<1> QED
  BY ONLY <1>2, <1>3, <1>4, <1>5

LEMMA FrameStepStands ==
    ASSUME Nested, Standing, FrameStep, vm'.state = "ok"
    PROVE  Nested' /\ Standing'
<1>1. UNCHANGED <<calls, code>>
  BY DEF FrameStep
<1>2. Keeps(vm', OperandsOf(Depth)) /\ vm'.bp = vm.bp
  BY DEF FrameStep, StepKeeps
<1>3. Nested' /\ Depth' = Depth
  BY <1>1 DEF Nested, Depth, BaseOf, OperandsOf, FrameBase
<1>4. \A n : BaseOf(n)' = BaseOf(n) /\ OperandsOf(n)' = OperandsOf(n)
  BY <1>1 DEF BaseOf, OperandsOf, FrameBase
<1>5. Linked(vm'.mem)
  BY <1>2, LinksSame DEF Keeps, Standing
<1>6. Linked(vm.mem)'
  BY <1>1, <1>3, <1>4, <1>5 DEF Linked
<1>7. MemoryOK'
  BY <1>2 DEF MemoryOK, Keeps, SameAbove, IsMachine
<1>8. vm'.bp = BaseOf(Depth)' /\ vm'.sp <= OperandsOf(Depth)'
  BY <1>2, <1>3, <1>4 DEF Keeps, Standing
<1>9. (CodeIn(vm.mem) \/ vm.sp < code.end)'
  BY <1>1, <1>2 DEF Keeps, CodeIn
<1> QED
  BY <1>3, <1>6, <1>7, <1>8, <1>9 DEF Standing

LEMMA FramesApart ==
    ASSUME Nested, NEW j \in 1 .. Depth, NEW i \in 1 .. j
    PROVE  BaseOf(j) <= BaseOf(i) /\ OperandsOf(j) <= BaseOf(i)
<1>1. Depth \in Nat /\ i \in 1 .. Depth /\ j \in Nat /\ i \in Nat /\ m_framesize \in Nat
  BY Frames
<1>2. /\ BaseOf(j) = calls[j].sp - 10 /\ OperandsOf(j) = BaseOf(j) - m_framesize
      /\ BaseOf(i) = calls[i].sp - 10 /\ OperandsOf(i) = BaseOf(i) - m_framesize
      /\ calls[i].sp \in Int /\ calls[j].sp \in Int
  BY <1>1, Frames
<1>3. CASE i = j
  BY <1>1, <1>2, <1>3
<1>4. CASE i # j
  <2>1. i \in 0 .. j - 1
    BY <1>1, <1>4
  <2>2. calls[j].sp <= OperandsOf(i)
    BY <2>1, Frames
  <2> QED
    BY <1>1, <1>2, <2>2
<1> QED
  BY <1>3, <1>4

LEMMA WriteLeaves ==
    ASSUME NEW mem, NEW a, NEW o, NEW b \in DOMAIN mem, a # b,
           b + SizeOf(mem[b]) <= a \/ a + SizeOf(o) <= b
    PROVE  b \in DOMAIN WriteObject(mem, a, o) /\ WriteObject(mem, a, o)[b] = mem[b]
BY DEF WriteObject

\* The place of a variable is above the stack pointer, and touches no link.
LEMMA VariablePlace ==
    ASSUME Ready, Nested, Standing, WritesVariable, Instr("WRMEM"),
           NEW size \in Nat \ {0}, SizeOf(Obj(1)) = size
    PROVE  /\ AddressOnTop \in Int /\ AddressOnTop >= OperandsOf(Depth)
           /\ \A i \in 1 .. Depth : \/ BaseOf(i) + 10 <= AddressOnTop
                                    \/ AddressOnTop + size <= BaseOf(i)
<1> DEFINE a == AddressOnTop
<1>1. /\ Depth \in Nat /\ m_framesize \in Nat
      /\ \A n \in 0 .. Depth : BaseOf(n) \in Int /\ OperandsOf(n) \in Int
      /\ \A n \in 1 .. Depth : /\ BaseOf(n) = calls[n].sp - 10
                               /\ OperandsOf(n) = BaseOf(n) - m_framesize
                               /\ calls[n].sp \in Int
      /\ \A n \in 0 .. Depth : OperandsOf(Depth) <= OperandsOf(n)
      /\ \A j \in 1 .. Depth : \A i \in 0 .. j - 1 : calls[j].sp <= OperandsOf(i)
  BY Frames
<1>2. \/ Depth > 0 /\ a \in OperandsOf(Depth) .. BaseOf(Depth) - size
      \/ a \in OperandsOf(0) .. m_memsize - size
      \/ Depth > 0 /\ a \in BaseOf(Depth) + SavedSize .. OperandsOf(Depth - 1) - size
  BY DEF WritesVariable
<1> HIDE DEF a
<1>3. CASE Depth > 0 /\ a \in OperandsOf(Depth) .. BaseOf(Depth) - size
  <2>1. Depth \in 1 .. Depth /\ Depth \in 0 .. Depth
    BY <1>1, <1>3
  <2>2. BaseOf(Depth) \in Int /\ OperandsOf(Depth) \in Int
    BY <1>1, <2>1
  <2>3. a \in Int /\ a >= OperandsOf(Depth) /\ a + size <= BaseOf(Depth)
    BY <1>3, <2>2
  <2>4. ASSUME NEW i \in 1 .. Depth PROVE a + size <= BaseOf(i)
    <3>1. BaseOf(Depth) <= BaseOf(i) /\ BaseOf(i) \in Int
      BY <1>1, <2>1, FramesApart
    <3> QED
      BY <2>2, <2>3, <3>1
  <2> QED
    BY <2>3, <2>4 DEF a
<1>4. CASE a \in OperandsOf(0) .. m_memsize - size
  <2>1. 0 \in 0 .. Depth /\ Depth \in 0 .. Depth /\ m_memsize \in Nat
    BY <1>1, SizesAssumption
  <2>2. OperandsOf(0) \in Int /\ OperandsOf(Depth) \in Int /\ OperandsOf(Depth) <= OperandsOf(0)
    BY <1>1, <2>1
  <2>3. a \in Int /\ a >= OperandsOf(0)
    BY <1>4, <2>1, <2>2
  <2>4. ASSUME NEW i \in 1 .. Depth PROVE BaseOf(i) + 10 <= a
    <3>1. 0 \in 0 .. i - 1
      OBVIOUS
    <3>2. calls[i].sp <= OperandsOf(0) /\ calls[i].sp \in Int /\ BaseOf(i) = calls[i].sp - 10
      BY <1>1, <3>1
    <3> QED
      BY <2>2, <2>3, <3>2
  <2>5. a >= OperandsOf(Depth)
    BY <2>2, <2>3
  <2> QED
    BY <2>3, <2>4, <2>5 DEF a
<1>5. CASE Depth > 0 /\ a \in BaseOf(Depth) + SavedSize .. OperandsOf(Depth - 1) - size
  <2>1. Depth \in 1 .. Depth /\ Depth \in 0 .. Depth /\ Depth - 1 \in 0 .. Depth
    BY <1>1, <1>5
  <2>2. BaseOf(Depth) \in Int /\ OperandsOf(Depth) = BaseOf(Depth) - m_framesize
        /\ OperandsOf(Depth - 1) \in Int
    BY <1>1, <2>1
  <2>3. a \in Int /\ a >= BaseOf(Depth) + 10 /\ a + size <= OperandsOf(Depth - 1)
    BY <1>5, <2>2 DEF SavedSize, m_bytesize, m_addrsize
  <2>4. ASSUME NEW i \in 1 .. Depth PROVE BaseOf(i) + 10 <= a \/ a + size <= BaseOf(i)
    <3>1. CASE i = Depth
      BY <2>2, <2>3, <3>1
    <3>2. CASE i # Depth
      <4>1. Depth - 1 \in 1 .. Depth /\ i \in 1 .. Depth - 1 /\ BaseOf(i) \in Int
        BY <1>1, <3>2
      <4>2. OperandsOf(Depth - 1) <= BaseOf(i)
        BY <4>1, FramesApart
      <4> QED
        BY <2>2, <2>3, <4>1, <4>2
    <3> QED
      BY <3>1, <3>2
  <2>5. a >= OperandsOf(Depth)
    BY <1>1, <2>2, <2>3
  <2> QED
    BY <2>3, <2>4, <2>5 DEF a
<1> QED
  BY <1>2, <1>3, <1>4, <1>5

\* WRMEM has popped two objects, and puts the second where the first says.
LEMMA WrmemIs ==
    ASSUME Ready, Nested, Standing, WritesVariable, Wrmem, vm'.state = "ok"
    PROVE  LET a == AddressOnTop
               mem == WriteObject(Popped(2).mem, a, Obj(1))
           IN  /\ run' = "head" /\ UNCHANGED <<prog, code, calls>>
               /\ KeepsAll(Popped(2), ObjAddr(2)) /\ ObjAddr(2) \in Int
               /\ SizeOf(Obj(1)) \in Nat \ {0} /\ a \in Int /\ a >= OperandsOf(Depth)
               /\ \A i \in 1 .. Depth : BaseOf(i) + 10 <= a \/ a + SizeOf(Obj(1)) <= BaseOf(i)
               /\ IsMachine(vm') /\ vm'.sp = ObjAddr(2) /\ vm'.bp = vm.bp /\ vm'.mem = mem
<1> DEFINE a == AddressOnTop
           o == Obj(1)
           mem == WriteObject(Popped(2).mem, a, o)
           m == [Popped(2) EXCEPT !.mem = mem]
<1>1. Instr("WRMEM")
  BY DEF Wrmem
<1>2. "WRMEM" \in Opcodes /\ Len(Operands["WRMEM"]) = 2 /\ DOMAIN Operands["WRMEM"] = 1 .. 2
  BY OperandCounts
<1>3. KeepsAll(Popped(2), ObjAddr(2))
  BY <1>1, <1>2, OperandsPopped
<1>4. ObjAddr(1) \in DOMAIN vm.mem
  <2>1. \A k \in 0 .. 2 - 1 : ObjAddr(k) \in DOMAIN vm.mem
    BY <1>1, <1>2, OperandsFound
  <2>2. 1 \in 0 .. 2 - 1
    OBVIOUS
  <2> QED
    BY <2>1, <2>2
<1>5. SizeOf(o) \in Nat \ {0}
  BY <1>4 DEF Obj, Ready, Sized
<1>6. /\ a \in Int /\ a >= OperandsOf(Depth)
      /\ \A i \in 1 .. Depth : BaseOf(i) + 10 <= a \/ a + SizeOf(o) <= BaseOf(i)
  BY <1>1, <1>5, VariablePlace
<1>7. Commit(m) /\ UNCHANGED calls
  <2>1. ~ Fail("exception")
    BY DEF Fail, Ready, MemoryOK, IsMachine, Registers
  <2>2. [Popped(2) EXCEPT !.mem = WriteObject(@, AddressOnTop, Obj(1))] = m
    BY <1>3 DEF KeepsAll, Keeps, IsMachine, Registers
  <2> HIDE DEF m
  <2> QED
    BY <2>1, <2>2 DEF Wrmem
<1> HIDE DEF mem
<1>8. IsMachine(m) /\ m.sp = ObjAddr(2) /\ m.bp = vm.bp /\ m.mem = mem
  BY <1>3 DEF KeepsAll, Keeps, IsMachine, Registers
<1> HIDE DEF m
<1>9. /\ IsMachine(vm') /\ vm'.sp = ObjAddr(2) /\ vm'.bp = vm.bp /\ vm'.mem = mem
      /\ run' = "head" /\ UNCHANGED <<prog, code>>
  <2>1. vm' = Wrapped(m) /\ UNCHANGED <<prog, code>> /\ vm'.state = m.state
        /\ (run' = "left" \/ run' = "head")
    BY <1>7, <1>8, CommitEnds
  <2>2. m.state = "ok"
    BY <2>1
  <2>3. run' = "head"
    BY <1>7, <2>2 DEF Commit, Execute
  <2> QED
    BY <1>8, <2>1, <2>3, WrappedMachine
<1>10. ObjAddr(2) \in Int
  BY <1>3 DEF KeepsAll, Keeps
<1> HIDE DEF a, o
<1> QED
  BY <1>3, <1>5, <1>6, <1>7, <1>9, <1>10 DEF mem, a, o

LEMMA WrmemStands ==
    ASSUME Ready, Nested, Standing, WritesVariable, Wrmem, vm'.state = "ok"
    PROVE  Nested' /\ Standing' /\ run' = "head" /\ UNCHANGED <<prog, code, calls>>
<1> DEFINE a == AddressOnTop
           o == Obj(1)
           old == Popped(2).mem
           mem == WriteObject(old, a, o)
           top == OperandsOf(Depth)
<1>1. /\ run' = "head" /\ UNCHANGED <<prog, code, calls>>
      /\ KeepsAll(Popped(2), ObjAddr(2)) /\ ObjAddr(2) \in Int
      /\ SizeOf(o) \in Nat \ {0} /\ a \in Int /\ a >= top
      /\ \A i \in 1 .. Depth : BaseOf(i) + 10 <= a \/ a + SizeOf(o) <= BaseOf(i)
      /\ IsMachine(vm') /\ vm'.sp = ObjAddr(2) /\ vm'.bp = vm.bp /\ vm'.mem = mem
  BY WrmemIs
<1> HIDE DEF a, o
<1>2. SameAbove(old, top) /\ CodeIn(old) /\ ObjAddr(2) <= top
  BY <1>1 DEF KeepsAll, Keeps
<1> HIDE DEF old
<1>3. /\ Depth \in Nat /\ top \in Int /\ \A i \in 1 .. Depth : BaseOf(i) \in Int
      /\ code.end \in Nat /\ a >= code.end
  <2>1. Depth \in Nat /\ top \in Int /\ \A i \in 1 .. Depth : BaseOf(i) \in Int
    BY Frames
  <2>2. code.end \in Nat /\ vm.sp >= code.end /\ vm.sp \in Int /\ vm.sp <= top
    BY DEF Ready, CodeLaid, MemoryOK
  <2> HIDE DEF top
  <2> QED
    BY <1>1, <2>1, <2>2
<1>4. Linked(old)
  BY <1>2, LinksSame DEF Standing
<1>5. Linked(mem)
  <2> SUFFICES ASSUME NEW i \in 1 .. Depth
               PROVE  /\ BaseOf(i) \in DOMAIN mem /\ mem[BaseOf(i)] = AddrMem(calls[i].bp)
                      /\ BaseOf(i) + 5 \in DOMAIN mem /\ mem[BaseOf(i) + 5] = AddrMem(calls[i].ip)
    BY DEF Linked
  <2> DEFINE b == BaseOf(i)
  <2>1. /\ b \in DOMAIN old /\ old[b] = AddrMem(calls[i].bp)
        /\ b + 5 \in DOMAIN old /\ old[b + 5] = AddrMem(calls[i].ip)
    BY <1>4 DEF Linked
  <2>2. SizeOf(old[b]) = 5 /\ SizeOf(old[b + 5]) = 5
    BY <2>1 DEF AddrMem, SizeOf, PayloadSize, m_bytesize, m_addrsize
  <2>3. b \in Int /\ (b + 10 <= a \/ a + SizeOf(o) <= b)
    BY <1>1, <1>3
  <2> HIDE DEF b
  <2>4. /\ a # b /\ a # b + 5
        /\ b + SizeOf(old[b]) <= a \/ a + SizeOf(o) <= b
        /\ (b + 5) + SizeOf(old[b + 5]) <= a \/ a + SizeOf(o) <= b + 5
    BY <1>1, <2>2, <2>3
  <2>5. b \in DOMAIN mem /\ mem[b] = old[b]
    BY <2>1, <2>4, WriteLeaves
  <2>6. b + 5 \in DOMAIN mem /\ mem[b + 5] = old[b + 5]
    BY <2>1, <2>4, WriteLeaves
  <2> QED
    BY <2>1, <2>5, <2>6 DEF b
<1>6. CodeIn(mem)
  <2> SUFFICES ASSUME NEW b \in DOMAIN code.mem PROVE b \in DOMAIN mem /\ mem[b] = code.mem[b]
    BY DEF CodeIn
  <2>1. b \in DOMAIN old /\ old[b] = code.mem[b]
    BY <1>2 DEF CodeIn
  <2>2. b \in Nat /\ SizeOf(code.mem[b]) \in Nat \ {0} /\ b + SizeOf(code.mem[b]) <= code.end
    BY DEF CodeLaid, Ready
  <2>3. b + SizeOf(old[b]) <= a /\ a # b
    BY <1>1, <1>3, <2>1, <2>2
  <2> QED
    BY <2>1, <2>3, WriteLeaves
<1>7. DOMAIN mem \subseteq Int
  <2>1. DOMAIN mem \subseteq {a} \cup DOMAIN old
    BY DEF WriteObject
  <2> HIDE DEF mem
  <2> QED
    BY <1>1, <1>2, <2>1 DEF SameAbove
<1> HIDE DEF mem
<1>8. Nested' /\ Depth' = Depth
  BY <1>1 DEF Nested, Depth, BaseOf, OperandsOf, FrameBase
<1>9. \A n : BaseOf(n)' = BaseOf(n) /\ OperandsOf(n)' = OperandsOf(n)
  BY <1>1 DEF BaseOf, OperandsOf, FrameBase
<1>10. Linked(vm.mem)'
  BY <1>1, <1>5, <1>8, <1>9 DEF Linked
<1>11. MemoryOK'
  BY <1>1, <1>7 DEF MemoryOK, IsMachine
<1>12. vm'.bp = BaseOf(Depth)' /\ vm'.sp <= OperandsOf(Depth)'
  BY <1>1, <1>2, <1>8, <1>9 DEF Standing
<1>13. CodeIn(vm.mem)'
  BY <1>1, <1>6 DEF CodeIn
<1> QED
  BY <1>1, <1>8, <1>10, <1>11, <1>12, <1>13 DEF Standing

\* CALL saves two registers and opens a frame below them.
LEMMA CallEffect ==
    ASSUME CodeLaid, NEW top \in Int, NEW p, Keeps(p, top), NEW addr,
           CallFunction(p, addr).state = "ok"
    PROVE  LET m == CallFunction(p, addr)
               base == p.sp - 10
           IN  /\ Keeps(m, top)
               /\ m.sp = base - m_framesize /\ m.bp = base
               /\ base \in DOMAIN m.mem /\ m.mem[base] = AddrMem(p.bp)
               /\ base + 5 \in DOMAIN m.mem /\ m.mem[base + 5] = AddrMem(p.ip)
<1> DEFINE one == Push(p, AddrMem(p.ip))
           two == Push(one, AddrMem(p.bp))
           base == p.sp - 10
           m == [two EXCEPT !.bp = two.sp, !.sp = two.sp - m_framesize, !.ip = addr]
<1>1. CallFunction(p, addr) = m
  <2>1. one = Push(p, AddrMem(p.ip)) /\ two = Push(one, AddrMem(p.bp))
    OBVIOUS
  <2>2. IsMachine(one) /\ IsMachine(two)
    <3>1. IsMachine(one)
      BY PushMachine DEF Keeps
    <3> HIDE DEF one
    <3> QED
      BY <3>1, PushMachine
  <2>3. CallFunction(p, addr) = [two EXCEPT !.bp = two.sp, !.sp = @ - m_framesize, !.ip = addr]
          \/ CallFunction(p, addr) = m
    BY DEF CallFunction
  <2>4. [two EXCEPT !.bp = two.sp, !.sp = @ - m_framesize, !.ip = addr] = m
    <3> HIDE DEF two
    <3> QED
      BY <2>2 DEF IsMachine, Registers
  <2> HIDE DEF m
  <2> QED
    BY <2>3, <2>4
<1>2. \A x : SizeOf(AddrMem(x)) = 5
  BY DEF AddrMem, SizeOf, PayloadSize, m_bytesize, m_addrsize
<1>3. IsMachine(p) /\ p.sp \in Int /\ p.sp <= top /\ m_framesize \in Nat
  BY SizesAssumption DEF Keeps
<1>4. IsMachine(one) /\ IsMachine(two)
  <2>1. IsMachine(one)
    BY <1>3, PushMachine
  <2> HIDE DEF one
  <2> QED
    BY <2>1, PushMachine
<1>5. two.state = "ok" /\ IsMachine(m) /\ m.bp = two.sp /\ m.sp = two.sp - m_framesize /\ m.mem = two.mem
  <2> HIDE DEF two
  <2>1. IsMachine(m) /\ m.bp = two.sp /\ m.sp = two.sp - m_framesize /\ m.mem = two.mem /\ m.state = two.state
    BY <1>4 DEF IsMachine, Registers
  <2> HIDE DEF m
  <2> QED
    BY <1>1, <2>1
<1>6. /\ one.state = "ok" /\ two.sp = one.sp - 5
      /\ two.mem = WriteObject(one.mem, two.sp, AddrMem(p.bp))
      /\ two.sp \in DOMAIN two.mem /\ two.mem[two.sp] = AddrMem(p.bp)
  <2> HIDE DEF one
  <2>1. /\ one.state = "ok" /\ two.sp = one.sp - SizeOf(AddrMem(p.bp))
        /\ two.mem = WriteObject(one.mem, one.sp - SizeOf(AddrMem(p.bp)), AddrMem(p.bp))
        /\ two.sp \in DOMAIN two.mem /\ two.mem[two.sp] = AddrMem(p.bp)
    BY <1>4, <1>5, PushEffect
  <2> HIDE DEF two
  <2> QED
    BY <1>2, <2>1
<1>7. /\ p.state = "ok" /\ one.sp = p.sp - 5
      /\ one.sp \in DOMAIN one.mem /\ one.mem[one.sp] = AddrMem(p.ip)
  <2>1. /\ p.state = "ok" /\ one.sp = p.sp - SizeOf(AddrMem(p.ip))
        /\ one.sp \in DOMAIN one.mem /\ one.mem[one.sp] = AddrMem(p.ip)
    BY <1>3, <1>6, PushEffect
  <2> HIDE DEF one
  <2> QED
    BY <1>2, <2>1
<1>8. Keeps(one, top)
  BY <1>2, <1>6, PushKeeps
<1>9. Keeps(two, top)
  <2> HIDE DEF one
  <2> QED
    BY <1>2, <1>5, <1>8, PushKeeps
<1> HIDE DEF one, two, m
<1>10. two.sp = base /\ base \in Int /\ one.sp = base + 5
  BY <1>3, <1>6, <1>7
<1>11. one.sp \in DOMAIN two.mem /\ two.mem[one.sp] = one.mem[one.sp]
  <2>1. two.sp # one.sp /\ two.sp + SizeOf(AddrMem(p.bp)) <= one.sp
    BY <1>2, <1>10
  <2> QED
    BY <1>6, <1>7, <2>1, WriteLeaves
<1>12. Keeps(m, top)
  <2>1. code.end \in Nat
    BY DEF CodeLaid
  <2>2. m.sp \in Int /\ m.sp <= top /\ (two.sp < code.end => m.sp < code.end)
    BY <1>3, <1>5, <1>10, <2>1
  <2> QED
    BY <1>5, <1>9, <2>2 DEF Keeps
<1> QED
  BY <1>1, <1>5, <1>6, <1>7, <1>10, <1>11, <1>12

LEMMA CallStands ==
    ASSUME CodeLaid, Nested, Linked(vm.mem), vm.bp = BaseOf(Depth),
           NEW p, Keeps(p, OperandsOf(Depth)), p.bp = vm.bp, NEW addr, NEW byIrq \in BOOLEAN,
           CallFunction(p, addr).state = "ok",
           vm' = Wrapped(CallFunction(p, addr)), UNCHANGED code,
           calls' = Append(calls, Interrupted(p, byIrq))
    PROVE  Nested' /\ Standing' /\ vm'.state = "ok"
<1> DEFINE m == CallFunction(p, addr)
           c == Interrupted(p, byIrq)
           base == p.sp - 10
<1>0. PICK n \in Nat : n = Depth
  BY Frames
<1>1. /\ n \in Nat /\ n \in 0 .. n /\ OperandsOf(n) \in Int /\ m_framesize \in Nat
      /\ \E S : calls \in Seq(S)
      /\ \A i \in 0 .. n : BaseOf(i) \in Int /\ OperandsOf(i) \in Int /\ OperandsOf(n) <= OperandsOf(i)
      /\ \A i \in 1 .. n : calls[i].sp \in Int /\ calls[i].bp = BaseOf(i - 1)
      /\ \A j \in 1 .. n : \A i \in 0 .. j - 1 : calls[j].sp <= OperandsOf(i)
  <2>1. n \in 0 .. n
    BY <1>0
  <2>2. /\ m_framesize \in Nat /\ \E S : calls \in Seq(S)
        /\ \A i \in 0 .. n : BaseOf(i) \in Int /\ OperandsOf(i) \in Int /\ OperandsOf(n) <= OperandsOf(i)
    BY <1>0, Frames
  <2>3. /\ \A i \in 1 .. n : calls[i].sp \in Int /\ calls[i].bp = BaseOf(i - 1)
        /\ \A j \in 1 .. n : \A i \in 0 .. j - 1 : calls[j].sp <= OperandsOf(i)
    BY <1>0, Frames
  <2> QED
    BY <2>1, <2>2, <2>3
<1>2. /\ Keeps(m, OperandsOf(n))
      /\ m.sp = base - m_framesize /\ m.bp = base
      /\ base \in DOMAIN m.mem /\ m.mem[base] = AddrMem(p.bp)
      /\ base + 5 \in DOMAIN m.mem /\ m.mem[base + 5] = AddrMem(p.ip)
  BY <1>0, <1>1, CallEffect
<1>3. p.sp \in Int /\ p.sp <= OperandsOf(n) /\ c.sp = p.sp /\ c.bp = p.bp /\ c.ip = p.ip
  BY <1>0 DEF Keeps, Interrupted
<1>4. /\ IsMachine(vm') /\ vm'.sp = m.sp /\ vm'.bp = m.bp /\ vm'.mem = m.mem /\ vm'.state = m.state
  <2>1. IsMachine(m)
    BY <1>2 DEF Keeps
  <2> HIDE DEF m
  <2> QED
    BY <2>1, WrappedMachine DEF m
<1> HIDE DEF m
<1>5. /\ \E S : calls' \in Seq(S)
      /\ Len(calls') = n + 1 /\ calls'[n + 1] = c
      /\ \A i \in 1 .. n : calls'[i] = calls[i]
  <2> HIDE DEF c
  <2>1. PICK S : calls \in Seq(S)
    BY <1>1
  <2>2. calls \in Seq(S \cup {c}) /\ Len(calls) = n
    BY <1>0, <2>1 DEF Depth
  <2>3. calls' = Append(calls, c)
    BY DEF c
  <2>4. calls' \in Seq(S \cup {c}) /\ Len(calls') = n + 1 /\ calls'[n + 1] = c
        /\ \A i \in 1 .. n : calls'[i] = calls[i]
    BY ONLY <2>2, <2>3
  <2> QED
    BY <2>4
<1> HIDE DEF c
<1>6. Depth' = n + 1
  BY <1>5 DEF Depth
<1>7. \A i \in 0 .. n : BaseOf(i)' = BaseOf(i) /\ OperandsOf(i)' = OperandsOf(i)
  <2>1. \A i \in 0 .. n : i = 0 \/ calls'[i] = calls[i]
    BY <1>1, <1>5
  <2> QED
    BY <2>1 DEF BaseOf, OperandsOf, FrameBase
<1>8. BaseOf(n + 1)' = base /\ OperandsOf(n + 1)' = base - m_framesize
  <2>1. n + 1 # 0
    BY <1>1
  <2> QED
    BY <1>3, <1>5, <2>1 DEF BaseOf, OperandsOf, FrameBase, SavedSize, m_bytesize, m_addrsize
<1>9. Nested'
  <2>1. \A i \in 1 .. n + 1 : calls'[i].sp \in Int /\ calls'[i].bp = BaseOf(i - 1)'
    <3> SUFFICES ASSUME NEW i \in 1 .. n + 1
                 PROVE  calls'[i].sp \in Int /\ calls'[i].bp = BaseOf(i - 1)'
      OBVIOUS
    <3>1. i - 1 \in 0 .. n
      BY <1>1
    <3>2. BaseOf(i - 1)' = BaseOf(i - 1)
      BY <1>7, <3>1
    <3>3. CASE i = n + 1
      <4>1. i - 1 = n
        BY <1>1, <3>3
      <4>2. p.bp = BaseOf(n)
        BY <1>0
      <4> QED
        BY <1>3, <1>5, <3>2, <3>3, <4>1, <4>2
    <3>4. CASE i # n + 1
      <4>1. i \in 1 .. n
        BY <1>1, <3>4
      <4> QED
        BY <1>1, <1>5, <3>2, <4>1
    <3> QED
      BY <3>3, <3>4
  <2>2. ASSUME NEW j \in 1 .. n + 1, NEW i \in 0 .. j - 1
        PROVE  calls'[j].sp <= OperandsOf(i)'
    <3>1. i \in 0 .. n
      BY <1>1
    <3>2. OperandsOf(i)' = OperandsOf(i) /\ OperandsOf(i) \in Int
      BY <1>1, <1>7, <3>1
    <3>3. CASE j = n + 1
      BY <1>1, <1>3, <1>5, <3>1, <3>2, <3>3
    <3>4. CASE j # n + 1
      <4>1. j \in 1 .. n
        BY <1>1, <3>4
      <4> QED
        BY <1>1, <1>5, <3>2, <4>1
    <3> QED
      BY <3>3, <3>4
  <2>3. \E S : calls' \in Seq(S)
    BY <1>5
  <2> QED
    BY <1>6, <2>1, <2>2, <2>3 DEF Nested
<1>10. Linked(m.mem)
  BY <1>0, <1>2, LinksSame DEF Keeps
<1>11. Linked(vm.mem)'
  <2> SUFFICES ASSUME NEW i \in 1 .. n + 1
               PROVE  /\ BaseOf(i)' \in DOMAIN m.mem /\ m.mem[BaseOf(i)'] = AddrMem(calls'[i].bp)
                      /\ BaseOf(i)' + 5 \in DOMAIN m.mem
                      /\ m.mem[BaseOf(i)' + 5] = AddrMem(calls'[i].ip)
    BY <1>4, <1>6 DEF Linked
  <2>1. CASE i = n + 1
    BY <1>2, <1>3, <1>5, <1>8, <2>1
  <2>2. CASE i # n + 1
    <3>1. i \in 1 .. n /\ i \in 0 .. n
      BY <1>1, <2>2
    <3>2. BaseOf(i)' = BaseOf(i) /\ calls'[i] = calls[i]
      BY <1>5, <1>7, <3>1
    <3>3. /\ BaseOf(i) \in DOMAIN m.mem /\ m.mem[BaseOf(i)] = AddrMem(calls[i].bp)
          /\ BaseOf(i) + 5 \in DOMAIN m.mem /\ m.mem[BaseOf(i) + 5] = AddrMem(calls[i].ip)
      BY <1>0, <1>10, <3>1 DEF Linked
    <3> HIDE DEF AddrMem
    <3> QED
      BY ONLY <3>2, <3>3
  <2> QED
    BY <2>1, <2>2
<1>12. MemoryOK'
  BY <1>2, <1>4 DEF MemoryOK, Keeps, SameAbove, IsMachine
<1>13. vm'.bp = BaseOf(Depth)' /\ vm'.sp <= OperandsOf(Depth)'
  <2>1. BaseOf(Depth)' = BaseOf(n + 1)' /\ OperandsOf(Depth)' = OperandsOf(n + 1)'
    BY <1>6 DEF BaseOf, OperandsOf, FrameBase
  <2> QED
    BY <1>2, <1>3, <1>4, <1>8, <2>1, <1>1
<1>14. (CodeIn(vm.mem) \/ vm.sp < code.end)'
  BY <1>2, <1>4 DEF Keeps, CodeIn
<1>15. vm'.state = "ok"
  BY <1>4 DEF m
<1> QED
  BY <1>9, <1>11, <1>12, <1>13, <1>14, <1>15 DEF Standing

LEMMA CommitPushed ==
    ASSUME CodeLaid, Sized', NEW top \in Int, NEW m, Keeps(m, top), NEW o,
           Commit(Push(m, o)), vm'.state = "ok"
    PROVE  Keeps(vm', top) /\ vm'.bp = m.bp
<1>1. IsMachine(m) /\ IsMachine(Push(m, o))
  BY PushMachine DEF Keeps
<1>2. /\ vm'.state = Push(m, o).state /\ vm'.mem = Push(m, o).mem /\ vm'.sp = Push(m, o).sp
      /\ vm'.bp = Push(m, o).bp /\ IsMachine(vm')
  BY <1>1, WrappedMachine DEF Commit
<1>3. /\ Push(m, o).sp \in DOMAIN Push(m, o).mem /\ Push(m, o).mem[Push(m, o).sp] = o
      /\ Push(m, o).bp = m.bp
  BY <1>1, <1>2, PushEffect
<1>4. SizeOf(o) \in Nat \ {0}
  BY <1>2, <1>3 DEF Sized
<1>5. Keeps(Push(m, o), top)
  BY <1>2, <1>4, PushKeeps
<1> QED
  BY <1>2, <1>3, <1>5 DEF Keeps

\* A RET that is taken, by what it gives back.
LEMMA RetIs ==
    ASSUME Ready, Sized', Nested, Standing, RemovesOwnArguments, Ret, vm'.state = "ok",
           NEW n \in Nat, n = Depth
    PROVE  LET caller == CallerSp(Obj(0).val)
           IN  /\ n > 0 /\ run' = "head" /\ UNCHANGED <<prog, code>>
               /\ calls' = SubSeq(calls, 1, n - 1)
               /\ Keeps(vm', OperandsOf(n - 1)) /\ vm'.bp = BaseOf(n - 1)
               /\ ~ ValueLeft => /\ vm'.sp = caller
                                 /\ vm'.mem = Drop(vm.mem, {a \in DOMAIN vm.mem : a \in vm.sp .. caller - 1})
                                 /\ calls[n].ip \in 0 .. m_memsize => vm'.ip = calls[n].ip
<1> DEFINE caller == CallerSp(Obj(0).val)
           gone == {a \in DOMAIN vm.mem : a \in vm.sp .. caller - 1}
           mem == Drop(vm.mem, gone)
           ip == vm.mem[Skip(vm.bp, 1)].val
           bp == vm.mem[vm.bp].val
           frame == [vm EXCEPT !.ip = ip, !.bp = bp, !.sp = caller, !.mem = mem]
           top == OperandsOf(n - 1)
<1>1. Instr("RET") /\ n > 0 /\ caller \in BaseOf(n) + SavedSize .. top
  BY DEF Ret, RemovesOwnArguments
<1>2. /\ top \in Int /\ BaseOf(n) \in Int /\ n \in 1 .. n /\ calls[n].bp = BaseOf(n - 1)
      /\ \E S : calls \in Seq(S)
  <2>1. n \in 1 .. n /\ n - 1 \in 0 .. n /\ n \in 0 .. n
    BY <1>1
  <2> QED
    BY <2>1, Frames
<1>3. /\ vm.sp \in Int /\ DOMAIN vm.mem \subseteq Int /\ IsMachine(vm) /\ vm.bp = BaseOf(n)
      /\ CodeLaid /\ code.end \in Nat /\ vm.sp >= code.end /\ CodeIn(vm.mem)
      /\ vm.mem[BaseOf(n)] = AddrMem(calls[n].bp) /\ BaseOf(n) \in DOMAIN vm.mem
      /\ vm.mem[BaseOf(n) + 5] = AddrMem(calls[n].ip)
  BY <1>2 DEF Ready, MemoryOK, Standing, Linked, CodeLaid
<1>4. bp = BaseOf(n - 1)
  BY <1>2, <1>3 DEF AddrMem
<1>5. ip = calls[n].ip
  <2>1. Skip(vm.bp, 0) = vm.bp /\ Skip(vm.bp, 0 + 1) = Skip(vm.bp, 0) + SizeAt(Skip(vm.bp, 0))
    BY <1>2, <1>3, SkipSteps DEF Ready
  <2>2. SizeAt(BaseOf(n)) = 5
    BY <1>3 DEF SizeAt, AddrMem, SizeOf, PayloadSize, m_bytesize, m_addrsize
  <2>3. Skip(vm.bp, 1) = BaseOf(n) + 5
    BY <1>3, <2>1, <2>2
  <2> QED
    BY <1>3, <2>3 DEF AddrMem
<1> HIDE DEF ip, bp
<1>6. caller \in Int /\ caller <= top
  BY <1>1, <1>2 DEF SavedSize, m_bytesize, m_addrsize
<1> HIDE DEF caller, top
<1>7. gone \in SUBSET Int /\ \A a \in gone : a < top /\ a >= code.end
  BY <1>2, <1>3, <1>6
<1>8. SameAbove(mem, top) /\ CodeIn(mem)
  <2>1. SameAbove(vm.mem, top)
    BY <1>3 DEF SameAbove
  <2> HIDE DEF gone
  <2> QED
    BY <1>2, <1>3, <1>7, <2>1, DropSame, DropCode
<1> HIDE DEF gone, mem
<1>9. /\ IsMachine(frame) /\ frame.ip = ip /\ frame.bp = bp /\ frame.sp = caller /\ frame.mem = mem
      /\ frame.state = "ok"
  BY <1>3 DEF IsMachine, Registers, Ready
<1> HIDE DEF frame
<1>10. /\ Commit(IF ValueLeft THEN Push(frame, Returned(Obj(1))) ELSE frame)
       /\ calls' = IF calls # <<>> THEN Front(calls) ELSE calls
  <2>1. ~ Fail("undefined")
    BY <1>3 DEF Fail, IsMachine, Registers
  <2> QED
    BY <2>1 DEF Ret, frame, mem, gone, bp, ip, caller
<1>11. calls' = SubSeq(calls, 1, n - 1)
  <2>1. calls # <<>>
    BY <1>1 DEF Depth
  <2> QED
    BY <1>10, <2>1 DEF Front, Depth
<1>12. Keeps(frame, top)
  BY <1>6, <1>8, <1>9 DEF Keeps
<1>13. Keeps(vm', top) /\ vm'.bp = bp
  <2>1. CASE ValueLeft
    BY <1>2, <1>3, <1>9, <1>10, <1>12, <2>1, CommitPushed
  <2>2. CASE ~ ValueLeft
    <3>1. vm' = Wrapped(frame)
      BY <1>10, <2>2 DEF Commit
    <3> QED
      BY <1>9, <1>12, <3>1, WrappedMachine DEF Keeps
  <2> QED
    BY <2>1, <2>2
<1>14. ASSUME ~ ValueLeft
       PROVE  /\ vm'.sp = caller /\ vm'.mem = mem
              /\ calls[n].ip \in 0 .. m_memsize => vm'.ip = calls[n].ip
  <2>1. vm' = Wrapped(frame)
    BY <1>10, <1>14 DEF Commit
  <2> QED
    BY <1>5, <1>9, <2>1, WrappedMachine
<1>15. run' = "head" /\ UNCHANGED <<prog, code>>
  <2> DEFINE m == IF ValueLeft THEN Push(frame, Returned(Obj(1))) ELSE frame
  <2>1. IsMachine(m)
    BY <1>9, PushMachine
  <2>2. Commit(m)
    BY <1>10
  <2> HIDE DEF m
  <2>3. m.state = "ok" /\ UNCHANGED <<prog, code>>
    BY <2>1, <2>2, CommitEnds
  <2> QED
    BY <2>2, <2>3 DEF Commit, Execute
<1> QED
  BY <1>1, <1>4, <1>11, <1>13, <1>14, <1>15 DEF top, mem, gone, caller

LEMMA RetStands ==
    ASSUME Ready, Sized', Nested, Standing, RemovesOwnArguments, Ret, vm'.state = "ok"
    PROVE  Nested' /\ Standing' /\ run' = "head" /\ UNCHANGED <<prog, code>>
<1>0. PICK n \in Nat : n = Depth
  BY Frames
<1>1. /\ n > 0 /\ run' = "head" /\ UNCHANGED <<prog, code>>
      /\ calls' = SubSeq(calls, 1, n - 1)
      /\ Keeps(vm', OperandsOf(n - 1)) /\ vm'.bp = BaseOf(n - 1)
  BY <1>0, RetIs
<1>2. /\ \E S : calls' \in Seq(S)
      /\ Len(calls') = n - 1 /\ \A i \in 1 .. n - 1 : calls'[i] = calls[i]
  <2>1. PICK S : calls \in Seq(S)
    BY Frames
  <2>2. Len(calls) = n /\ n \in Nat /\ n > 0
    BY <1>0, <1>1 DEF Depth
  <2>3. /\ SubSeq(calls, 1, n - 1) \in Seq(S) /\ Len(SubSeq(calls, 1, n - 1)) = n - 1
        /\ \A i \in 1 .. n - 1 : SubSeq(calls, 1, n - 1)[i] = calls[i]
    BY ONLY <2>1, <2>2
  <2> QED
    BY <1>1, <2>3
<1>3. /\ \A i \in 0 .. n - 1 : BaseOf(i) \in Int /\ OperandsOf(i) \in Int
      /\ \A i \in 1 .. n - 1 : calls[i].sp \in Int /\ calls[i].bp = BaseOf(i - 1)
      /\ \A j \in 1 .. n - 1 : \A i \in 0 .. j - 1 : calls[j].sp <= OperandsOf(i)
  <2>1. /\ \A i \in 0 .. n - 1 : i \in 0 .. n
        /\ \A i \in 1 .. n - 1 : i \in 1 .. n
    OBVIOUS
  <2>2. /\ \A i \in 0 .. n : BaseOf(i) \in Int /\ OperandsOf(i) \in Int
        /\ \A i \in 1 .. n : calls[i].sp \in Int /\ calls[i].bp = BaseOf(i - 1)
        /\ \A j \in 1 .. n : \A i \in 0 .. j - 1 : calls[j].sp <= OperandsOf(i)
    BY <1>0, Frames
  <2> QED
    BY <2>1, <2>2
<1>4. Depth' = n - 1
  BY <1>2 DEF Depth
<1>5. \A i \in 0 .. n - 1 : BaseOf(i)' = BaseOf(i) /\ OperandsOf(i)' = OperandsOf(i)
  <2>1. \A i \in 0 .. n - 1 : i = 0 \/ calls'[i] = calls[i]
    BY <1>1, <1>2
  <2> QED
    BY <2>1 DEF BaseOf, OperandsOf, FrameBase
<1>6. Nested'
  <2>1. \A i \in 1 .. n - 1 : calls'[i].sp \in Int /\ calls'[i].bp = BaseOf(i - 1)'
    <3> SUFFICES ASSUME NEW i \in 1 .. n - 1
                 PROVE  calls'[i].sp \in Int /\ calls'[i].bp = BaseOf(i - 1)'
      OBVIOUS
    <3>1. i - 1 \in 0 .. n - 1
      OBVIOUS
    <3>2. BaseOf(i - 1)' = BaseOf(i - 1)
      BY <1>5, <3>1
    <3> QED
      BY <1>2, <1>3, <3>2
  <2>2. ASSUME NEW j \in 1 .. n - 1, NEW i \in 0 .. j - 1
        PROVE  calls'[j].sp <= OperandsOf(i)'
    <3>1. i \in 0 .. n - 1
      OBVIOUS
    <3>2. OperandsOf(i)' = OperandsOf(i)
      BY <1>5, <3>1
    <3> QED
      BY <1>2, <1>3, <3>2
  <2> QED
    BY <1>2, <1>4, <2>1, <2>2 DEF Nested
<1>7. Linked(vm.mem)'
  <2> SUFFICES ASSUME NEW i \in 1 .. n - 1
               PROVE  /\ BaseOf(i)' \in DOMAIN vm'.mem /\ vm'.mem[BaseOf(i)'] = AddrMem(calls'[i].bp)
                      /\ BaseOf(i)' + 5 \in DOMAIN vm'.mem
                      /\ vm'.mem[BaseOf(i)' + 5] = AddrMem(calls'[i].ip)
    BY <1>4 DEF Linked
  <2>1. i \in 1 .. n /\ i \in 0 .. n - 1 /\ n - 1 \in 0 .. n - 1 /\ n - 1 \in 1 .. n
    OBVIOUS
  <2>2. BaseOf(i)' = BaseOf(i) /\ calls'[i] = calls[i]
    BY <1>2, <1>5, <2>1
  <2>3. OperandsOf(n - 1) <= BaseOf(i)
    BY <1>0, <2>1, FramesApart
  <2>4. BaseOf(i) \in Int /\ OperandsOf(n - 1) \in Int
    BY <1>3, <2>1
  <2>5. \A a \in Int : a >= OperandsOf(n - 1) =>
            /\ a \in DOMAIN vm'.mem <=> a \in DOMAIN vm.mem
            /\ a \in DOMAIN vm'.mem => vm'.mem[a] = vm.mem[a]
    BY <1>1 DEF Keeps, SameAbove
  <2>6. /\ BaseOf(i) \in DOMAIN vm.mem /\ vm.mem[BaseOf(i)] = AddrMem(calls[i].bp)
        /\ BaseOf(i) + 5 \in DOMAIN vm.mem /\ vm.mem[BaseOf(i) + 5] = AddrMem(calls[i].ip)
    BY <1>0, <2>1 DEF Standing, Linked
  <2>7. BaseOf(i) >= OperandsOf(n - 1) /\ BaseOf(i) + 5 \in Int /\ BaseOf(i) + 5 >= OperandsOf(n - 1)
    BY <2>3, <2>4
  <2> QED
    BY ONLY <2>2, <2>4, <2>5, <2>6, <2>7
<1>8. MemoryOK'
  BY <1>1 DEF MemoryOK, Keeps, SameAbove, IsMachine
<1>9. vm'.bp = BaseOf(Depth)' /\ vm'.sp <= OperandsOf(Depth)'
  <2>1. BaseOf(Depth)' = BaseOf(n - 1)' /\ OperandsOf(Depth)' = OperandsOf(n - 1)'
    BY <1>4 DEF BaseOf, OperandsOf, FrameBase
  <2>2. n - 1 \in 0 .. n - 1
    BY <1>1
  <2> QED
    BY <1>1, <1>5, <2>1, <2>2 DEF Keeps
<1>10. (CodeIn(vm.mem) \/ vm.sp < code.end)'
  BY <1>1 DEF Keeps, CodeIn
<1> QED
  BY <1>1, <1>6, <1>7, <1>8, <1>9, <1>10 DEF Standing

\* The objects of the code lie one behind the other, up to the end of the range.
LEMMA LoadLaid ==
    ASSUME NEW p \in Programs, code = Load(CodeOf[p])
    PROVE  CodeLaid
<1> DEFINE objects == CodeOf[p]
           L == Len(objects)
           size(n) == SizeOf(objects[n])
           g == [q \in Nat \X Int |-> IF q[1] \in 1 .. L THEN q[2] + size(q[1]) ELSE 0]
           Ends(f) == f = [n \in 0 .. L |-> IF n = 0 THEN 0 ELSE f[n - 1] + size(n)]
<1>1. DOMAIN objects = 1 .. L /\ L \in Nat /\ \A n \in 1 .. L : size(n) \in Nat \ {0}
  BY CodeAssumption
<1> DEFINE end == CHOOSE f : Ends(f)
           starts == {end[n - 1] : n \in DOMAIN objects}
           at(a) == CHOOSE n \in DOMAIN objects : end[n - 1] = a
<1>2. code.mem = [a \in starts |-> objects[at(a)]] /\ code.end = end[L]
  BY DEF Load
<1> HIDE DEF objects, L, size
<1>3. Ends(end)
  <2>1. g \in [Nat \X Int -> Int] /\ \A k \in 1 .. L, b \in Int : g[<<k, b>>] = b + size(k)
    BY <1>1
  <2> HIDE DEF g
  <2>2. PICK f \in [0 .. L -> Int] : f[0] = 0 /\ \A k \in 1 .. L : f[k] = g[<<k, f[k - 1]>>]
    <3>1. 0 \in Int /\ L \in Nat /\ g \in [Nat \X Int -> Int]
      BY <1>1, <2>1
    <3> QED
      BY ONLY <3>1, Iterates
  <2>3. \A k \in 1 .. L : f[k] = f[k - 1] + size(k)
    <3> SUFFICES ASSUME NEW k \in 1 .. L PROVE f[k] = f[k - 1] + size(k)
      OBVIOUS
    <3>1. k - 1 \in 0 .. L
      BY <1>1
    <3> QED
      BY <2>1, <2>2, <3>1
  <2>4. f = [n \in 0 .. L |-> IF n = 0 THEN 0 ELSE f[n - 1] + size(n)]
    <3> DEFINE h == [n \in 0 .. L |-> IF n = 0 THEN 0 ELSE f[n - 1] + size(n)]
    <3>1. \A n \in 0 .. L : f[n] = h[n]
      <4> SUFFICES ASSUME NEW n \in 0 .. L PROVE f[n] = h[n]
        OBVIOUS
      <4>1. CASE n = 0
        BY <2>2, <4>1
      <4>2. CASE n # 0
        BY <1>1, <2>3, <4>2
      <4> QED
        BY <4>1, <4>2
    <3>2. h = [n \in 0 .. L |-> h[n]] /\ f = [n \in 0 .. L |-> f[n]]
      BY <2>2
    <3> HIDE DEF h
    <3>3. f = h
      BY <3>1, <3>2
    <3> QED
      BY <3>3 DEF h
  <2>5. \E f_ : Ends(f_)
    BY <2>4
  <2> QED
    BY <2>5
<1> HIDE DEF end, starts, at, g
<1>4. end[0] = 0 /\ \A n \in 1 .. L : end[n] = end[n - 1] + size(n)
  <2>1. \A n \in 0 .. L : end[n] = IF n = 0 THEN 0 ELSE end[n - 1] + size(n)
    BY <1>3
  <2> HIDE DEF Ends
  <2> QED
    BY <1>1, <2>1
<1> HIDE DEF Ends
<1> DEFINE S == {n \in Nat : n <= L => \A k \in 0 .. n : end[k] \in Nat /\ end[k] <= end[n]}
<1>5. 0 \in S
  BY <1>4
<1>6. ASSUME NEW n \in S PROVE n + 1 \in S
  <2> SUFFICES ASSUME n + 1 <= L, NEW k \in 0 .. n + 1
               PROVE  end[k] \in Nat /\ end[k] <= end[n + 1]
    OBVIOUS
  <2>1. n \in Nat /\ n + 1 \in 1 .. L /\ (n + 1) - 1 = n /\ n \in 0 .. n
    BY <1>1
  <2>2. n <= L
    BY <1>1, <2>1
  <2>3. \A j \in 0 .. n : end[j] \in Nat /\ end[j] <= end[n]
    BY <1>6, <2>2
  <2>4. end[n + 1] = end[n] + size(n + 1) /\ size(n + 1) \in Nat /\ end[n] \in Nat
    BY <1>1, <1>4, <2>1, <2>3
  <2>5. CASE k = n + 1
    BY <2>4, <2>5
  <2>6. CASE k # n + 1
    <3>1. k \in 0 .. n
      BY <2>1, <2>6
    <3> QED
      BY <2>3, <2>4, <3>1
  <2> QED
    BY <2>5, <2>6
<1>7. \A n \in Nat : n \in S
  <2> HIDE DEF S
  <2>1. S \in SUBSET Nat
    BY DEF S
  <2> QED
    BY <1>5, <1>6, <2>1, SetInduction
<1>8. \A k \in 0 .. L : end[k] \in Nat /\ end[k] <= end[L]
  <2>1. L \in S
    BY <1>1, <1>7
  <2> QED
    BY <1>1, <2>1
<1>9. code.end \in Nat
  <2>1. L \in 0 .. L
    BY <1>1
  <2> QED
    BY <1>2, <1>8, <2>1
<1>10. ASSUME NEW a \in DOMAIN code.mem
       PROVE  /\ a \in Nat /\ SizeOf(code.mem[a]) \in Nat \ {0}
              /\ a + SizeOf(code.mem[a]) <= code.end
  <2>1. a \in starts /\ code.mem[a] = objects[at(a)]
    BY <1>2
  <2>2. \E n \in DOMAIN objects : end[n - 1] = a
    BY <2>1 DEF starts
  <2> DEFINE n == at(a)
  <2>3. n \in DOMAIN objects /\ end[n - 1] = a
    BY <2>2 DEF at
  <2> HIDE DEF n
  <2>4. n \in 1 .. L /\ n - 1 \in 0 .. L /\ n \in 0 .. L
    BY <1>1, <2>3
  <2>5. size(n) \in Nat \ {0} /\ end[n] = end[n - 1] + size(n)
    BY <1>1, <1>4, <2>4
  <2>6. SizeOf(code.mem[a]) = size(n)
    BY <2>1 DEF size, n
  <2>7. a \in Nat /\ end[n] <= end[L] /\ end[n] \in Nat
    BY <1>8, <2>3, <2>4
  <2> QED
    BY <1>2, <2>3, <2>5, <2>6, <2>7
<1> QED
  BY <1>9, <1>10 DEF CodeLaid

-----------------------------------------------------------------------------
(* The invariant of a machine that is used as compiled code uses it. *)

VMInv ==
    /\ CodeLaid
    /\ run \in {"head", "poll", "clear", "dispatch", "fetch", "join"} => vm.state = "ok"
    /\ run \in {"poll", "clear", "dispatch", "fetch"} => PointersInBounds
    /\ vm.state = "ok" => Nested /\ Standing

LEMMA InitStands ==
    ASSUME VMInit
    PROVE  VMInv
<1>1. CodeLaid
  <2>1. prog \in Programs /\ code = Load(CodeOf[prog])
    BY DEF VMInit
  <2> QED
    BY <2>1, LoadLaid
<1>2. run = "head" /\ calls = <<>>
  BY DEF VMInit, IntrInit
<1>3. Depth = 0
  BY <1>2 DEF Depth
<1>4. Nested
  <2>1. calls \in Seq({})
    BY <1>2
  <2> QED
    BY <1>3, <2>1 DEF Nested
<1>5. vm = [ip |-> 0, sp |-> m_memsize - m_framesize, bp |-> m_gbp, eps |-> 0,
            mem |-> code.mem, state |-> "ok"]
  BY DEF VMInit
<1>6. /\ IsMachine(vm) /\ vm.sp = m_memsize - m_framesize /\ vm.bp = m_gbp /\ vm.mem = code.mem
      /\ vm.state = "ok"
  BY <1>5 DEF IsMachine, Registers
<1>7. MemoryOK
  <2>1. vm.sp \in Int
    BY <1>6, SizesAssumption
  <2>2. DOMAIN vm.mem \subseteq Int
    BY <1>1, <1>6 DEF CodeLaid
  <2> QED
    BY <1>6, <2>1, <2>2 DEF MemoryOK
<1>8. Standing
  <2>1. Linked(vm.mem)
    BY <1>3 DEF Linked
  <2>2. vm.bp = BaseOf(Depth) /\ vm.sp <= OperandsOf(Depth)
    BY <1>3, <1>6, SizesAssumption DEF BaseOf, OperandsOf
  <2>3. CodeIn(vm.mem)
    BY <1>6 DEF CodeIn
  <2> QED
    BY <1>7, <2>1, <2>2, <2>3 DEF Standing
<1> QED
  BY <1>1, <1>2, <1>4, <1>6, <1>8 DEF VMInv

\* The registers, the memory and the calls are left alone.
LEMMA StillStands ==
    ASSUME CodeLaid, vm.state = "ok" => Nested /\ Standing, UNCHANGED machineVars
    PROVE  /\ CodeLaid' /\ (vm.state = "ok" => Nested /\ Standing)'
           /\ PointersInBounds' <=> PointersInBounds
<1>1. vm' = vm /\ code' = code /\ calls' = calls
  BY DEF machineVars
<1>2. CodeLaid'
  BY <1>1 DEF CodeLaid
<1>3. Depth' = Depth /\ \A n : BaseOf(n)' = BaseOf(n) /\ OperandsOf(n)' = OperandsOf(n)
  BY <1>1 DEF Depth, BaseOf, OperandsOf, FrameBase
<1>4. Nested => Nested'
  BY <1>1, <1>3 DEF Nested
<1>5. Standing => Standing'
  <2>1. Linked(vm.mem) => Linked(vm.mem)'
    BY <1>1, <1>3 DEF Linked
  <2>2. MemoryOK => MemoryOK'
    BY <1>1 DEF MemoryOK, IsMachine
  <2>3. CodeIn(vm.mem) => CodeIn(vm.mem)'
    BY <1>1 DEF CodeIn
  <2>4. BaseOf(Depth)' = BaseOf(Depth) /\ OperandsOf(Depth)' = OperandsOf(Depth)
    BY <1>1 DEF Depth, BaseOf, OperandsOf, FrameBase
  <2> QED
    BY <1>1, <2>1, <2>2, <2>3, <2>4 DEF Standing
<1>6. PointersInBounds' <=> PointersInBounds
  BY <1>1 DEF PointersInBounds
<1> QED
  BY <1>1, <1>2, <1>4, <1>5, <1>6

LEMMA FetchReady ==
    ASSUME VMInv, Disciplined, run = "fetch"
    PROVE  Ready /\ Nested /\ Standing /\ WritesVariable /\ RemovesOwnArguments
<1>1. vm.state = "ok" /\ Standing /\ PointersInBounds /\ CodeLaid /\ Nested
  BY DEF VMInv
<1>2. /\ Sized /\ TakesOwnOperands /\ ConversionsFit /\ WritesVariable /\ RemovesOwnArguments
  BY DEF Disciplined, Sized
<1>3. vm.sp >= code.end
  BY <1>1, SizesAssumption DEF PointersInBounds, CodeLaid
<1>4. CodeIn(vm.mem)
  <2>1. vm.sp \in Int /\ code.end \in Nat
    BY <1>1 DEF Standing, MemoryOK, CodeLaid
  <2> QED
    BY <1>1, <1>3, <2>1 DEF Standing
<1>5. OperandsOf(Depth) \in Int
  <2>1. Depth \in 0 .. Depth
    BY <1>1, Frames
  <2> QED
    BY <1>1, <2>1, Frames
<1> QED
  BY <1>1, <1>2, <1>3, <1>4, <1>5 DEF Ready, Standing

LEMMA CallMachine ==
    ASSUME NEW p, IsMachine(p), NEW addr
    PROVE  IsMachine(CallFunction(p, addr))
<1> DEFINE one == Push(p, AddrMem(p.ip))
           two == Push(one, AddrMem(p.bp))
<1>1. IsMachine(one)
  BY PushMachine
<1> HIDE DEF one
<1>2. IsMachine(two)
  BY <1>1, PushMachine
<1> HIDE DEF two
<1>3. IsMachine([two EXCEPT !.bp = two.sp, !.sp = two.sp - m_framesize, !.ip = addr])
  BY <1>2 DEF IsMachine, Registers
<1>4. CallFunction(p, addr) = [two EXCEPT !.bp = two.sp, !.sp = two.sp - m_framesize, !.ip = addr]
  BY DEF CallFunction, one, two
<1> QED
  BY <1>3, <1>4

\* A machine that ends in another state than "ok" has left Run.
LEMMA WrmemEnds ==
    ASSUME Ready, Wrmem, vm'.state # "ok"
    PROVE  run' = "left" /\ UNCHANGED code
<1> DEFINE x == WriteObject(Popped(2).mem, AddressOnTop, Obj(1))
           m == [Popped(2) EXCEPT !.mem = x]
<1>1. "WRMEM" \in Opcodes /\ Len(Operands["WRMEM"]) = 2 /\ DOMAIN Operands["WRMEM"] = 1 .. 2
  BY OperandCounts
<1>2. IsMachine(Popped(2))
  BY <1>1, OperandsPopped DEF Wrmem, KeepsAll, Keeps
<1> HIDE DEF x
<1>3. IsMachine(m)
  BY <1>2 DEF IsMachine, Registers
<1>4. m = [Popped(2) EXCEPT !.mem = WriteObject(@, AddressOnTop, Obj(1))]
  BY <1>2 DEF IsMachine, Registers, x
<1> HIDE DEF m
<1>5. Commit(m) \/ Fail("exception")
  BY <1>4 DEF Wrmem
<1> QED
  BY <1>3, <1>5, CommitEnds DEF Fail, Leave

LEMMA RetEnds ==
    ASSUME Ready, Ret, vm'.state # "ok"
    PROVE  run' = "left" /\ UNCHANGED code
<1> DEFINE caller == CallerSp(Obj(0).val)
           mem == Drop(vm.mem, {a \in DOMAIN vm.mem : a \in vm.sp .. caller - 1})
           ip == vm.mem[Skip(vm.bp, 1)].val
           bp == vm.mem[vm.bp].val
           frame == [vm EXCEPT !.ip = ip, !.bp = bp, !.sp = caller, !.mem = mem]
           m == IF ValueLeft THEN Push(frame, Returned(Obj(1))) ELSE frame
<1> HIDE DEF caller, mem, ip, bp
<1>1. IsMachine(frame)
  BY DEF Ready, MemoryOK, IsMachine, Registers
<1>2. frame = [vm EXCEPT !.ip = ip, !.bp = bp, !.sp = caller, !.mem = Drop(@, {a \in DOMAIN vm.mem : a \in vm.sp .. caller - 1})]
  BY DEF Ready, MemoryOK, IsMachine, Registers, mem
<1> HIDE DEF frame
<1>3. IsMachine(m)
  BY <1>1, PushMachine
<1>4. Commit(m) \/ Fail("undefined")
  BY <1>2 DEF Ret, caller, ip, bp
<1> HIDE DEF m
<1> QED
  BY <1>3, <1>4, CommitEnds DEF Fail, Leave

\* What an instruction or an interrupt has to establish.
Stands == /\ CodeLaid' /\ (vm'.state = "ok" => Nested' /\ Standing')
          /\ run' = "left" \/ (run' \in {"head", "join"} /\ vm'.state = "ok")

LEMMA ExtcallFetches ==
    ASSUME Extcall
    PROVE  run = "fetch"
BY DEF Extcall, ExtSetIsr, ExtSetTimer, ExtSleep, ExtPrint, ExtSetEps, ExtGetEps, ExtPow, ExtReal,
       ExtInput, ExtUnknown, ExtCall, Instr

LEMMA InstructionStands ==
    ASSUME VMInv, Disciplined, Disciplined', InstructionStep
    PROVE  Stands
<1>1. run = "fetch"
  BY ExtcallFetches DEF InstructionStep, Halt, Nop, Cast, PushDirect, Wrmem, Rdmem, Usub, Not, BinNot,
         OpArithmetic, OpComparison, OpLogical, OpBinary, Jmp, JmpCnd, Call, Ret, OperandError, Instr
<1>2. Ready /\ Nested /\ Standing /\ WritesVariable /\ RemovesOwnArguments
  BY <1>1, FetchReady
<1>3. Sized' /\ CodeLaid
  BY DEF Disciplined, Sized, VMInv
<1>4. ASSUME UNCHANGED code PROVE CodeLaid'
  BY <1>3, <1>4 DEF CodeLaid
<1>5. ASSUME FrameStep PROVE Stands
  <2>1. CodeLaid'
    BY <1>4, <1>5 DEF FrameStep
  <2>2. vm'.state = "ok" => Nested' /\ Standing'
    BY <1>2, <1>5, FrameStepStands
  <2> QED
    BY <1>5, <2>1, <2>2 DEF FrameStep, Stands
<1>6. ASSUME UNCHANGED code, run' = "left", vm'.state # "ok" PROVE Stands
  BY <1>4, <1>6 DEF Stands
<1>7. ASSUME UNCHANGED code, run' = "head", vm'.state = "ok", Nested', Standing' PROVE Stands
  BY <1>4, <1>7 DEF Stands
<1>8. CASE \/ Halt \/ Nop \/ Cast \/ PushDirect \/ Rdmem \/ Usub \/ Not \/ BinNot
           \/ OpArithmetic \/ OpComparison \/ OpLogical \/ OpBinary \/ Jmp \/ JmpCnd
           \/ OperandError
  <2>1. FrameStep
    BY <1>2, <1>3, <1>8, PlainKeeps
  <2> QED
    BY <1>5, <2>1
<1>9. CASE Extcall
  <2>1. FrameStep
    BY <1>2, <1>3, <1>9, ExtcallKeeps
  <2> QED
    BY <1>5, <2>1
<1>10. CASE Wrmem
  <2>1. CASE vm'.state = "ok"
    <3>1. Nested' /\ Standing' /\ run' = "head" /\ UNCHANGED <<prog, code, calls>>
      BY <1>2, <1>10, <2>1, WrmemStands
    <3> QED
      BY <1>7, <2>1, <3>1
  <2>2. CASE vm'.state # "ok"
    BY <1>2, <1>6, <1>10, <2>2, WrmemEnds
  <2> QED
    BY <2>1, <2>2
<1>11. CASE Call
  <2>1. "CALL" \in Opcodes /\ Len(Operands["CALL"]) = 1 /\ DOMAIN Operands["CALL"] = 1 .. 1
    BY OperandCounts
  <2>2. Keeps(Popped(1), OperandsOf(Depth)) /\ Popped(1).bp = vm.bp
    BY <1>2, <1>11, <2>1, OperandsPopped DEF Call, KeepsAll
  <2> DEFINE m == CallFunction(Popped(1), AddressOnTop)
  <2>3. /\ Commit(m)
        /\ calls' = IF m.state = "ok" THEN Append(calls, Interrupted(Popped(1), FALSE)) ELSE calls
    BY <1>11 DEF Call
  <2>4. IsMachine(m)
    BY <2>2, CallMachine DEF Keeps
  <2>5. /\ vm' = Wrapped(m) /\ UNCHANGED <<prog, code>> /\ vm'.state = m.state
        /\ run' = "left" \/ (run' = "head" /\ vm'.state = "ok")
    <3> HIDE DEF m
    <3> QED
      BY <2>3, <2>4, CommitEnds
  <2>6. CASE m.state = "ok"
    <3>1. Nested' /\ Standing'
      BY <1>2, <1>3, <2>2, <2>3, <2>5, <2>6, CallStands DEF Standing
    <3>2. run' = "head"
      BY <2>3, <2>6 DEF Commit, Execute
    <3> QED
      BY <1>7, <2>5, <2>6, <3>1, <3>2
  <2>7. CASE m.state # "ok"
    BY <1>6, <2>5, <2>7
  <2> QED
    BY <2>6, <2>7
<1>12. CASE Ret
  <2>1. CASE vm'.state = "ok"
    <3>1. Nested' /\ Standing' /\ run' = "head" /\ UNCHANGED <<prog, code>>
      BY <1>2, <1>3, <1>12, <2>1, RetStands
    <3> QED
      BY <1>7, <2>1, <3>1
  <2>2. CASE vm'.state # "ok"
    BY <1>2, <1>6, <1>12, <2>2, RetEnds
  <2> QED
    BY <2>1, <2>2
<1> QED
  BY <1>8, <1>9, <1>10, <1>11, <1>12 DEF InstructionStep

LEMMA DispatchStands ==
    ASSUME VMInv, DispatchIsr
    PROVE  Stands
<1>1. CodeLaid /\ run = "dispatch" /\ vm.state = "ok" /\ Nested /\ Standing
  BY DEF VMInv, DispatchIsr
<1>2. Keeps(vm, OperandsOf(Depth))
  BY <1>1 DEF Standing, MemoryOK, Keeps, SameAbove
<1> DEFINE m == CallFunction(vm, m_isrs[irq])
<1>3. /\ vm' = Wrapped(m) /\ UNCHANGED <<prog, code>>
      /\ IF m.state = "ok" THEN EnterIsr /\ calls' = Append(calls, Interrupted(vm, TRUE))
         ELSE Leave /\ UNCHANGED calls
  BY DEF DispatchIsr
<1>4. CodeLaid'
  BY <1>1, <1>3 DEF CodeLaid
<1>5. IsMachine(m)
  BY <1>2, CallMachine DEF Keeps
<1>6. CASE m.state = "ok"
  <2>1. Nested' /\ Standing' /\ vm'.state = "ok"
    BY <1>1, <1>2, <1>3, <1>6, CallStands DEF Standing
  <2>2. run' = "head"
    BY <1>3, <1>6 DEF EnterIsr
  <2> QED
    BY <1>4, <2>1, <2>2 DEF Stands
<1>7. CASE m.state # "ok"
  <2> HIDE DEF m
  <2>1. vm'.state # "ok" /\ run' = "left"
    BY <1>3, <1>5, <1>7, WrappedMachine DEF Leave
  <2> QED
    BY <1>4, <2>1 DEF Stands
<1> QED
  BY <1>6, <1>7

\* Every step keeps the invariant, as long as the program keeps the discipline.
LEMMA StepStands ==
    ASSUME VMInv, Disciplined, Disciplined', [VMNext]_vars
    PROVE  VMInv'
<1>1. ASSUME Stands PROVE VMInv'
  BY <1>1 DEF Stands, VMInv
<1>2. CodeLaid /\ (vm.state = "ok" => Nested /\ Standing)
  BY DEF VMInv
\* The machine is left alone, and the thread stays within the round or is gone.
<1>3. ASSUME UNCHANGED machineVars,
             \/ run' = run
             \/ run \in {"poll", "clear"} /\ run' \in {"poll", "clear", "dispatch", "fetch"}
             \/ run = "head" /\ PointersInBounds /\ run' = "poll"
             \/ run = "join" /\ run' = "head"
             \/ run' \in {"destroy", "dead"}
      PROVE  VMInv'
  <2>1. /\ CodeLaid' /\ (vm.state = "ok" => Nested /\ Standing)'
        /\ PointersInBounds' <=> PointersInBounds
    BY <1>2, <1>3, StillStands
  <2>2. vm' = vm
    BY <1>3 DEF machineVars
  <2> HIDE DEF PointersInBounds, CodeLaid, Nested, Standing
  <2> QED
    BY <1>3, <2>1, <2>2 DEF VMInv
<1>4. CASE PointerCheck
  <2>1. CASE PointersInBounds
    <3>1. UNCHANGED machineVars /\ run = "head" /\ run' = "poll"
      BY <1>4, <2>1 DEF PointerCheck, BeginScan
    <3> QED
      BY <1>3, <2>1, <3>1
  <2>2. CASE ~ PointersInBounds
    <3>1. Fail("exception") /\ run = "head"
      BY <1>4, <2>2 DEF PointerCheck
    <3>2. IsMachine(vm)
      BY <3>1 DEF VMInv, Standing, MemoryOK
    <3>3. run' = "left" /\ UNCHANGED code /\ vm'.state = "exception"
      BY <3>1, <3>2 DEF Fail, Leave, IsMachine, Registers
    <3>4. CodeLaid'
      BY <1>2, <3>3 DEF CodeLaid
    <3> QED
      BY <1>1, <3>3, <3>4 DEF Stands
  <2> QED
    BY <2>1, <2>2
<1>5. CASE ScanStep
  <2>1. UNCHANGED machineVars /\ run \in {"poll", "clear"} /\ run' \in {"poll", "clear", "dispatch", "fetch"}
    BY <1>5 DEF ScanStep, PollClear, PollSet, EndScan, ClearIrq
  <2> QED
    BY <1>3, <2>1
<1>6. CASE DispatchIsr
  BY <1>1, <1>6, DispatchStands
<1>7. CASE InstructionStep
  BY <1>1, <1>7, InstructionStands
<1>8. CASE (JoinTimerCall \/ DestructorStop \/ DestructorJoin) /\ UNCHANGED machineVars
  <2>1. (run = "join" /\ run' = "head") \/ run' \in {"destroy", "dead"}
    BY <1>8 DEF JoinTimerCall, DestructorStop, DestructorJoin, JoinTimer, StopTimer
  <2> QED
    BY <1>3, <1>8, <2>1
<1>9. CASE TimerFunc /\ UNCHANGED machineVars
  <2>1. run' = run
    BY <1>9 DEF TimerFunc, TimerTest, TimerSleep, TimerRequest
  <2> QED
    BY <1>3, <1>9, <2>1
<1>10. CASE Dead /\ UNCHANGED machineVars
  <2>1. run' = run
    BY <1>10 DEF Dead, intrVars
  <2> QED
    BY <1>3, <1>10, <2>1
<1>11. CASE UNCHANGED vars
  <2>1. run' = run /\ UNCHANGED machineVars
    BY <1>11 DEF vars, machineVars
  <2> QED
    BY <1>3, <2>1
<1> QED
  BY <1>4, <1>5, <1>6, <1>7, <1>8, <1>9, <1>10, <1>11 DEF VMNext, VMThread

LEMMA MachineStands == VMSpec /\ []Disciplined => []VMInv
<1>1. VMInit => VMInv
  BY InitStands
<1>2. VMInv /\ Disciplined /\ Disciplined' /\ [VMNext]_vars => VMInv'
  BY StepStands
<1> QED BY <1>1, <1>2, PTL DEF VMSpec

\* Saved registers survive: whatever a program does between a CALL and its RET,
\* wherever interrupts come in and however deep the calls are, the base pointer leads
\* from each active call to the one that it interrupted, for programs that use the
\* machine as compiled code does.
THEOREM FramesStayLinked == VMSpec /\ []Disciplined => []CallChain
<1>1. VMInv => CallChain
  <2> SUFFICES ASSUME VMInv, vm.state = "ok" PROVE CallChain
    BY DEF CallChain
  <2>1. Nested /\ Standing
    BY DEF VMInv
  <2>2. /\ Depth \in Nat /\ DOMAIN calls = 1 .. Depth
        /\ \A n \in 1 .. Depth : BaseOf(n) = FrameBase(calls[n])
    BY <2>1, Frames DEF BaseOf
  <2>3. vm.bp = IF calls = <<>> THEN m_gbp ELSE FrameBase(Last(calls))
    <3>1. CASE calls = <<>>
      <4>1. Depth = 0
        BY <3>1 DEF Depth
      <4> QED
        BY <2>1, <3>1, <4>1 DEF Standing, BaseOf
    <3>2. CASE calls # <<>>
      <4>1. PICK S : calls \in Seq(S)
        BY <2>1 DEF Nested
      <4>2. Depth # 0 /\ Last(calls) = calls[Depth]
        BY <3>2, <4>1 DEF Depth, Last
      <4>3. Depth \in 1 .. Depth
        BY <2>2, <4>2
      <4> QED
        BY <2>1, <2>2, <3>2, <4>2, <4>3 DEF Standing
    <3> QED
      BY <3>1, <3>2
  <2>4. SavedSize \div 2 = 5
    BY DEF SavedSize, m_bytesize, m_addrsize
  <2>5. ASSUME NEW i \in DOMAIN calls
        PROVE  LET base == FrameBase(calls[i])
               IN  /\ {base, base + SavedSize \div 2} \subseteq DOMAIN vm.mem
                   /\ vm.mem[base] = AddrMem(calls[i].bp)
                   /\ vm.mem[base + SavedSize \div 2] = AddrMem(calls[i].ip)
    <3>1. i \in 1 .. Depth /\ BaseOf(i) = FrameBase(calls[i])
      BY <2>2
    <3>2. /\ BaseOf(i) \in DOMAIN vm.mem /\ vm.mem[BaseOf(i)] = AddrMem(calls[i].bp)
          /\ BaseOf(i) + 5 \in DOMAIN vm.mem /\ vm.mem[BaseOf(i) + 5] = AddrMem(calls[i].ip)
      BY <2>1, <3>1 DEF Standing, Linked
    <3> HIDE DEF AddrMem, FrameBase
    <3> QED
      BY <2>4, <3>1, <3>2
  <2> QED
    BY <2>3, <2>5 DEF CallChain
<1> QED BY <1>1, MachineStands, PTL

\* Code is what was loaded whenever an opcode is fetched, for every size of the
\* memory and every depth of calls and interrupts: only the stack can reach it, and
\* the check at the loop head sees that first.
THEOREM NoTornOpcode == VMSpec /\ []Disciplined => []CodeIntact
<1>1. VMInv /\ Disciplined => CodeIntact
  <2> SUFFICES ASSUME VMInv, Disciplined, run = "fetch" PROVE CodeIntact
    BY DEF CodeIntact
  <2>1. CodeIn(vm.mem)
    BY FetchReady DEF Ready
  <2> QED
    BY <2>1 DEF CodeIntact, CodeIn
<1> QED BY <1>1, MachineStands, PTL

-----------------------------------------------------------------------------
(* What a service routine leaves as it was. *)

Above(mem, a) == [b \in {c \in DOMAIN mem : c >= a} |-> mem[b]]

\* What an interrupt found is still there, as long as its service routine is active.
Kept ==
    \A i \in 1 .. Depth : calls[i].byIrq =>
        /\ calls[i].ip \in 0 .. m_memsize
        /\ calls[i] = [ip |-> calls[i].ip, bp |-> calls[i].bp, sp |-> calls[i].sp, byIrq |-> TRUE,
                       mem |-> Above(vm.mem, calls[i].sp)]

LEMMA AboveSame ==
    ASSUME DOMAIN vm.mem \subseteq Int, NEW mem, NEW top \in Int, SameAbove(mem, top),
           NEW a \in Int, top <= a
    PROVE  Above(mem, a) = Above(vm.mem, a)
<1>1. DOMAIN mem \subseteq Int
  BY DEF SameAbove
<1>2. \A b \in Int : b >= a => b >= top
  OBVIOUS
<1>3. \A b \in Int : b >= a => /\ (b \in DOMAIN mem <=> b \in DOMAIN vm.mem)
                               /\ (b \in DOMAIN mem => mem[b] = vm.mem[b])
  BY <1>2 DEF SameAbove
<1>4. {c \in DOMAIN mem : c >= a} = {c \in DOMAIN vm.mem : c >= a}
  BY <1>1, <1>3
<1>5. \A b \in {c \in DOMAIN mem : c >= a} : mem[b] = vm.mem[b]
  BY <1>1, <1>3
<1> QED
  BY <1>4, <1>5 DEF Above

LEMMA SameFurther ==
    ASSUME NEW mem, NEW low \in Int, NEW top \in Int, low <= top, SameAbove(mem, low)
    PROVE  SameAbove(mem, top)
<1>1. \A a \in Int : a >= top => a >= low
  OBVIOUS
<1> QED
  BY <1>1 DEF SameAbove

\* All that a call interrupted is above the operands of the calls that follow.
LEMMA InterruptedSame ==
    ASSUME Nested, MemoryOK, NEW n \in 0 .. Depth, NEW mem, SameAbove(mem, OperandsOf(n)),
           NEW i \in 1 .. n
    PROVE  /\ calls[i].sp \in Int /\ OperandsOf(n) \in Int /\ OperandsOf(n) <= calls[i].sp
           /\ Above(mem, calls[i].sp) = Above(vm.mem, calls[i].sp)
<1>1. Depth \in Nat /\ n \in 1 .. Depth /\ i \in 1 .. Depth
  BY Frames
<1>2. /\ OperandsOf(n) \in Int /\ BaseOf(i) \in Int /\ calls[i].sp \in Int
      /\ BaseOf(i) = calls[i].sp - 10
  <2>1. OperandsOf(n) \in Int
    BY Frames
  <2>2. calls[i].sp \in Int /\ BaseOf(i) = calls[i].sp - 10
    BY <1>1, Frames
  <2> QED
    BY <2>1, <2>2
<1>3. OperandsOf(n) <= BaseOf(i)
  BY <1>1, FramesApart
<1>4. OperandsOf(n) <= calls[i].sp
  BY <1>2, <1>3
<1> QED
  BY <1>2, <1>4, AboveSame DEF MemoryOK

\* The calls of before that are still active have lost nothing.
LEMMA StillKept ==
    ASSUME Kept, NEW n \in Nat, n = Depth,
           \A i \in 1 .. Len(calls') : calls'[i].byIrq =>
               /\ i \in 1 .. n /\ calls'[i] = calls[i]
               /\ Above(vm'.mem, calls[i].sp) = Above(vm.mem, calls[i].sp)
    PROVE  Kept'
<1> SUFFICES ASSUME NEW i \in 1 .. Len(calls'), calls'[i].byIrq
             PROVE  /\ calls'[i].ip \in 0 .. m_memsize
                    /\ calls'[i] = [ip |-> calls'[i].ip, bp |-> calls'[i].bp, sp |-> calls'[i].sp,
                                    byIrq |-> TRUE, mem |-> Above(vm'.mem, calls'[i].sp)]
  BY DEF Kept, Depth, Above
<1>1. /\ i \in 1 .. n /\ calls'[i] = calls[i]
      /\ Above(vm'.mem, calls[i].sp) = Above(vm.mem, calls[i].sp)
  OBVIOUS
<1> HIDE DEF Above
<1>2. /\ calls[i].ip \in 0 .. m_memsize
      /\ calls[i] = [ip |-> calls[i].ip, bp |-> calls[i].bp, sp |-> calls[i].sp, byIrq |-> TRUE,
                     mem |-> Above(vm.mem, calls[i].sp)]
  BY <1>1 DEF Kept
<1> QED
  BY ONLY <1>1, <1>2

LEMMA FrameStepKept ==
    ASSUME Nested, Standing, Kept, FrameStep, vm'.state = "ok"
    PROVE  Kept'
<1>0. PICK n \in Nat : n = Depth
  BY Frames
<1>1. calls' = calls /\ SameAbove(vm'.mem, OperandsOf(n)) /\ MemoryOK /\ Len(calls') = n
  BY <1>0 DEF FrameStep, StepKeeps, Keeps, Standing, Depth
<1>2. n \in 0 .. Depth
  BY <1>0
<1>3. \A i \in 1 .. n : Above(vm'.mem, calls[i].sp) = Above(vm.mem, calls[i].sp)
  BY <1>1, <1>2, InterruptedSame
<1> QED
  BY <1>0, <1>1, <1>3, StillKept

LEMMA WrmemKept ==
    ASSUME Ready, Nested, Standing, Kept, WritesVariable, RoutinesQuiet, Wrmem, vm'.state = "ok"
    PROVE  Kept'
<1> DEFINE a == AddressOnTop
           o == Obj(1)
           old == Popped(2).mem
<1>0. PICK n \in Nat : n = Depth
  BY Frames
<1>1. /\ UNCHANGED calls /\ SameAbove(old, OperandsOf(n)) /\ MemoryOK /\ Len(calls') = n
      /\ SizeOf(o) \in Nat \ {0} /\ a \in Int /\ vm'.mem = WriteObject(old, a, o)
  BY <1>0, WrmemIs DEF KeepsAll, Keeps, Standing, Depth
<1> HIDE DEF a, o, old
<1>2. ASSUME NEW i \in 1 .. n, calls[i].byIrq
      PROVE  Above(vm'.mem, calls[i].sp) = Above(vm.mem, calls[i].sp)
  <2>1. calls[i].sp \in Int /\ OperandsOf(n) \in Int /\ OperandsOf(n) <= calls[i].sp
    <3>1. n \in 0 .. Depth
      BY <1>0
    <3> QED
      BY <1>1, <3>1, InterruptedSame
  <2>2. a + SizeOf(o) <= calls[i].sp
    <3>1. i \in DOMAIN calls
      BY <1>0, <1>2, Frames
    <3> QED
      BY <1>2, <3>1 DEF RoutinesQuiet, Wrmem, a, o
  <2>3. SameAbove(old, calls[i].sp)
    BY <1>1, <2>1, SameFurther
  <2>4. SameAbove(vm'.mem, calls[i].sp)
    BY <1>1, <2>1, <2>2, <2>3, WriteSame
  <2> QED
    BY <1>1, <2>1, <2>4, AboveSame DEF MemoryOK
<1> QED
  BY <1>0, <1>1, <1>2, StillKept

LEMMA CallKept ==
    ASSUME CodeLaid, Nested, Standing, Kept,
           NEW p, Keeps(p, OperandsOf(Depth)), NEW addr, NEW byIrq \in BOOLEAN,
           byIrq => p = vm /\ vm.ip \in 0 .. m_memsize,
           CallFunction(p, addr).state = "ok",
           vm' = Wrapped(CallFunction(p, addr)), calls' = Append(calls, Interrupted(p, byIrq))
    PROVE  Kept'
<1> DEFINE m == CallFunction(p, addr)
           c == Interrupted(p, byIrq)
<1>0. PICK n \in Nat : n = Depth
  BY Frames
<1>1. n \in 0 .. Depth /\ OperandsOf(n) \in Int /\ MemoryOK
  <2>1. n \in 0 .. Depth
    BY <1>0
  <2> QED
    BY <2>1, Frames DEF Standing
<1>2. vm'.mem = m.mem /\ SameAbove(m.mem, OperandsOf(n))
  <2>1. Keeps(m, OperandsOf(n))
    BY <1>0, <1>1, CallEffect
  <2> HIDE DEF m
  <2> QED
    BY <2>1, WrappedMachine DEF Keeps, m
<1>3. \A i \in 1 .. n : Above(vm'.mem, calls[i].sp) = Above(vm.mem, calls[i].sp)
  BY <1>1, <1>2, InterruptedSame
<1>4. byIrq => Above(vm'.mem, vm.sp) = Above(vm.mem, vm.sp)
  <2> SUFFICES ASSUME byIrq PROVE Above(vm'.mem, vm.sp) = Above(vm.mem, vm.sp)
    OBVIOUS
  <2>1. Keeps(vm, vm.sp) /\ vm.sp \in Int
    BY DEF Standing, MemoryOK, Keeps, SameAbove
  <2>2. SameAbove(m.mem, vm.sp)
    BY <2>1, CallEffect DEF Keeps
  <2> QED
    BY <1>1, <1>2, <2>1, <2>2, AboveSame DEF MemoryOK
<1>5. /\ c.byIrq = byIrq
      /\ byIrq => c.ip \in 0 .. m_memsize /\ c.sp = vm.sp
      /\ c = [ip |-> c.ip, bp |-> c.bp, sp |-> c.sp, byIrq |-> byIrq, mem |-> c.mem]
      /\ byIrq => c.mem = Above(vm.mem, vm.sp)
  BY DEF Interrupted, Above
<1> HIDE DEF c, m
<1>6. /\ Len(calls') = n + 1 /\ calls'[n + 1] = c
      /\ \A i \in 1 .. n : calls'[i] = calls[i]
  <2>1. PICK S : calls \in Seq(S)
    BY Frames
  <2>2. calls \in Seq(S \cup {c}) /\ Len(calls) = n
    BY <1>0, <2>1 DEF Depth
  <2>3. calls' = Append(calls, c)
    BY DEF c
  <2> QED
    BY ONLY <2>2, <2>3
<1> SUFFICES ASSUME NEW i \in 1 .. n + 1, calls'[i].byIrq
             PROVE  /\ calls'[i].ip \in 0 .. m_memsize
                    /\ calls'[i] = [ip |-> calls'[i].ip, bp |-> calls'[i].bp, sp |-> calls'[i].sp,
                                    byIrq |-> TRUE, mem |-> Above(vm'.mem, calls'[i].sp)]
  BY <1>6 DEF Kept, Depth, Above
<1>7. CASE i = n + 1
  BY <1>4, <1>5, <1>6, <1>7
<1>8. CASE i # n + 1
  <2>1. i \in 1 .. n
    BY <1>8
  <2>2. calls'[i] = calls[i] /\ Above(vm'.mem, calls[i].sp) = Above(vm.mem, calls[i].sp)
    BY <1>3, <1>6, <2>1
  <2>3. /\ calls[i].ip \in 0 .. m_memsize
        /\ calls[i] = [ip |-> calls[i].ip, bp |-> calls[i].bp, sp |-> calls[i].sp, byIrq |-> TRUE,
                       mem |-> Above(vm.mem, calls[i].sp)]
    BY <1>0, <2>1, <2>2 DEF Kept
  <2> QED
    BY <2>2, <2>3
<1> QED
  BY <1>7, <1>8

LEMMA RetKept ==
    ASSUME Ready, Sized', Nested, Standing, Kept, RemovesOwnArguments, Ret, vm'.state = "ok"
    PROVE  Kept'
<1>0. PICK n \in Nat : n = Depth
  BY Frames
<1>1. n > 0 /\ calls' = SubSeq(calls, 1, n - 1) /\ SameAbove(vm'.mem, OperandsOf(n - 1)) /\ MemoryOK
  BY <1>0, RetIs DEF Keeps, Standing
<1>2. Len(calls') = n - 1 /\ \A i \in 1 .. n - 1 : calls'[i] = calls[i]
  <2>1. PICK S : calls \in Seq(S)
    BY Frames
  <2>2. Len(calls) = n
    BY <1>0 DEF Depth
  <2> QED
    BY ONLY <1>1, <2>1, <2>2
<1>3. n - 1 \in 0 .. Depth
  BY <1>0, <1>1
<1>4. \A i \in 1 .. n - 1 : Above(vm'.mem, calls[i].sp) = Above(vm.mem, calls[i].sp)
  BY <1>1, <1>3, InterruptedSame
<1>5. \A i \in 1 .. n - 1 : i \in 1 .. n
  OBVIOUS
<1> QED
  BY <1>0, <1>2, <1>4, <1>5, StillKept

LEMMA InstructionKept ==
    ASSUME VMInv, Kept, Disciplined, Disciplined', RoutinesQuiet, InstructionStep, vm'.state = "ok"
    PROVE  Kept'
<1>1. run = "fetch"
  BY ExtcallFetches DEF InstructionStep, Halt, Nop, Cast, PushDirect, Wrmem, Rdmem, Usub, Not, BinNot,
         OpArithmetic, OpComparison, OpLogical, OpBinary, Jmp, JmpCnd, Call, Ret, OperandError, Instr
<1>2. Ready /\ Nested /\ Standing /\ WritesVariable /\ RemovesOwnArguments /\ CodeLaid
  BY <1>1, FetchReady DEF VMInv
<1>3. Sized'
  BY DEF Disciplined, Sized
<1>4. ASSUME FrameStep PROVE Kept'
  BY <1>2, <1>4, FrameStepKept
<1>5. CASE \/ Halt \/ Nop \/ Cast \/ PushDirect \/ Rdmem \/ Usub \/ Not \/ BinNot
           \/ OpArithmetic \/ OpComparison \/ OpLogical \/ OpBinary \/ Jmp \/ JmpCnd
           \/ OperandError
  <2>1. FrameStep
    BY <1>2, <1>3, <1>5, PlainKeeps
  <2> QED
    BY <1>4, <2>1
<1>6. CASE Extcall
  <2>1. FrameStep
    BY <1>2, <1>3, <1>6, ExtcallKeeps
  <2> QED
    BY <1>4, <2>1
<1>7. CASE Wrmem
  BY <1>2, <1>7, WrmemKept
<1>8. CASE Call
  <2>1. "CALL" \in Opcodes /\ Len(Operands["CALL"]) = 1 /\ DOMAIN Operands["CALL"] = 1 .. 1
    BY OperandCounts
  <2>2. Keeps(Popped(1), OperandsOf(Depth))
    BY <1>2, <1>8, <2>1, OperandsPopped DEF Call, KeepsAll
  <2> DEFINE m == CallFunction(Popped(1), AddressOnTop)
  <2>3. /\ Commit(m)
        /\ calls' = IF m.state = "ok" THEN Append(calls, Interrupted(Popped(1), FALSE)) ELSE calls
    BY <1>8 DEF Call
  <2>4. IsMachine(m)
    BY <2>2, CallMachine DEF Keeps
  <2>5. vm' = Wrapped(m) /\ m.state = "ok"
    <3> HIDE DEF m
    <3> QED
      BY <2>3, <2>4, CommitEnds
  <2> QED
    BY <1>2, <2>2, <2>3, <2>5, CallKept
<1>9. CASE Ret
  BY <1>2, <1>3, <1>9, RetKept
<1> QED
  BY <1>5, <1>6, <1>7, <1>8, <1>9 DEF InstructionStep

LEMMA DispatchKept ==
    ASSUME VMInv, Kept, DispatchIsr, vm'.state = "ok"
    PROVE  Kept'
<1>1. CodeLaid /\ run = "dispatch" /\ vm.state = "ok" /\ Nested /\ Standing /\ PointersInBounds
  BY DEF VMInv, DispatchIsr
<1>2. Keeps(vm, OperandsOf(Depth))
  BY <1>1 DEF Standing, MemoryOK, Keeps, SameAbove
<1> DEFINE m == CallFunction(vm, m_isrs[irq])
<1>3. IsMachine(m)
  BY <1>2, CallMachine DEF Keeps
<1>4. /\ vm' = Wrapped(m)
      /\ m.state = "ok" => calls' = Append(calls, Interrupted(vm, TRUE))
  BY DEF DispatchIsr
<1>5. m.state = "ok"
  <2> HIDE DEF m
  <2> QED
    BY <1>3, <1>4, WrappedMachine
<1>6. vm.ip \in 0 .. m_memsize
  BY <1>1 DEF PointersInBounds
<1> QED
  BY <1>1, <1>2, <1>4, <1>5, <1>6, CallKept

KeptInv == vm.state = "ok" => Kept

LEMMA StepKept ==
    ASSUME VMInv, KeptInv, Disciplined, Disciplined', RoutinesQuiet, [VMNext]_vars
    PROVE  KeptInv'
<1> SUFFICES ASSUME vm'.state = "ok" PROVE Kept'
  BY DEF KeptInv
<1>1. ASSUME UNCHANGED machineVars PROVE Kept'
  <2>1. vm' = vm /\ calls' = calls
    BY <1>1 DEF machineVars
  <2>2. Kept
    BY <2>1 DEF KeptInv
  <2> QED
    BY <2>1, <2>2 DEF Kept, Depth, Above
<1>2. CASE PointerCheck
  <2>1. IsMachine(vm) /\ ~ Fail("exception")
    <3>1. IsMachine(vm)
      BY <1>2 DEF PointerCheck, VMInv, Standing, MemoryOK
    <3> QED
      BY <3>1 DEF Fail, IsMachine, Registers
  <2> QED
    BY <1>1, <1>2, <2>1 DEF PointerCheck
<1>3. CASE DispatchIsr
  <2>1. Kept
    BY <1>3 DEF KeptInv, VMInv, DispatchIsr
  <2> QED
    BY <1>3, <2>1, DispatchKept
<1>4. CASE InstructionStep
  <2>1. run = "fetch"
    BY <1>4, ExtcallFetches DEF InstructionStep, Halt, Nop, Cast, PushDirect, Wrmem, Rdmem, Usub, Not, BinNot,
           OpArithmetic, OpComparison, OpLogical, OpBinary, Jmp, JmpCnd, Call, Ret, OperandError, Instr
  <2>2. Kept
    BY <2>1 DEF KeptInv, VMInv
  <2> QED
    BY <1>4, <2>2, InstructionKept
<1>5. CASE \/ ScanStep
           \/ (JoinTimerCall \/ DestructorStop \/ DestructorJoin) /\ UNCHANGED machineVars
           \/ TimerFunc /\ UNCHANGED machineVars
           \/ Dead /\ UNCHANGED machineVars
           \/ UNCHANGED vars
  BY <1>1, <1>5 DEF ScanStep, vars, machineVars
<1> QED
  BY <1>2, <1>3, <1>4, <1>5 DEF VMNext, VMThread

\* Only RET ends a call.
LEMMA OnlyRetEnds ==
    ASSUME [VMNext]_vars
    PROVE  Ret \/ UNCHANGED calls \/ \E c : calls' = Append(calls, c)
<1>1. ASSUME NEW state, Fail(state) PROVE UNCHANGED calls
  BY <1>1 DEF Fail
<1>2. CASE PointerCheck
  BY <1>1, <1>2 DEF PointerCheck, machineVars
<1>3. CASE DispatchIsr
  BY <1>3 DEF DispatchIsr
<1>4. CASE InstructionStep
  <2>1. CASE \/ Nop \/ Cast \/ PushDirect \/ Wrmem \/ Rdmem \/ Usub \/ Not \/ BinNot
             \/ OpArithmetic \/ OpComparison \/ OpLogical \/ OpBinary \/ Jmp \/ JmpCnd
    BY <2>1 DEF Nop, Cast, PushDirect, Wrmem, Rdmem, Usub, Not, BinNot, OpArithmetic, OpComparison,
                OpLogical, OpBinary, Jmp, JmpCnd
  <2>2. CASE Halt \/ OperandError
    BY <1>1, <2>2 DEF Halt, OperandError
  <2>3. CASE Call
    BY <2>3 DEF Call
  <2>4. CASE Extcall
    <3>1. CASE ExtSetIsr
      BY <1>1, <3>1 DEF ExtSetIsr, ExtCall, RegisterIsr
    <3>2. CASE ExtSetTimer
      BY <1>1, <3>2 DEF ExtSetTimer, ExtCall, SetTimer
    <3>3. CASE ExtSleep \/ ExtPrint \/ ExtSetEps
      BY <1>1, <3>3 DEF ExtSleep, ExtPrint, ExtSetEps, ExtCall
    <3>4. CASE ExtGetEps
      BY <1>1, <3>4 DEF ExtGetEps, ExtCall, Return
    <3>5. CASE ExtPow
      BY <1>1, <3>5 DEF ExtPow, ExtCall, Return
    <3>6. CASE ExtReal
      BY <1>1, <3>6 DEF ExtReal, ExtCall, Return
    <3>7. CASE ExtInput
      BY <1>1, <3>7 DEF ExtInput, ExtCall, Return
    <3>8. CASE ExtUnknown
      BY <3>8 DEF ExtUnknown
    <3> QED
      BY <2>4, <3>1, <3>2, <3>3, <3>4, <3>5, <3>6, <3>7, <3>8 DEF Extcall
  <2> QED
    BY <1>4, <2>1, <2>2, <2>3, <2>4 DEF InstructionStep
<1>5. CASE \/ ScanStep
           \/ (JoinTimerCall \/ DestructorStop \/ DestructorJoin) /\ UNCHANGED machineVars
           \/ TimerFunc /\ UNCHANGED machineVars
           \/ Dead /\ UNCHANGED machineVars
           \/ UNCHANGED vars
  BY <1>5 DEF ScanStep, vars, machineVars
<1> QED
  BY <1>2, <1>3, <1>4, <1>5 DEF VMNext, VMThread

LEMMA RoutineGivesBack ==
    ASSUME VMInv, KeptInv, Disciplined, Disciplined', RoutinesQuiet, [VMNext]_vars,
           calls # <<>>, calls' = Front(calls), Last(calls).byIrq, vm'.state = "ok"
    PROVE  Interrupted(vm', TRUE) = Last(calls)
<1>1. vm.state = "ok"
  <2>1. CASE PointerCheck
    BY <2>1 DEF PointerCheck, VMInv
  <2>2. CASE DispatchIsr
    BY <2>2 DEF DispatchIsr, VMInv
  <2>3. CASE InstructionStep
    BY <2>3, ExtcallFetches DEF VMInv, InstructionStep, Halt, Nop, Cast, PushDirect, Wrmem, Rdmem, Usub,
           Not, BinNot, OpArithmetic, OpComparison, OpLogical, OpBinary, Jmp, JmpCnd, Call, Ret,
           OperandError, Instr
  <2>4. CASE \/ ScanStep
             \/ (JoinTimerCall \/ DestructorStop \/ DestructorJoin) /\ UNCHANGED machineVars
             \/ TimerFunc /\ UNCHANGED machineVars
             \/ Dead /\ UNCHANGED machineVars
             \/ UNCHANGED vars
    BY <2>4 DEF ScanStep, vars, machineVars
  <2> QED
    BY <2>1, <2>2, <2>3, <2>4 DEF VMNext, VMThread
<1>2. Nested /\ Standing /\ Kept
  BY <1>1 DEF VMInv, KeptInv
<1>3. PICK n \in Nat : n = Depth
  BY <1>2, Frames
<1>4. PICK S : calls \in Seq(S)
  BY <1>2, Frames
<1>5. n > 0 /\ Len(calls) = n /\ Last(calls) = calls[n] /\ Front(calls) = SubSeq(calls, 1, n - 1)
  BY <1>3, <1>4 DEF Depth, Last, Front
<1>6. Ret
  <2>1. Len(calls') = n - 1
    <3>1. Len(SubSeq(calls, 1, n - 1)) = n - 1
      BY ONLY <1>3, <1>4, <1>5
    <3> QED
      BY <1>5, <3>1
  <2>2. CASE UNCHANGED calls
    BY <1>5, <2>1, <2>2
  <2>3. ASSUME NEW c, calls' = Append(calls, c) PROVE FALSE
    <3>1. calls \in Seq(S \cup {c}) /\ Len(calls) = n
      BY <1>4, <1>5
    <3>2. Len(Append(calls, c)) = n + 1
      BY ONLY <3>1
    <3> QED
      BY <2>1, <2>3, <3>2
  <2> QED
    BY <2>2, <2>3, OnlyRetEnds
<1>7. run = "fetch" /\ Instr("RET")
  BY <1>6 DEF Ret, Instr
<1>8. Ready /\ RemovesOwnArguments /\ Sized'
  BY <1>7, FetchReady DEF Disciplined, Sized
<1>9. n \in DOMAIN calls /\ n \in 1 .. Depth
  BY <1>2, <1>3, <1>5, Frames
<1>10. Obj(0).val = 0 /\ ~ ValueLeft
  BY <1>3, <1>5, <1>7, <1>9 DEF RoutinesQuiet
<1> DEFINE caller == CallerSp(Obj(0).val)
           gone == {a \in DOMAIN vm.mem : a \in vm.sp .. caller - 1}
<1>11. /\ vm'.sp = caller /\ vm'.mem = Drop(vm.mem, gone) /\ vm'.bp = BaseOf(n - 1)
       /\ calls[n].ip \in 0 .. m_memsize => vm'.ip = calls[n].ip
  BY <1>2, <1>3, <1>6, <1>8, <1>10, RetIs
<1>12. calls[n].bp = BaseOf(n - 1) /\ calls[n].sp \in Int /\ BaseOf(n) = calls[n].sp - 10
  BY <1>2, <1>9, Frames
\* The arguments are none, so the stack pointer ends up behind the saved registers.
<1>13. caller = calls[n].sp
  <2> DEFINE b == BaseOf(n)
  <2>1. /\ b \in DOMAIN vm.mem /\ vm.mem[b] = AddrMem(calls[n].bp)
        /\ b + 5 \in DOMAIN vm.mem /\ vm.mem[b + 5] = AddrMem(calls[n].ip)
        /\ vm.bp = b /\ b \in Int
    BY <1>2, <1>3, <1>9, <1>12 DEF Standing, Linked
  <2>2. SizeAt(b) = 5 /\ SizeAt(b + 5) = 5
    BY <2>1 DEF SizeAt, AddrMem, SizeOf, PayloadSize, m_bytesize, m_addrsize
  <2> HIDE DEF b
  <2>3. /\ Skip(b, 0) = b /\ Skip(b, 0 + 1) = Skip(b, 0) + SizeAt(Skip(b, 0))
        /\ Skip(b, 1 + 1) = Skip(b, 1) + SizeAt(Skip(b, 1))
    BY <1>8, <2>1, SkipSteps DEF Ready
  <2>4. Skip(b, 1) = b + 5
    BY <2>1, <2>2, <2>3
  <2>5. Skip(b, 2) = (b + 5) + 5
    BY <2>2, <2>3, <2>4
  <2>6. caller = Skip(b, 2)
    BY <1>10, <2>1 DEF CallerSp
  <2>7. b = calls[n].sp - 10
    BY <1>12 DEF b
  <2> QED
    BY <1>12, <2>5, <2>6, <2>7
<1>14. Above(vm'.mem, calls[n].sp) = Above(vm.mem, calls[n].sp)
  <2>1. SameAbove(vm.mem, calls[n].sp) /\ vm.sp \in Int /\ DOMAIN vm.mem \subseteq Int
    BY <1>2 DEF Standing, MemoryOK, SameAbove
  <2>2. gone \in SUBSET Int /\ \A a \in gone : a < calls[n].sp
    BY <1>12, <1>13, <2>1
  <2>3. SameAbove(vm'.mem, calls[n].sp)
    <3> HIDE DEF gone
    <3> QED
      BY <1>11, <1>12, <2>1, <2>2, DropSame
  <2> QED
    BY <1>12, <2>1, <2>3, AboveSame
<1>15. /\ calls[n].ip \in 0 .. m_memsize
       /\ calls[n] = [ip |-> calls[n].ip, bp |-> calls[n].bp, sp |-> calls[n].sp, byIrq |-> TRUE,
                      mem |-> Above(vm.mem, calls[n].sp)]
  BY <1>2, <1>5, <1>9 DEF Kept
<1>16. Interrupted(vm', TRUE) = [ip |-> vm'.ip, bp |-> vm'.bp, sp |-> vm'.sp, byIrq |-> TRUE,
                                 mem |-> Above(vm'.mem, vm'.sp)]
  BY DEF Interrupted, Above
<1>17. vm'.ip = calls[n].ip /\ vm'.bp = calls[n].bp /\ vm'.sp = calls[n].sp
  BY <1>11, <1>12, <1>13, <1>15
<1> QED
  BY <1>5, <1>14, <1>15, <1>16, <1>17

\* The program does not notice an interrupt: wherever the machine takes it, and whatever
\* interrupts come in meanwhile, the RET of its service routine gives back the
\* registers and all of the memory above the stack pointer, if the routine takes no
\* arguments, leaves no value and writes only below what it interrupted.
THEOREM InterruptsGiveBack ==
    VMSpec /\ []Disciplined /\ []RoutinesQuiet => InterruptTransparent
<1>1. VMInit => KeptInv
  BY DEF VMInit, KeptInv, Kept, Depth
<1>2. VMInv /\ KeptInv /\ Disciplined /\ Disciplined' /\ RoutinesQuiet /\ [VMNext]_vars => KeptInv'
  BY StepKept
<1>3. VMInv /\ KeptInv /\ Disciplined /\ Disciplined' /\ RoutinesQuiet /\ [VMNext]_vars =>
        [ calls # <<>> /\ calls' = Front(calls) /\ Last(calls).byIrq /\ vm'.state = "ok"
              => Interrupted(vm', TRUE) = Last(calls) ]_vars
  BY RoutineGivesBack
<1> QED BY <1>1, <1>2, <1>3, MachineStands, PTL DEF VMSpec, InterruptTransparent

=============================================================================
