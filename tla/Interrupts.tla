----------------------------- MODULE Interrupts -----------------------------
(***************************************************************************)
(* The interrupt controller of the virtual machine: the request flags      *)
(* m_irqs, the service routine addresses m_isrs, the timer thread and the   *)
(* part of VM::Run that polls the flags before every instruction.          *)
(*                                                                         *)
(* Two threads share m_irqs and m_timer_running: the thread that executes   *)
(* VM::Run and later destroys the VM, and the timer thread running          *)
(* VM::TimerFunc.  Every access to a shared field is a step of its own.     *)
(* What an instruction does to registers and memory is left to module VM,   *)
(* which refines this one; here an instruction is one of Execute, Leave,    *)
(* SetISR, StartTimer and StopTimer.                                       *)
(*                                                                         *)
(* m_timer_running is a plain bool written by one thread and read by the    *)
(* other.  The read sits in a loop between two calls the compiler cannot    *)
(* see through, so every build loads it once per round: TimerTest.          *)
(***************************************************************************)
EXTENDS Naturals

CONSTANTS
    m_num_interrupts,   \* number of interrupt lines (16 in the code)
    IsrAddr,            \* addresses a program registers as service routines
    NoIsr               \* an empty entry of m_isrs

ASSUME NumInterruptsAssumption == m_num_interrupts \in Nat \ {0}
ASSUME NoIsrAssumption == NoIsr \notin IsrAddr

m_timer_interrupt == 0
Irq == 0 .. m_num_interrupts - 1

VARIABLES
    m_irqs,             \* requested interrupts
    m_isrs,             \* address of each line's service routine, or NoIsr
    m_timer_running,    \* the flag StopTimer clears to end the timer thread
    m_timer_thread,     \* where the timer thread is; "none": not joinable
    run,                \* where the thread executing VM::Run is
    irq,                \* loop index of the interrupt scan
    lateTicks           \* history: timer routines entered while no timer exists

intrVars == <<m_irqs, m_isrs, m_timer_running, m_timer_thread, run, irq, lateTicks>>

(***************************************************************************)
(* The timer thread is "none" (default-constructed or joined), at the loop  *)
(* test, asleep, about to request its interrupt, or has "exited".           *)
(***************************************************************************)
ThreadState == {"none", "test", "sleep", "request", "exited"}

(***************************************************************************)
(* The executing thread is at the loop "head", polls a flag, clears a flag  *)
(* it saw set, enters a service routine, executes an instruction ("fetch"), *)
(* waits in StopTimer for the timer thread ("join"), has left Run ("left"), *)
(* waits in the destructor ("destroy"), or the VM is gone ("dead").         *)
(***************************************************************************)
RunState ==
    {"head", "poll", "clear", "dispatch", "fetch", "join", "left", "destroy", "dead"}

timerVars  == <<m_timer_running, m_timer_thread>>
irqVars    == <<m_irqs, m_isrs>>

IntrInit ==
    /\ m_irqs = [i \in Irq |-> FALSE]
    /\ m_isrs = [i \in Irq |-> NoIsr]
    /\ m_timer_running = FALSE
    /\ m_timer_thread = "none"
    /\ run = "head"
    /\ irq = 0
    /\ lateTicks = 0

-----------------------------------------------------------------------------
(* The interrupt scan of VM::Run. *)

\* (mutant) the scan starts behind the line of the timer
BeginScanPastTimer ==
    /\ run = "head"
    /\ run' = "poll"
    /\ irq' = m_timer_interrupt + 1
    /\ UNCHANGED <<irqVars, timerVars, lateTicks>>

\* A round of the loop passes the pointer check and starts to scan the lines.
BeginScan ==
    /\ run = "head"
    /\ run' = "poll"
    /\ irq' = 0
    /\ UNCHANGED <<irqVars, timerVars, lateTicks>>

\* The line is not requested: go on with the next line.
PollClear ==
    /\ run = "poll"
    /\ irq \in Irq
    /\ ~ m_irqs[irq]
    /\ irq' = irq + 1
    /\ UNCHANGED <<irqVars, timerVars, run, lateTicks>>

\* The line is requested.
PollSet ==
    /\ run = "poll"
    /\ irq \in Irq
    /\ m_irqs[irq]
    /\ run' = "clear"
    /\ UNCHANGED <<irqVars, timerVars, irq, lateTicks>>

\* No line is left: the instruction at m_ip is fetched.
EndScan ==
    /\ run = "poll"
    /\ irq \notin Irq
    /\ run' = "fetch"
    /\ UNCHANGED <<irqVars, timerVars, irq, lateTicks>>

\* (mutant) the request flag survives its own service
ClearIrqKeepsFlag ==
    /\ run = "clear"
    /\ IF m_isrs[irq] = NoIsr
       THEN run' = "poll" /\ irq' = irq + 1
       ELSE run' = "dispatch" /\ UNCHANGED irq
    /\ UNCHANGED <<irqVars, timerVars, lateTicks>>

\* The flag is reset; a request without a service routine is dropped.
ClearIrq ==
    /\ run = "clear"
    /\ m_irqs' = [m_irqs EXCEPT ![irq] = FALSE]
    /\ IF m_isrs[irq] = NoIsr
       THEN run' = "poll" /\ irq' = irq + 1
       ELSE run' = "dispatch" /\ UNCHANGED irq
    /\ UNCHANGED <<m_isrs, timerVars, lateTicks>>

\* The CALL to the service routine is executed in place of an instruction.
EnterIsr ==
    /\ run = "dispatch"
    /\ run' = "head"
    /\ lateTicks' = IF irq = m_timer_interrupt /\ m_timer_thread = "none"
                    THEN lateTicks + 1 ELSE lateTicks
    /\ UNCHANGED <<irqVars, timerVars, irq>>

-----------------------------------------------------------------------------
(* Instructions, by what they do to the interrupt state. *)

\* An instruction that touches none of this state.
Execute ==
    /\ run = "fetch"
    /\ run' = "head"
    /\ UNCHANGED <<irqVars, timerVars, irq, lateTicks>>

\* HALT, an invalid opcode, or an exception from the pointer check, an
\* instruction or the call of a service routine: Run is left.
Leave ==
    /\ run \in {"head", "fetch", "dispatch"}
    /\ run' = "left"
    /\ UNCHANGED <<irqVars, timerVars, irq, lateTicks>>

\* The external function set_isr.
SetISR(num, addr) ==
    /\ run = "fetch"
    /\ m_isrs' = [m_isrs EXCEPT ![num] = addr]
    /\ run' = "head"
    /\ UNCHANGED <<m_irqs, timerVars, irq, lateTicks>>

\* set_timer with a delay that is not negative.  A running timer only gets
\* another period.
StartTimer ==
    /\ run = "fetch"
    /\ IF m_timer_running
       THEN UNCHANGED timerVars
       ELSE m_timer_running' = TRUE /\ m_timer_thread' = "test"
    /\ run' = "head"
    /\ UNCHANGED <<irqVars, irq, lateTicks>>

\* (mutant) StopTimer returns without waiting for the thread
StopTimerNoJoin(from, waiting, done) ==
    /\ run = from
    /\ m_timer_running' = FALSE
    /\ run' = done
    /\ UNCHANGED <<irqVars, m_timer_thread, irq, lateTicks>>

\* VM::StopTimer up to the join; nothing is joined if no thread is attached.
StopTimer(from, waiting, done) ==
    /\ run = from
    /\ m_timer_running' = FALSE
    /\ run' = IF m_timer_thread = "none" THEN done ELSE waiting
    /\ UNCHANGED <<irqVars, m_timer_thread, irq, lateTicks>>

\* The join in VM::StopTimer: it returns once the thread's function has.
JoinTimer(waiting, done) ==
    /\ run = waiting
    /\ m_timer_thread = "exited"
    /\ m_timer_thread' = "none"
    /\ run' = done
    /\ lateTicks' = 0
    /\ UNCHANGED <<irqVars, m_timer_running, irq>>

\* set_timer with a negative delay, and the destructor ~VM.
StopTimerCall == StopTimer("fetch", "join", "head")
JoinTimerCall == JoinTimer("join", "head")
DestructorStop == StopTimer("left", "destroy", "dead")
DestructorJoin == JoinTimer("destroy", "dead")

-----------------------------------------------------------------------------
(* The timer thread, VM::TimerFunc. *)

\* (mutant) the loop test ignores m_timer_running
TimerTestForever ==
    /\ m_timer_thread = "test"
    /\ m_timer_thread' = "sleep"
    /\ UNCHANGED <<irqVars, m_timer_running, run, irq, lateTicks>>

TimerTest ==
    /\ m_timer_thread = "test"
    /\ m_timer_thread' = IF m_timer_running THEN "sleep" ELSE "exited"
    /\ UNCHANGED <<irqVars, m_timer_running, run, irq, lateTicks>>

TimerSleep ==
    /\ m_timer_thread = "sleep"
    /\ m_timer_thread' = "request"
    /\ UNCHANGED <<irqVars, m_timer_running, run, irq, lateTicks>>

\* RequestInterrupt(m_timer_interrupt)
TimerRequest ==
    /\ m_timer_thread = "request"
    /\ m_irqs' = [m_irqs EXCEPT ![m_timer_interrupt] = TRUE]
    /\ m_timer_thread' = "test"
    /\ UNCHANGED <<m_isrs, m_timer_running, run, irq, lateTicks>>

TimerFunc == TimerTest \/ TimerSleep \/ TimerRequest

\* The public RequestInterrupt, called by the program that embeds the VM for
\* a line of its own while the VM exists.
RequestInterrupt(num) ==
    /\ run # "dead"
    /\ num # m_timer_interrupt
    /\ m_irqs' = [m_irqs EXCEPT ![num] = TRUE]
    /\ UNCHANGED <<m_isrs, timerVars, run, irq, lateTicks>>

\* The VM has been destroyed and its timer thread is gone.
Dead == run = "dead" /\ m_timer_thread = "none" /\ UNCHANGED intrVars

-----------------------------------------------------------------------------
Scan == BeginScan \/ PollClear \/ PollSet \/ EndScan \/ ClearIrq \/ EnterIsr

Instruction ==
    \/ Execute
    \/ \E num \in Irq, addr \in IsrAddr : SetISR(num, addr)
    \/ StartTimer
    \/ StopTimerCall
    \/ JoinTimerCall

RunThread == Scan \/ Instruction \/ Leave \/ DestructorStop \/ DestructorJoin

IntrNext ==
    \/ RunThread
    \/ TimerFunc
    \/ \E num \in Irq : RequestInterrupt(num)
    \/ Dead

IntrSafeSpec == IntrInit /\ [][IntrNext]_intrVars

\* The operating system schedules both threads and lets every sleep end.
IntrFairness ==
    /\ WF_intrVars(RunThread)
    /\ WF_intrVars(TimerFunc)

IntrSpec == IntrSafeSpec /\ IntrFairness

-----------------------------------------------------------------------------
(* Properties *)

\* Type invariant.
IntrTypeOK ==
    /\ m_irqs \in [Irq -> BOOLEAN]
    /\ m_isrs \in [Irq -> IsrAddr \cup {NoIsr}]
    /\ m_timer_running \in BOOLEAN
    /\ m_timer_thread \in ThreadState
    /\ run \in RunState
    /\ irq \in 0 .. m_num_interrupts
    /\ lateTicks \in Nat

\* std::thread calls std::terminate when an attached thread is assigned over
\* or destroyed.  So whenever StartTimer could create a thread, and once the
\* VM is gone, no thread may be attached: StopTimer's join guarantees it,
\* for every order of set_timer calls and every progress of the thread.
NoThreadAbandoned ==
    /\ run = "fetch" /\ ~ m_timer_running => m_timer_thread = "none"
    /\ run = "dead" => m_timer_thread = "none"

\* A timer that was switched off can still interrupt the program, because
\* TimerFunc requests the interrupt after its sleep without looking at
\* m_timer_running again; but the service routine is entered at most once.
AtMostOneLateTick == m_timer_thread = "none" => lateTicks <= 1

\* set_timer with a negative delay returns, and the destructor does: the
\* timer thread sees the cleared flag within one period.
StopTimerReturns == run \in {"join", "destroy"} ~> run \notin {"join", "destroy"}

\* A timer interrupt that has a service routine is not lost: a request that
\* comes in between the test and the reset of its flag counts for the service
\* about to start, any other stays pending.  The routine is entered unless
\* the program ends or waits in StopTimer forever.
TimerInterruptServed ==
    m_irqs[m_timer_interrupt] /\ m_isrs[m_timer_interrupt] # NoIsr
        ~> (run = "dispatch" /\ irq = m_timer_interrupt) \/ run \in {"left", "destroy", "dead"}
=============================================================================
