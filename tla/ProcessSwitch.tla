--------------------------- MODULE ProcessSwitch ---------------------------
(***************************************************************************)
(* One hart's loop of main.rs::common_hart_code around                     *)
(* Process::switch_to_and_come_back: arm the timer, save the kernel's      *)
(* context in a new trap frame, enter the process through                  *)
(* switch_to_supervisor_frame, and come back through s_trap_vector,        *)
(* trap_handler and the process frame's restore_context.                   *)
(*                                                                         *)
(* A step is a piece of code no interrupt can split in a way that matters; *)
(* switch_to_supervisor_frame is one step per CSR it writes, because the   *)
(* kernel calls it with interrupts enabled.  A saved context (registers    *)
(* and pc) is the location it resumes at.  The page tables are left out:   *)
(* every satp used here maps the kernel.                                   *)
(***************************************************************************)
EXTENDS Naturals

CONSTANTS
    HartId,     \* this hart
    Slots,      \* heap blocks the allocator uses for trap frames
    Envs        \* what may happen to the hart, see EnvType

\* syscalls: the process makes system calls; kernelIrqs: the timer may expire
\* while kernel code runs; externals: a device may raise an external interrupt.
EnvType == [syscalls : BOOLEAN, kernelIrqs : BOOLEAN, externals : BOOLEAN]

ASSUME ConstantsOK ==
    /\ HartId \in Nat
    /\ Slots # {} /\ Slots \cap {"boot", "proc", "none"} = {}
    /\ Envs \subseteq EnvType

VARIABLES
    env,       \* what may happen in this behaviour
    loc,       \* what the hart executes
    sscratch,  \* the trap frame sscratch points to
    sepc,      \* sepc, as the location it names
    sie,       \* TRUE is 0x222, FALSE is 0
    status,    \* sstatus.SIE and sstatus.SPIE
    pending,   \* sip: subset of {"timer", "software", "external"}
    timer,     \* whether the SBI timer has a deadline ahead
    cause,     \* scause, "none" outside of the handler
    frames,    \* contents of the trap frames
    allocated, \* heap blocks that are allocated
    mine,      \* my_trap_frame of the switch_to_and_come_back in progress
    state,     \* Process.state
    procAt     \* history: the location the process itself has reached

vars == <<env, loc, sscratch, sepc, sie, status, pending, timer, cause, frames,
          allocated, mine, state, procAt>>
csrs == <<sscratch, sepc, sie, status, cause>>

ProcLocs   == {"p_start", "p_loop", "p_wfi"}
SwitchLocs == {"sw_sscratch", "sw_sepc", "sw_sie", "sw_sret"}
KernelLocs == {"setup", "create", "arm", "alloc", "save", "run", "back", "free"}
                  \cup SwitchLocs
Frames == {"boot", "proc"} \cup Slots
Causes == {"timer", "software", "external", "exception", "none"}

\* TrapFrame::zeroed; hartid stands for hartid and hart_locals, ctx for the
\* registers and pc, interrupt_stack for whether it is set.
Zeroed == [hartid |-> 0, interrupt_stack |-> FALSE, interrupt_context |-> FALSE,
           restore_context |-> "none", ctx |-> "zero"]

ZeroedInterruptContext == [Zeroed EXCEPT !.interrupt_context = TRUE]

InheritFrom(f, other) ==
    [f EXCEPT !.hartid = other.hartid,
              !.interrupt_stack = other.interrupt_stack,
              !.interrupt_context = other.interrupt_context]

\* The hart takes an interrupt that is pending and enabled before it executes
\* another instruction.
InterruptDue == status.SIE /\ sie /\ pending # {}

Executes(l) == loc = l /\ ~InterruptDue

\* At entry to setup_hart_state_and_metadata: no trap frame, interrupts masked;
\* sstatus.SPIE is what the firmware left there.
Init ==
    /\ env \in Envs
    /\ loc = "setup"
    /\ sscratch = "none"
    /\ sepc = "zero"
    /\ sie = FALSE
    /\ status \in [SIE : {FALSE}, SPIE : BOOLEAN]
    /\ pending = {}
    /\ timer = FALSE
    /\ cause = "none"
    /\ frames = [f \in Frames |-> Zeroed]
    /\ allocated = {}
    /\ mine = "none"
    /\ state = "Paused"
    /\ procAt = "p_start"

-----------------------------------------------------------------------------
(* The kernel's part of the loop.                                          *)

\* setup_hart_state_and_metadata and setup_hart_trap_frame.
SetupHart ==
    /\ Executes("setup")
    /\ loc' = "create"
    /\ sscratch' = "boot"
    /\ status' = [status EXCEPT !.SIE = TRUE]
    /\ frames' = [frames EXCEPT !["boot"] =
                    [Zeroed EXCEPT !.hartid = HartId, !.interrupt_stack = TRUE,
                                   !.interrupt_context = TRUE]]
    /\ UNCHANGED <<env, sepc, sie, pending, timer, cause,
                   allocated, mine, state, procAt>>

\* Process::new_supervisor: the frame is a Default one with pc and the
\* interrupt stack filled in.
NewSupervisor ==
    /\ Executes("create")
    /\ loc' = "arm"
    /\ frames' = [frames EXCEPT !["proc"] =
                    [Zeroed EXCEPT !.interrupt_stack = frames[sscratch].interrupt_stack,
                                   !.ctx = "p_start"]]
    /\ UNCHANGED <<env, csrs, pending, timer, allocated, mine, state, procAt>>

\* set_relative_timer: the SBI call clears a pending timer interrupt.
SetRelativeTimer ==
    /\ Executes("arm")
    /\ loc' = "alloc"
    /\ timer' = TRUE
    /\ pending' = pending \ {"timer"}
    /\ UNCHANGED <<env, csrs, frames, allocated, mine, state, procAt>>

\* The state a process is entered with.
EnteredState == "Running"

\* switch_to_and_come_back up to the call of
\* store_to_trap_frame_and_run_function.
NewTrapFrame ==
    /\ Executes("alloc")
    /\ loc' = "save"
    /\ \E f \in Slots \ allocated :
          LET zeroed == [frames EXCEPT ![f] = ZeroedInterruptContext] IN
          /\ mine' = f
          /\ allocated' = allocated \cup {f}
          /\ frames' = [zeroed EXCEPT ![f] = InheritFrom(@, zeroed[sscratch])]
    /\ state' = EnteredState
    /\ UNCHANGED <<env, csrs, pending, timer, procAt>>

\* store_to_trap_frame_and_run_function: registers, and pc := .before_return.
StoreToTrapFrame ==
    /\ Executes("save")
    /\ loc' = "run"
    /\ frames' = [frames EXCEPT ![mine].ctx = "back"]
    /\ UNCHANGED <<env, csrs, pending, timer, allocated, mine, state, procAt>>

\* Mutant: the restore_context of the first switch is kept.
FirstCallersFrame ==
    LET r == frames["proc"].restore_context IN IF r = "none" THEN mine ELSE r

CallersFrame == mine

\* The function run.
SetRestoreContext ==
    /\ Executes("run")
    /\ loc' = "sw_sscratch"
    /\ frames' = [frames EXCEPT !["proc"].restore_context = CallersFrame]
    /\ UNCHANGED <<env, csrs, pending, timer, allocated, mine, state, procAt>>

\* Mutant: sscratch keeps the kernel's frame.
SameFrame == sscratch

ProcessFrame == "proc"

\* switch_to_supervisor_frame(process frame), called from kernel code.
SwitchSscratch ==
    /\ Executes("sw_sscratch")
    /\ loc' = "sw_sepc"
    /\ sscratch' = ProcessFrame
    /\ UNCHANGED <<env, sepc, sie, status, pending, timer, cause, frames, allocated,
                   mine, state, procAt>>

SwitchSepc ==
    /\ Executes("sw_sepc")
    /\ loc' = "sw_sie"
    /\ sepc' = frames["proc"].ctx
    /\ UNCHANGED <<env, sscratch, sie, status, pending, timer, cause, frames,
                   allocated, mine, state, procAt>>

SwitchSie ==
    /\ Executes("sw_sie")
    /\ loc' = "sw_sret"
    /\ sie' = TRUE
    /\ UNCHANGED <<env, sscratch, sepc, status, pending, timer, cause, frames,
                   allocated, mine, state, procAt>>

\* sret: SIE takes SPIE, SPIE is set.
Returned == [SIE |-> status.SPIE, SPIE |-> TRUE]

SwitchSret ==
    /\ Executes("sw_sret")
    /\ loc' = sepc
    /\ status' = Returned
    /\ UNCHANGED <<env, sscratch, sepc, sie, pending, timer, cause, frames,
                   allocated, mine, state, procAt>>

\* Mutant: the loop starts after the call of set_relative_timer.
LoopUnarmed == "alloc"

\* The first statement of the loop of common_hart_code.
LoopStart == "arm"

\* After .before_return: the process is Paused, my_trap_frame is dropped.
ComeBack ==
    /\ Executes("back")
    /\ loc' = "free"
    /\ state' = "Paused"
    /\ UNCHANGED <<env, csrs, pending, timer, frames, allocated, mine, procAt>>

DropTrapFrame ==
    /\ Executes("free")
    /\ loc' = LoopStart
    /\ allocated' = allocated \ {mine}
    /\ UNCHANGED <<env, csrs, pending, timer, frames, mine, state, procAt>>

KernelStep ==
    \/ SetupHart \/ NewSupervisor \/ SetRelativeTimer \/ NewTrapFrame
    \/ StoreToTrapFrame \/ SetRestoreContext
    \/ SwitchSscratch \/ SwitchSepc \/ SwitchSie \/ SwitchSret
    \/ ComeBack \/ DropTrapFrame

-----------------------------------------------------------------------------
(* The process.                                                            *)

ProcessGoto(l) == loc' = l /\ procAt' = l

\* main.rs::test begins by enabling interrupts.
ProcessStart ==
    /\ Executes("p_start")
    /\ ProcessGoto("p_loop")
    /\ status' = [status EXCEPT !.SIE = TRUE]
    /\ sie' = TRUE
    /\ UNCHANGED <<env, sscratch, sepc, pending, timer, cause,
                   frames, allocated, mine, state>>

\* do_supervisor_syscall: with interrupts enabled, set SSIP and wait.
ProcessSyscall ==
    /\ env.syscalls /\ Executes("p_loop") /\ sie
    /\ ProcessGoto("p_wfi")
    /\ pending' = pending \cup {"software"}
    /\ UNCHANGED <<env, csrs, timer, frames, allocated, mine, state>>

\* wfi may return at any time, the syscall then returns.
ProcessSyscallEnd ==
    /\ Executes("p_wfi")
    /\ ProcessGoto("p_loop")
    /\ UNCHANGED <<env, csrs, pending, timer, frames, allocated, mine, state>>

ProcessStep == ProcessStart \/ ProcessSyscall \/ ProcessSyscallEnd

-----------------------------------------------------------------------------
(* Traps.                                                                  *)

TimerExpires ==
    /\ timer
    /\ env.kernelIrqs \/ loc \in ProcLocs
    /\ timer' = FALSE
    /\ pending' = pending \cup {"timer"}
    /\ UNCHANGED <<env, loc, csrs, frames, allocated, mine, state, procAt>>

\* A device raises its line; nothing in the kernel makes it lower it.
ExternalRaised ==
    /\ env.externals
    /\ "external" \notin pending
    /\ pending' = pending \cup {"external"}
    /\ UNCHANGED <<env, loc, csrs, timer, frames, allocated, mine, state, procAt>>

\* Mutant: the interrupted context is not saved.
Unsaved == frames

\* store_volatile_registers and the rest of them.
Saved == [frames EXCEPT ![sscratch].ctx = loc]

\* s_trap_vector: the interrupted context goes to the frame in sscratch and the
\* stack pointer is taken from it; without one the hart is lost.
TrapEntry(c) ==
    /\ cause' = c
    /\ loc' = IF frames[sscratch].interrupt_stack THEN "handler" ELSE "crashed"
    /\ frames' = Saved
    /\ status' = [SIE |-> FALSE, SPIE |-> status.SIE]
    /\ sepc' = loc
    /\ UNCHANGED <<env, sscratch, sie, pending, timer, allocated, mine, state, procAt>>

TakeInterrupt ==
    /\ loc \in KernelLocs \cup ProcLocs
    /\ InterruptDue
    /\ \E c \in pending : TrapEntry(c)

\* A fault of the process is taken whether or not interrupts are enabled.
ProcessFault ==
    /\ loc \in ProcLocs
    /\ ~InterruptDue
    /\ TrapEntry("exception")

\* make_interrupt_nonpending: the timer is set to the far future, SSIP is
\* cleared, an external interrupt is left as it is.
MakeInterruptNonpending ==
    /\ pending' = IF cause \in {"timer", "software"} THEN pending \ {cause} ELSE pending
    /\ timer' = IF cause = "timer" THEN FALSE ELSE timer

\* trap_handler with the rest of s_trap_vector: leave through the
\* restore_context if the frame has one (switch_to_supervisor_frame, with
\* interrupts off), or else back to the interrupted code.
TrapHandler ==
    LET r == frames[sscratch].restore_context
        to == IF r # "none" THEN r ELSE sscratch IN
    /\ loc = "handler"
    /\ MakeInterruptNonpending
    /\ sscratch' = to
    /\ sepc' = frames[to].ctx
    /\ loc' = frames[to].ctx
    /\ sie' = (sie \/ r # "none")
    /\ status' = Returned
    /\ cause' = "none"
    /\ UNCHANGED <<env, frames, allocated, mine, state, procAt>>

-----------------------------------------------------------------------------

Next ==
    \/ KernelStep
    \/ ProcessStep
    \/ TimerExpires
    \/ ExternalRaised
    \/ TakeInterrupt
    \/ ProcessFault
    \/ TrapHandler

Spec == Init /\ [][Next]_vars

\* The hart executes its instructions, takes an interrupt it has enabled, and a
\* timer that was set expires.
FairSpec ==
    /\ Spec
    /\ WF_vars(KernelStep) /\ WF_vars(TrapHandler)
    /\ WF_vars(ProcessStep) /\ WF_vars(TimerExpires)
    /\ WF_vars(TakeInterrupt)

-----------------------------------------------------------------------------
(* Properties.                                                             *)

FrameType == [hartid : {0, HartId}, interrupt_stack : BOOLEAN,
              interrupt_context : BOOLEAN,
              restore_context : Slots \cup {"none"},
              ctx : KernelLocs \cup ProcLocs \cup {"zero"}]

TypeOK ==
    /\ env \in Envs
    /\ loc \in KernelLocs \cup ProcLocs \cup {"handler", "crashed"}
    /\ sscratch \in Frames \cup {"none"}
    /\ sepc \in KernelLocs \cup ProcLocs \cup {"zero"}
    /\ sie \in BOOLEAN /\ timer \in BOOLEAN
    /\ status \in [SIE : BOOLEAN, SPIE : BOOLEAN]
    /\ pending \subseteq {"timer", "software", "external"}
    /\ cause \in Causes
    /\ frames \in [Frames -> FrameType]
    /\ allocated \subseteq Slots
    /\ mine \in Slots \cup {"none"}
    /\ state \in {"Running", "Paused"}
    /\ procAt \in ProcLocs

\* Nothing is raised while kernel code runs; a second interrupt of the process
\* may still be pending when the kernel gets the hart back.
Undisturbed == ~env.kernelIrqs /\ ~env.externals

\* The process runs from where it was stopped: its frame keeps the context that
\* the trap saved there until the next sret, whatever the kernel does.  The state
\* is well-formed, and Running while the process executes, even when traps hit
\* the kernel inside the switch.
ProcessContextKept ==
    /\ TypeOK
    /\ loc \in ProcLocs => state = "Running"
    /\ Undisturbed =>
        /\ loc \in ProcLocs => loc = procAt
        /\ loc \in KernelLocs \ {"setup", "create"} => frames["proc"].ctx = procAt

\* A trap with the process frame in sscratch finds in restore_context a frame
\* that is still allocated and that holds the caller of switch_to_and_come_back,
\* also when the trap hits the kernel inside the switch.
ReturnsToCaller ==
    (loc = "handler" /\ sscratch = "proc") =>
        LET r == frames["proc"].restore_context IN
        r \in allocated /\ r = mine /\ frames[r].ctx = "back"

\* A process that has the hart gives it back to the kernel loop: the timer that
\* was armed before the switch is still armed when the process runs.
KernelRegainsHart ==
    (Undisturbed /\ ~env.syscalls /\ loc \in ProcLocs) ~> loc = "back"

\* kernel_cpu, on write_sscratch: the frame "must make sense with what the hart
\* is executing": a trap saves process context, and only that, in the process
\* frame.
SscratchMakesSense ==
    loc = "handler" => (sscratch = "proc" <=> frames[sscratch].ctx \in ProcLocs)

\* The same when nothing is raised inside switch_to_supervisor_frame.
SscratchMakesSenseUndisturbed == Undisturbed => SscratchMakesSense

\* kernel_cpu, on write_sscratch: "Must be a valid trap frame".  From the csrw of
\* the switch until switch_to_and_come_back drops my_trap_frame sscratch points to
\* a frame that exists, whatever interrupts the switch; between the drop and the
\* next csrw it does not.
SscratchValid ==
    loc \in ProcLocs \cup {"sw_sepc", "sw_sie", "sw_sret", "back", "free"} =>
        sscratch \in {"boot", "proc"} \cup allocated
=============================================================================
