------------------------ MODULE ProcessSwitchProofs ------------------------
(***************************************************************************)
(* The proofs about ProcessSwitch: for any hart, any heap and any          *)
(* interrupts, a trap in the process returns to the caller of this switch, *)
(* and sscratch points to a frame that exists; and the process is resumed  *)
(* where it was stopped if nothing is raised in kernel code.               *)
(***************************************************************************)
EXTENDS ProcessSwitch, TLAPS

-----------------------------------------------------------------------------
(* The inductive invariant.                                                *)

\* Where the hart is with the process frame in sscratch.
Inner == ProcLocs \cup {"sw_sepc", "sw_sie", "sw_sret"}

Contexts == KernelLocs \cup ProcLocs \cup {"zero"}

\* What the hart executes, or what the handler has interrupted.
At == IF loc = "handler" THEN frames[sscratch].ctx ELSE loc

Types ==
    /\ loc \in KernelLocs \cup ProcLocs \cup {"handler", "crashed"}
    /\ frames \in [Frames -> FrameType]
    /\ allocated \subseteq Slots
    /\ mine \in Slots \cup {"none"}

\* A trap finds a frame, and the handler a context that was saved there.
Framed ==
    /\ loc = "setup" => ~status.SIE
    /\ loc # "setup" => sscratch \in Frames
    /\ loc = "handler" => At \in (KernelLocs \ {"setup"}) \cup ProcLocs

\* Only the process frame has a restore_context.
OneRestores == \A f \in Frames \ {"proc"} : frames[f].restore_context = "none"

\* my_trap_frame exists as long as the switch needs it, and has the context of
\* the caller from the save to the return.  A trap in between could only spoil it
\* through a sscratch that still points to the block, which then has no stack.
CallerKept ==
    /\ At \in {"save", "run", "sw_sscratch", "back", "free"} \cup Inner => mine \in allocated
    /\ At \in {"run", "sw_sscratch", "back"} \cup Inner => frames[mine].ctx = "back"
    /\ At \in {"save", "run", "sw_sscratch"} /\ sscratch = mine
           => ~frames[mine].interrupt_stack
    /\ At \in {"back", "free"} => sscratch = mine

\* The process frame is in sscratch in the inner part of the switch and nowhere
\* else; it leads to the caller, and resumes in the inner part.
ProcessEntered ==
    /\ At \in Inner <=> sscratch = "proc"
    /\ At \in {"sw_sscratch"} \cup Inner => frames["proc"].restore_context = mine
    /\ At \notin {"setup", "create"} => frames["proc"].ctx \in Inner
    /\ loc \in {"sw_sie", "sw_sret"} => sepc \in Inner

SwitchInv ==
    /\ Types /\ Framed /\ OneRestores
    /\ loc # "crashed" => CallerKept /\ ProcessEntered

-----------------------------------------------------------------------------
(* Updates of a trap frame.                                                *)

\* The stores of a context change nothing else in any frame.
LEMMA ContextStored ==
    ASSUME frames \in [Frames -> FrameType], NEW f \in Frames, NEW c \in Contexts,
           frames' = [frames EXCEPT ![f].ctx = c]
    PROVE  /\ frames' \in [Frames -> FrameType]
           /\ \A g \in Frames :
                /\ frames'[g].restore_context = frames[g].restore_context
                /\ frames'[g].interrupt_stack = frames[g].interrupt_stack
                /\ frames'[g].ctx = IF g = f THEN c ELSE frames[g].ctx
<1>1. frames[f] \in FrameType
  OBVIOUS
<1>2. [frames[f] EXCEPT !.ctx = c] \in FrameType
  BY <1>1 DEF FrameType, Contexts
<1>3. \A g \in Frames :
          frames'[g] = IF g = f THEN [frames[f] EXCEPT !.ctx = c] ELSE frames[g]
  OBVIOUS
<1>4. frames' \in [Frames -> FrameType]
  BY <1>2
<1>5. ASSUME NEW g \in Frames
      PROVE  /\ frames'[g].restore_context = frames[g].restore_context
             /\ frames'[g].interrupt_stack = frames[g].interrupt_stack
             /\ frames'[g].ctx = IF g = f THEN c ELSE frames[g].ctx
  BY <1>1, <1>3 DEF FrameType
<1>q. QED
  BY <1>4, <1>5

\* A frame that is filled in replaces no other.
LEMMA FrameStored ==
    ASSUME frames \in [Frames -> FrameType], NEW f \in Frames, NEW r \in FrameType,
           frames' = [frames EXCEPT ![f] = r]
    PROVE  /\ frames' \in [Frames -> FrameType]
           /\ frames'[f] = r
           /\ \A g \in Frames \ {f} : frames'[g] = frames[g]
OBVIOUS

LEMMA ZeroedIsFrame == Zeroed \in FrameType
BY ConstantsOK DEF Zeroed, FrameType, Contexts
-----------------------------------------------------------------------------
(* Each step keeps the invariant.                                          *)

LEMMA InitSwitchInv == Init => SwitchInv
<1> SUFFICES ASSUME Init PROVE SwitchInv
  OBVIOUS
<1>1. frames \in [Frames -> FrameType] /\ \A f \in Frames : frames[f] = Zeroed
  BY ZeroedIsFrame DEF Init
<1>2. Types
  BY <1>1 DEF Init, Types, KernelLocs
<1>3. Framed
  BY DEF Init, Framed
<1>4. OneRestores
  BY <1>1 DEF OneRestores, Zeroed
<1>5. At = "setup"
  BY DEF Init, At
<1>6. CallerKept /\ ProcessEntered
  BY <1>5 DEF Init, CallerKept, ProcessEntered, Inner, ProcLocs
<1>q. QED
  BY <1>2, <1>3, <1>4, <1>6 DEF SwitchInv

\* Outside of the handler the invariant speaks of the location; a step that
\* stores nothing in a frame keeps what it says of the frames.
LEMMA OutsideHandler ==
    ASSUME SwitchInv, loc \notin {"handler", "crashed"}
    PROVE  /\ Types /\ Framed /\ OneRestores /\ CallerKept /\ ProcessEntered
           /\ At = loc
BY DEF SwitchInv, At

LEMMA FramesUnchanged ==
    ASSUME SwitchInv, loc \notin {"handler", "crashed"}, UNCHANGED frames,
           loc' \in KernelLocs \cup ProcLocs, loc' # "setup", sscratch' \in Frames,
           allocated' \subseteq Slots, mine' \in Slots \cup {"none"},
           CallerKept', ProcessEntered'
    PROVE  SwitchInv'
<1>1. Types' /\ OneRestores'
  BY OutsideHandler DEF Types, OneRestores
<1>2. Framed'
  BY DEF Framed, KernelLocs, SwitchLocs, ProcLocs
<1>q. QED
  BY <1>1, <1>2 DEF SwitchInv
LEMMA SetRelativeTimerKeeps == SwitchInv /\ SetRelativeTimer => SwitchInv'
<1> SUFFICES ASSUME SwitchInv, SetRelativeTimer PROVE SwitchInv'
  OBVIOUS
<1>1. Types /\ Framed /\ OneRestores /\ CallerKept /\ ProcessEntered /\ At = loc
  BY OutsideHandler DEF SetRelativeTimer, Executes
<1>2. At' = loc' /\ UNCHANGED frames
  BY <1>1 DEF SetRelativeTimer, Executes, At, csrs, ProcessEntered, Inner, ProcLocs
<1>3. CallerKept'
  BY <1>1, <1>2 DEF SetRelativeTimer, Executes, csrs, CallerKept, ProcessEntered, Inner, ProcLocs
<1>4. ProcessEntered'
  BY <1>1, <1>2, ConstantsOK DEF SetRelativeTimer, Executes, csrs, ProcessEntered, CallerKept, Types, Inner, ProcLocs
<1>q. QED
  BY <1>1, <1>2, <1>3, <1>4, FramesUnchanged
  DEF SetRelativeTimer, Executes, csrs, Types, Framed, ProcessEntered, Frames, KernelLocs, SwitchLocs, Inner, ProcLocs

LEMMA SwitchSscratchKeeps == SwitchInv /\ SwitchSscratch => SwitchInv'
<1> SUFFICES ASSUME SwitchInv, SwitchSscratch PROVE SwitchInv'
  OBVIOUS
<1>1. Types /\ Framed /\ OneRestores /\ CallerKept /\ ProcessEntered /\ At = loc
  BY OutsideHandler DEF SwitchSscratch, Executes, ProcessFrame
<1>2. At' = loc' /\ UNCHANGED frames
  BY <1>1 DEF SwitchSscratch, Executes, ProcessFrame, At, csrs, ProcessEntered, Inner, ProcLocs
<1>3. CallerKept'
  BY <1>1, <1>2 DEF SwitchSscratch, Executes, ProcessFrame, csrs, CallerKept, ProcessEntered, Inner, ProcLocs
<1>4. ProcessEntered'
  BY <1>1, <1>2, ConstantsOK DEF SwitchSscratch, Executes, ProcessFrame, csrs, ProcessEntered, CallerKept, Types, Inner, ProcLocs
<1>q. QED
  BY <1>1, <1>2, <1>3, <1>4, FramesUnchanged
  DEF SwitchSscratch, Executes, ProcessFrame, csrs, Types, Framed, ProcessEntered, Frames, KernelLocs, SwitchLocs, Inner, ProcLocs

LEMMA SwitchSepcKeeps == SwitchInv /\ SwitchSepc => SwitchInv'
<1> SUFFICES ASSUME SwitchInv, SwitchSepc PROVE SwitchInv'
  OBVIOUS
<1>1. Types /\ Framed /\ OneRestores /\ CallerKept /\ ProcessEntered /\ At = loc
  BY OutsideHandler DEF SwitchSepc, Executes
<1>2. At' = loc' /\ UNCHANGED frames
  BY <1>1 DEF SwitchSepc, Executes, At, csrs, ProcessEntered, Inner, ProcLocs
<1>3. CallerKept'
  BY <1>1, <1>2 DEF SwitchSepc, Executes, csrs, CallerKept, ProcessEntered, Inner, ProcLocs
<1>4. ProcessEntered'
  BY <1>1, <1>2, ConstantsOK DEF SwitchSepc, Executes, csrs, ProcessEntered, CallerKept, Types, Inner, ProcLocs
<1>q. QED
  BY <1>1, <1>2, <1>3, <1>4, FramesUnchanged
  DEF SwitchSepc, Executes, csrs, Types, Framed, ProcessEntered, Frames, KernelLocs, SwitchLocs, Inner, ProcLocs

LEMMA SwitchSieKeeps == SwitchInv /\ SwitchSie => SwitchInv'
<1> SUFFICES ASSUME SwitchInv, SwitchSie PROVE SwitchInv'
  OBVIOUS
<1>1. Types /\ Framed /\ OneRestores /\ CallerKept /\ ProcessEntered /\ At = loc
  BY OutsideHandler DEF SwitchSie, Executes
<1>2. At' = loc' /\ UNCHANGED frames
  BY <1>1 DEF SwitchSie, Executes, At, csrs, ProcessEntered, Inner, ProcLocs
<1>3. CallerKept'
  BY <1>1, <1>2 DEF SwitchSie, Executes, csrs, CallerKept, ProcessEntered, Inner, ProcLocs
<1>4. ProcessEntered'
  BY <1>1, <1>2, ConstantsOK DEF SwitchSie, Executes, csrs, ProcessEntered, CallerKept, Types, Inner, ProcLocs
<1>q. QED
  BY <1>1, <1>2, <1>3, <1>4, FramesUnchanged
  DEF SwitchSie, Executes, csrs, Types, Framed, ProcessEntered, Frames, KernelLocs, SwitchLocs, Inner, ProcLocs

LEMMA SwitchSretKeeps == SwitchInv /\ SwitchSret => SwitchInv'
<1> SUFFICES ASSUME SwitchInv, SwitchSret PROVE SwitchInv'
  OBVIOUS
<1>1. Types /\ Framed /\ OneRestores /\ CallerKept /\ ProcessEntered /\ At = loc
  BY OutsideHandler DEF SwitchSret, Executes
<1>2. At' = loc' /\ UNCHANGED frames
  BY <1>1 DEF SwitchSret, Executes, At, csrs, ProcessEntered, Inner, ProcLocs
<1>3. CallerKept'
  BY <1>1, <1>2 DEF SwitchSret, Executes, csrs, CallerKept, ProcessEntered, Inner, ProcLocs
<1>4. ProcessEntered'
  BY <1>1, <1>2, ConstantsOK DEF SwitchSret, Executes, csrs, ProcessEntered, CallerKept, Types, Inner, ProcLocs
<1>q. QED
  BY <1>1, <1>2, <1>3, <1>4, FramesUnchanged
  DEF SwitchSret, Executes, csrs, Types, Framed, ProcessEntered, Frames, KernelLocs, SwitchLocs, Inner, ProcLocs

LEMMA ComeBackKeeps == SwitchInv /\ ComeBack => SwitchInv'
<1> SUFFICES ASSUME SwitchInv, ComeBack PROVE SwitchInv'
  OBVIOUS
<1>1. Types /\ Framed /\ OneRestores /\ CallerKept /\ ProcessEntered /\ At = loc
  BY OutsideHandler DEF ComeBack, Executes
<1>2. At' = loc' /\ UNCHANGED frames
  BY <1>1 DEF ComeBack, Executes, At, csrs, ProcessEntered, Inner, ProcLocs
<1>3. CallerKept'
  BY <1>1, <1>2 DEF ComeBack, Executes, csrs, CallerKept, ProcessEntered, Inner, ProcLocs
<1>4. ProcessEntered'
  BY <1>1, <1>2, ConstantsOK DEF ComeBack, Executes, csrs, ProcessEntered, CallerKept, Types, Inner, ProcLocs
<1>q. QED
  BY <1>1, <1>2, <1>3, <1>4, FramesUnchanged
  DEF ComeBack, Executes, csrs, Types, Framed, ProcessEntered, Frames, KernelLocs, SwitchLocs, Inner, ProcLocs

LEMMA DropTrapFrameKeeps == SwitchInv /\ DropTrapFrame => SwitchInv'
<1> SUFFICES ASSUME SwitchInv, DropTrapFrame PROVE SwitchInv'
  OBVIOUS
<1>1. Types /\ Framed /\ OneRestores /\ CallerKept /\ ProcessEntered /\ At = loc
  BY OutsideHandler DEF DropTrapFrame, Executes, LoopStart
<1>2. At' = loc' /\ UNCHANGED frames
  BY <1>1 DEF DropTrapFrame, Executes, LoopStart, At, csrs, ProcessEntered, Inner, ProcLocs
<1>3. CallerKept'
  BY <1>1, <1>2 DEF DropTrapFrame, Executes, LoopStart, csrs, CallerKept, ProcessEntered, Inner, ProcLocs
<1>4. ProcessEntered'
  BY <1>1, <1>2, ConstantsOK DEF DropTrapFrame, Executes, LoopStart, csrs, ProcessEntered, CallerKept, Types, Inner, ProcLocs
<1>q. QED
  BY <1>1, <1>2, <1>3, <1>4, FramesUnchanged
  DEF DropTrapFrame, Executes, LoopStart, csrs, Types, Framed, ProcessEntered, Frames, KernelLocs, SwitchLocs, Inner, ProcLocs

LEMMA ProcessStepKeeps == SwitchInv /\ ProcessStep => SwitchInv'
<1> SUFFICES ASSUME SwitchInv, ProcessStep PROVE SwitchInv'
  OBVIOUS
<1>1. Types /\ Framed /\ OneRestores /\ CallerKept /\ ProcessEntered /\ At = loc
  BY OutsideHandler DEF ProcessStep, ProcessStart, ProcessSyscall, ProcessSyscallEnd, ProcessGoto, Executes
<1>2. At' = loc' /\ UNCHANGED frames
  BY <1>1 DEF ProcessStep, ProcessStart, ProcessSyscall, ProcessSyscallEnd, ProcessGoto, Executes, At, csrs, ProcessEntered, Inner, ProcLocs
<1>3. CallerKept'
  BY <1>1, <1>2 DEF ProcessStep, ProcessStart, ProcessSyscall, ProcessSyscallEnd, ProcessGoto, Executes, csrs, CallerKept, ProcessEntered, Inner, ProcLocs
<1>4. ProcessEntered'
  BY <1>1, <1>2, ConstantsOK DEF ProcessStep, ProcessStart, ProcessSyscall, ProcessSyscallEnd, ProcessGoto, Executes, csrs, ProcessEntered, CallerKept, Types, Inner, ProcLocs
<1>q. QED
  BY <1>1, <1>2, <1>3, <1>4, FramesUnchanged
  DEF ProcessStep, ProcessStart, ProcessSyscall, ProcessSyscallEnd, ProcessGoto, Executes, csrs, Types, Framed, ProcessEntered, Frames, KernelLocs, SwitchLocs, Inner, ProcLocs
LEMMA SetupHartKeeps == SwitchInv /\ SetupHart => SwitchInv'
<1> SUFFICES ASSUME SwitchInv, SetupHart PROVE SwitchInv'
  OBVIOUS
<1>1. Types /\ OneRestores /\ loc = "setup"
  BY OutsideHandler DEF SetupHart, Executes
<1> DEFINE r == [Zeroed EXCEPT !.hartid = HartId, !.interrupt_stack = TRUE,
                               !.interrupt_context = TRUE]
<1>2. r \in FrameType /\ r.restore_context = "none"
  BY ConstantsOK DEF Zeroed, FrameType
<1>3. "boot" \in Frames /\ frames' = [frames EXCEPT !["boot"] = r]
  BY DEF SetupHart, Frames
<1> HIDE DEF r
<1>4. /\ frames' \in [Frames -> FrameType]
      /\ frames'["boot"] = r
      /\ \A g \in Frames \ {"boot"} : frames'[g] = frames[g]
  BY <1>1, <1>2, <1>3, FrameStored DEF Types
<1>5. Types'
  BY <1>1, <1>4 DEF SetupHart, Types, KernelLocs
<1>6. OneRestores'
  BY <1>1, <1>2, <1>4 DEF OneRestores
<1>7. Framed' /\ At' = "create" /\ sscratch' = "boot" /\ loc' = "create"
  BY DEF SetupHart, Framed, At, Frames
<1>8. CallerKept' /\ ProcessEntered'
  BY <1>7 DEF CallerKept, ProcessEntered, Inner, ProcLocs
<1>q. QED
  BY <1>5, <1>6, <1>7, <1>8 DEF SwitchInv

LEMMA NewSupervisorKeeps == SwitchInv /\ NewSupervisor => SwitchInv'
<1> SUFFICES ASSUME SwitchInv, NewSupervisor PROVE SwitchInv'
  OBVIOUS
<1>1. Types /\ Framed /\ OneRestores /\ ProcessEntered /\ At = loc /\ loc = "create"
  BY OutsideHandler DEF NewSupervisor, Executes
<1>2. sscratch \in Frames /\ sscratch # "proc"
  BY <1>1 DEF Framed, ProcessEntered, Inner, ProcLocs
<1> DEFINE r == [Zeroed EXCEPT !.interrupt_stack = frames[sscratch].interrupt_stack,
                               !.ctx = "p_start"]
<1>3. frames[sscratch] \in FrameType
  BY <1>1, <1>2 DEF Types
<1>4. r \in FrameType /\ r.ctx = "p_start"
  BY <1>3, ConstantsOK DEF Zeroed, FrameType, ProcLocs
<1>5. "proc" \in Frames /\ frames' = [frames EXCEPT !["proc"] = r]
  BY DEF NewSupervisor, Frames
<1> HIDE DEF r
<1>6. /\ frames' \in [Frames -> FrameType]
      /\ frames'["proc"] = r
      /\ \A g \in Frames \ {"proc"} : frames'[g] = frames[g]
  BY <1>1, <1>4, <1>5, FrameStored DEF Types
<1>7. Types'
  BY <1>1, <1>6 DEF NewSupervisor, Types, KernelLocs
<1>8. OneRestores'
  BY <1>1, <1>6 DEF OneRestores
<1>9. Framed' /\ At' = "arm" /\ sscratch' = sscratch /\ loc' = "arm"
  BY <1>2 DEF NewSupervisor, Framed, At, csrs
<1>10. CallerKept'
  BY <1>9 DEF CallerKept, Inner, ProcLocs
<1>11. ProcessEntered'
  BY <1>2, <1>4, <1>6, <1>9 DEF ProcessEntered, Inner, ProcLocs
<1>q. QED
  BY <1>7, <1>8, <1>9, <1>10, <1>11 DEF SwitchInv

LEMMA NewTrapFrameKeeps == SwitchInv /\ NewTrapFrame => SwitchInv'
<1> SUFFICES ASSUME SwitchInv, NewTrapFrame PROVE SwitchInv'
  OBVIOUS
<1>1. Types /\ Framed /\ OneRestores /\ ProcessEntered /\ At = loc /\ loc = "alloc"
  BY OutsideHandler DEF NewTrapFrame, Executes
<1>2. sscratch \in Frames /\ sscratch # "proc"
  BY <1>1 DEF Framed, ProcessEntered, Inner, ProcLocs
<1>3. PICK f \in Slots \ allocated :
          LET zeroed == [frames EXCEPT ![f] = ZeroedInterruptContext] IN
          /\ mine' = f
          /\ allocated' = allocated \cup {f}
          /\ frames' = [zeroed EXCEPT ![f] = InheritFrom(@, zeroed[sscratch])]
  BY DEF NewTrapFrame
<1>4. f \in Frames /\ f # "proc"
  BY ConstantsOK DEF Frames
<1> DEFINE other == IF sscratch = f THEN ZeroedInterruptContext ELSE frames[sscratch]
           r == InheritFrom(ZeroedInterruptContext, other)
<1>5. ZeroedInterruptContext \in FrameType /\ ~ZeroedInterruptContext.interrupt_stack
  BY ConstantsOK DEF ZeroedInterruptContext, Zeroed, FrameType
<1>6. other \in FrameType /\ (sscratch = f => ~other.interrupt_stack)
  BY <1>1, <1>2, <1>5 DEF Types
<1>7. frames' = [frames EXCEPT ![f] = r]
  BY <1>1, <1>2, <1>3, <1>4 DEF Types
<1> HIDE DEF other
<1>8. r \in FrameType /\ r.restore_context = "none" /\ r.interrupt_stack = other.interrupt_stack
  BY <1>6, ConstantsOK DEF InheritFrom, ZeroedInterruptContext, Zeroed, FrameType
<1> HIDE DEF r
<1>9. /\ frames' \in [Frames -> FrameType]
      /\ frames'[f] = r
      /\ \A g \in Frames \ {f} : frames'[g] = frames[g]
  BY <1>1, <1>4, <1>7, <1>8, FrameStored DEF Types
<1>10. Types'
  BY <1>1, <1>3, <1>9 DEF NewTrapFrame, Types, KernelLocs
<1>11. OneRestores'
  BY <1>1, <1>8, <1>9 DEF OneRestores
<1>12. Framed' /\ At' = "save" /\ sscratch' = sscratch /\ loc' = "save"
  BY <1>2 DEF NewTrapFrame, Framed, At, csrs
<1>13. mine' \in allocated' /\ (sscratch' = mine' => ~frames'[mine'].interrupt_stack)
  BY <1>3, <1>6, <1>8, <1>9, <1>12
<1>14. CallerKept'
  BY <1>12, <1>13 DEF CallerKept, Inner, ProcLocs
<1>15. frames'["proc"].ctx \in Inner
  BY <1>1, <1>4, <1>9 DEF ProcessEntered, Frames
<1>16. ProcessEntered'
  BY <1>2, <1>12, <1>15 DEF ProcessEntered, Inner, ProcLocs
<1>q. QED
  BY <1>10, <1>11, <1>12, <1>14, <1>16 DEF SwitchInv
LEMMA StoreToTrapFrameKeeps == SwitchInv /\ StoreToTrapFrame => SwitchInv'
<1> SUFFICES ASSUME SwitchInv, StoreToTrapFrame PROVE SwitchInv'
  OBVIOUS
<1>1. Types /\ Framed /\ OneRestores /\ CallerKept /\ ProcessEntered /\ At = loc /\ loc = "save"
  BY OutsideHandler DEF StoreToTrapFrame, Executes
<1>2. sscratch \in Frames /\ sscratch # "proc"
  BY <1>1 DEF Framed, ProcessEntered, Inner, ProcLocs
<1>3. mine \in allocated /\ mine \in Frames /\ mine # "proc"
  BY <1>1, ConstantsOK DEF CallerKept, Types, Frames
<1>4. "back" \in Contexts /\ frames' = [frames EXCEPT ![mine].ctx = "back"]
  BY DEF StoreToTrapFrame, Contexts, KernelLocs
<1>5. /\ frames' \in [Frames -> FrameType]
      /\ \A g \in Frames :
           /\ frames'[g].restore_context = frames[g].restore_context
           /\ frames'[g].interrupt_stack = frames[g].interrupt_stack
           /\ frames'[g].ctx = IF g = mine THEN "back" ELSE frames[g].ctx
  BY <1>1, <1>3, <1>4, ContextStored DEF Types
<1>6. Types'
  BY <1>1, <1>5 DEF StoreToTrapFrame, Types, KernelLocs
<1>7. OneRestores'
  BY <1>1, <1>5 DEF OneRestores
<1>8. /\ Framed' /\ At' = "run" /\ loc' = "run"
      /\ sscratch' = sscratch /\ mine' = mine /\ allocated' = allocated
  BY <1>2 DEF StoreToTrapFrame, Framed, At, csrs
<1>9. CallerKept'
  BY <1>1, <1>3, <1>5, <1>8 DEF CallerKept, Inner, ProcLocs
<1>10. frames'["proc"].ctx \in Inner
  BY <1>1, <1>3, <1>5 DEF ProcessEntered, Frames
<1>11. ProcessEntered'
  BY <1>2, <1>8, <1>10 DEF ProcessEntered, Inner, ProcLocs
<1>q. QED
  BY <1>6, <1>7, <1>8, <1>9, <1>11 DEF SwitchInv

LEMMA SetRestoreContextKeeps == SwitchInv /\ SetRestoreContext => SwitchInv'
<1> SUFFICES ASSUME SwitchInv, SetRestoreContext PROVE SwitchInv'
  OBVIOUS
<1>1. Types /\ Framed /\ OneRestores /\ CallerKept /\ ProcessEntered /\ At = loc /\ loc = "run"
  BY OutsideHandler DEF SetRestoreContext, Executes
<1>2. sscratch \in Frames /\ sscratch # "proc"
  BY <1>1 DEF Framed, ProcessEntered, Inner, ProcLocs
<1>3. mine \in allocated /\ mine \in Slots /\ mine \in Frames /\ mine # "proc"
  BY <1>1, ConstantsOK DEF CallerKept, Types, Frames
<1> DEFINE r == [frames["proc"] EXCEPT !.restore_context = mine]
<1>4. "proc" \in Frames /\ frames["proc"] \in FrameType
  BY <1>1 DEF Types, Frames
<1>5. r \in FrameType /\ r.restore_context = mine /\ r.ctx = frames["proc"].ctx
  BY <1>3, <1>4 DEF FrameType
<1>6. frames' = [frames EXCEPT !["proc"] = r]
  BY DEF SetRestoreContext, CallersFrame
<1> HIDE DEF r
<1>7. /\ frames' \in [Frames -> FrameType]
      /\ frames'["proc"] = r
      /\ \A g \in Frames \ {"proc"} : frames'[g] = frames[g]
  BY <1>1, <1>4, <1>5, <1>6, FrameStored DEF Types
<1>8. Types'
  BY <1>1, <1>7 DEF SetRestoreContext, Types, KernelLocs, SwitchLocs
<1>9. OneRestores'
  BY <1>1, <1>7 DEF OneRestores
<1>10. /\ Framed' /\ At' = "sw_sscratch" /\ loc' = "sw_sscratch"
       /\ sscratch' = sscratch /\ mine' = mine /\ allocated' = allocated
  BY <1>2 DEF SetRestoreContext, Framed, At, csrs
<1>11. CallerKept'
  BY <1>1, <1>3, <1>7, <1>10 DEF CallerKept, Inner, ProcLocs
<1>12. frames'["proc"].ctx \in Inner /\ frames'["proc"].restore_context = mine'
  BY <1>1, <1>5, <1>7, <1>10 DEF ProcessEntered
<1>13. ProcessEntered'
  BY <1>2, <1>10, <1>12 DEF ProcessEntered, Inner, ProcLocs
<1>q. QED
  BY <1>8, <1>9, <1>10, <1>11, <1>13 DEF SwitchInv

\* The trap vector stores the interrupted context in the frame in sscratch.  If
\* that is my_trap_frame before the switch, the hart is lost, and with it the
\* caller's context; if it is the process frame, the context is one of the inner
\* part.
LEMMA TrapEntryKeeps ==
    ASSUME SwitchInv, NEW c, loc \in KernelLocs \cup ProcLocs, loc # "setup", TrapEntry(c)
    PROVE  SwitchInv'
<1>1. Types /\ Framed /\ OneRestores /\ CallerKept /\ ProcessEntered /\ At = loc
  BY OutsideHandler DEF KernelLocs, SwitchLocs, ProcLocs
<1>2. sscratch \in Frames
  BY <1>1 DEF Framed
<1>3. loc \in Contexts /\ frames' = [frames EXCEPT ![sscratch].ctx = loc]
  BY DEF TrapEntry, Saved, Contexts
<1>4. /\ frames' \in [Frames -> FrameType]
      /\ \A g \in Frames :
           /\ frames'[g].restore_context = frames[g].restore_context
           /\ frames'[g].interrupt_stack = frames[g].interrupt_stack
           /\ frames'[g].ctx = IF g = sscratch THEN loc ELSE frames[g].ctx
  BY <1>1, <1>2, <1>3, ContextStored DEF Types
<1>5. sscratch' = sscratch /\ mine' = mine /\ allocated' = allocated
  BY DEF TrapEntry
<1>6. loc' = IF frames[sscratch].interrupt_stack THEN "handler" ELSE "crashed"
  BY DEF TrapEntry
<1>7. Types'
  BY <1>1, <1>4, <1>5, <1>6 DEF Types
<1>8. OneRestores'
  BY <1>1, <1>4 DEF OneRestores
<1>9. loc' = "handler" => At' = loc
  BY <1>2, <1>4, <1>5 DEF At
<1>10. Framed'
  BY <1>2, <1>5, <1>6, <1>9 DEF Framed
<1>11. CASE loc' = "crashed"
  BY <1>7, <1>8, <1>10, <1>11 DEF SwitchInv
<1>12. CASE loc' = "handler"
  <2>1. frames[sscratch].interrupt_stack /\ At' = loc
    BY <1>6, <1>9, <1>12
  <2>2. mine \in allocated => mine \in Frames /\ mine # "proc"
    BY <1>1, ConstantsOK DEF Types, Frames
  <2>3. loc \in {"run", "sw_sscratch", "back"} \cup Inner => frames'[mine].ctx = "back"
    BY <1>1, <1>4, <2>1, <2>2 DEF CallerKept, ProcessEntered, Inner, ProcLocs
  <2>4. CallerKept'
    BY <1>1, <1>5, <2>1, <2>3 DEF CallerKept, Inner, ProcLocs
  <2>5. loc \notin {"setup", "create"} => frames'["proc"].ctx \in Inner
    BY <1>1, <1>4 DEF ProcessEntered, Frames
  <2>6. "proc" \in Frames
    BY DEF Frames
  <2>7. ProcessEntered'
    BY <1>1, <1>4, <1>5, <1>12, <2>1, <2>5, <2>6 DEF ProcessEntered
  <2>q. QED
    BY <1>7, <1>8, <1>10, <2>4, <2>7 DEF SwitchInv
<1>q. QED
  BY <1>6, <1>11, <1>12
\* The handler leaves through the process frame to the caller, or through any
\* other frame to the code it has interrupted.
LEMMA TrapHandlerKeeps == SwitchInv /\ TrapHandler => SwitchInv'
<1> SUFFICES ASSUME SwitchInv, TrapHandler PROVE SwitchInv'
  OBVIOUS
<1>1. Types /\ Framed /\ OneRestores /\ CallerKept /\ ProcessEntered /\ loc = "handler"
  BY DEF SwitchInv, TrapHandler
<1>2. sscratch \in Frames /\ At = frames[sscratch].ctx
  BY <1>1 DEF Framed, At
<1>3. UNCHANGED <<frames, allocated, mine>>
  BY DEF TrapHandler
<1>4. OneRestores'
  BY <1>1, <1>3 DEF OneRestores
<1>5. CASE sscratch = "proc"
  <2>1. At \in Inner /\ frames[sscratch].restore_context = mine
    BY <1>1, <1>5 DEF ProcessEntered
  <2>2. mine \in allocated /\ frames[mine].ctx = "back"
    BY <1>1, <2>1 DEF CallerKept
  <2>3. mine \in Frames /\ mine \notin {"proc", "none"}
    BY <1>1, <2>2, ConstantsOK DEF Types, Frames
  <2>4. loc' = "back" /\ sscratch' = mine
    BY <2>1, <2>2, <2>3 DEF TrapHandler
  <2>5. At' = "back"
    BY <2>4 DEF At
  <2>6. Types' /\ Framed'
    BY <1>1, <1>3, <2>3, <2>4 DEF Types, Framed, KernelLocs
  <2>7. CallerKept'
    BY <1>3, <2>2, <2>4, <2>5 DEF CallerKept
  <2>8. frames["proc"].ctx \in Inner
    BY <1>1, <2>1 DEF ProcessEntered, Inner, ProcLocs
  <2>9. ProcessEntered'
    BY <1>3, <2>3, <2>4, <2>5, <2>8 DEF ProcessEntered, Inner, ProcLocs
  <2>q. QED
    BY <1>4, <2>6, <2>7, <2>9 DEF SwitchInv
<1>6. CASE sscratch # "proc"
  <2>1. frames[sscratch].restore_context = "none"
    BY <1>1, <1>2, <1>6 DEF OneRestores
  <2>2. loc' = At /\ sscratch' = sscratch
    BY <1>2, <2>1 DEF TrapHandler
  <2>3. At \in (KernelLocs \ {"setup"}) \cup ProcLocs /\ At \notin Inner
    BY <1>1, <1>6 DEF Framed, ProcessEntered
  <2>4. At' = At
    BY <2>2, <2>3 DEF At, KernelLocs, SwitchLocs, ProcLocs
  <2>5. Types' /\ Framed'
    BY <1>1, <1>2, <1>3, <2>2, <2>3 DEF Types, Framed, KernelLocs, SwitchLocs, ProcLocs
  <2>6. CallerKept'
    BY <1>1, <1>3, <2>2, <2>4 DEF CallerKept
  <2>7. loc' \notin {"sw_sie", "sw_sret"}
    BY <2>2, <2>3 DEF Inner
  <2>8. ProcessEntered'
    BY <1>1, <1>3, <2>2, <2>4, <2>7 DEF ProcessEntered
  <2>q. QED
    BY <1>4, <2>5, <2>6, <2>8 DEF SwitchInv
<1>q. QED
  BY <1>5, <1>6

\* What the devices and the timer do touches nothing the invariant speaks of.
LEMMA ElsewhereKeeps ==
    ASSUME SwitchInv, UNCHANGED <<loc, csrs, frames, allocated, mine>>
    PROVE  SwitchInv'
BY DEF SwitchInv, csrs, Types, Framed, OneRestores, CallerKept, ProcessEntered, At

LEMMA NextSwitchInv == SwitchInv /\ [Next]_vars => SwitchInv'
<1> SUFFICES ASSUME SwitchInv, [Next]_vars PROVE SwitchInv'
  OBVIOUS
<1>1. CASE KernelStep
  BY <1>1, SetupHartKeeps, NewSupervisorKeeps, SetRelativeTimerKeeps,
     NewTrapFrameKeeps, StoreToTrapFrameKeeps, SetRestoreContextKeeps,
     SwitchSscratchKeeps, SwitchSepcKeeps, SwitchSieKeeps, SwitchSretKeeps,
     ComeBackKeeps, DropTrapFrameKeeps
  DEF KernelStep
<1>2. CASE ProcessStep
  BY <1>2, ProcessStepKeeps
<1>3. CASE TimerExpires \/ ExternalRaised
  BY <1>3, ElsewhereKeeps DEF TimerExpires, ExternalRaised
<1>4. CASE TakeInterrupt
  <2>1. loc \in KernelLocs \cup ProcLocs /\ status.SIE
    BY <1>4 DEF TakeInterrupt, InterruptDue
  <2>2. loc # "setup"
    BY <2>1 DEF SwitchInv, Framed
  <2>3. PICK c \in pending : TrapEntry(c)
    BY <1>4 DEF TakeInterrupt
  <2>q. QED
    BY <2>1, <2>2, <2>3, TrapEntryKeeps
<1>5. CASE ProcessFault
  <2>1. loc \in ProcLocs /\ loc # "setup" /\ TrapEntry("exception")
    BY <1>5 DEF ProcessFault, ProcLocs
  <2>q. QED
    BY <2>1, TrapEntryKeeps
<1>6. CASE TrapHandler
  BY <1>6, TrapHandlerKeeps
<1>7. CASE UNCHANGED vars
  BY <1>7, ElsewhereKeeps DEF vars, csrs
<1>q. QED
  BY <1>1, <1>2, <1>3, <1>4, <1>5, <1>6, <1>7 DEF Next

LEMMA SwitchInvHolds == Spec => []SwitchInv
BY InitSwitchInv, NextSwitchInv, PTL DEF Spec

-----------------------------------------------------------------------------
(* What the process is resumed with: a second invariant, over the first.   *)

OtherTypes ==
    /\ env \in Envs
    /\ sscratch \in Frames \cup {"none"}
    /\ sepc \in Contexts
    /\ sie \in BOOLEAN /\ timer \in BOOLEAN
    /\ status \in [SIE : BOOLEAN, SPIE : BOOLEAN]
    /\ pending \subseteq {"timer", "software", "external"}
    /\ cause \in Causes
    /\ state \in {"Running", "Paused"}
    /\ procAt \in ProcLocs

IsRunning == At \in {"save", "run", "sw_sscratch"} \cup Inner => state = "Running"

\* Interrupts are on once the process has turned them on, except in the handler,
\* and they are in the context it returns to.
StaysOn ==
    /\ procAt # "p_start" => status.SPIE /\ (loc # "handler" => status.SIE)
    /\ loc \in ProcLocs => status.SPIE
    /\ At \in {"sw_sret", "back"} \cup ProcLocs => sie

\* An interrupt is pending in the process and when the caller gets the hart back,
\* where it is taken at once.  One that is not, since the process had not turned
\* interrupts on yet, is of the timer, and set_relative_timer takes it back.
QuietSwitch ==
    /\ "external" \notin pending
    /\ "software" \in pending => procAt # "p_start" /\ At \in ProcLocs \cup {"back"}
    /\ "timer" \in pending =>
           At \in ProcLocs \cup {"back"} \/ (At \in {"free", "arm"} /\ ~status.SIE)
    /\ loc = "handler" => At \in ProcLocs \cup {"back"}

\* The process frame has what the process has reached, while it does not run.
ContextKept ==
    /\ At \in {"setup", "create"} => procAt = "p_start"
    /\ At \in ProcLocs => At = procAt
    /\ At \in KernelLocs \ {"setup", "create"} => frames["proc"].ctx = procAt
    /\ loc \in {"sw_sie", "sw_sret"} => sepc = procAt

ContextInv ==
    /\ OtherTypes
    /\ loc # "crashed" =>
        IsRunning /\ (Undisturbed => StaysOn /\ QuietSwitch /\ ContextKept)

\* Outside of the handler the second invariant speaks of the location as well.
LEMMA ContextOutside ==
    ASSUME SwitchInv, ContextInv, loc \notin {"handler", "crashed"}
    PROVE  /\ At = loc /\ OtherTypes /\ IsRunning
           /\ Undisturbed => StaysOn /\ QuietSwitch /\ ContextKept
BY OutsideHandler DEF ContextInv

\* A step of the kernel, which finds no interrupt and stores nothing in the context
\* of the process frame.
LEMMA KernelMoves ==
    ASSUME SwitchInv, ContextInv, loc \in KernelLocs \ {"setup", "create"},
           loc' \in KernelLocs \ {"setup", "create", "back"}, ~InterruptDue,
           OtherTypes', IsRunning', UNCHANGED <<env, status, procAt>>,
           frames'["proc"].ctx = frames["proc"].ctx,
           loc' = "sw_sret" => sie',
           pending' = pending \/ pending' = pending \ {"timer"},
           Undisturbed /\ "timer" \in pending' => loc' \in {"free", "arm"},
           loc' \in {"sw_sie", "sw_sret"} =>
               sepc' = frames["proc"].ctx \/ (loc \in {"sw_sie", "sw_sret"} /\ sepc' = sepc)
    PROVE  ContextInv'
<1>1. loc \notin {"handler", "crashed"} /\ loc' \notin {"handler", "crashed"} \cup ProcLocs
  BY DEF KernelLocs, SwitchLocs, ProcLocs
<1>2. At = loc /\ (Undisturbed => StaysOn /\ QuietSwitch /\ ContextKept)
  BY <1>1, ContextOutside
<1>3. At' = loc' /\ Undisturbed' = Undisturbed
  BY <1>1 DEF At, Undisturbed
<1>4. ASSUME Undisturbed PROVE StaysOn'
  BY <1>1, <1>2, <1>3, <1>4 DEF StaysOn, KernelLocs, SwitchLocs
<1>5. ASSUME Undisturbed PROVE "software" \notin pending
  <2> SUFFICES ASSUME "software" \in pending PROVE FALSE
    OBVIOUS
  <2>1. loc = "back" /\ procAt # "p_start"
    BY <1>1, <1>2, <1>5 DEF QuietSwitch, KernelLocs, SwitchLocs, ProcLocs
  <2>2. status.SIE /\ sie
    BY <1>1, <1>2, <1>5, <2>1 DEF StaysOn
  <2>q. QED
    BY <2>2 DEF InterruptDue
<1>6. ASSUME Undisturbed, "timer" \in pending' PROVE ~status.SIE
  <2>1. CASE loc = "back"
    <3>1. sie
      BY <1>2, <1>6, <2>1 DEF StaysOn
    <3>q. QED
      BY <1>6, <3>1 DEF InterruptDue
  <2>2. CASE loc # "back"
    BY <1>1, <1>2, <1>6, <2>2 DEF QuietSwitch, KernelLocs, SwitchLocs, ProcLocs
  <2>q. QED
    BY <2>1, <2>2
<1>7. ASSUME Undisturbed PROVE QuietSwitch'
  BY <1>1, <1>2, <1>3, <1>5, <1>6, <1>7 DEF QuietSwitch
<1>8. ASSUME Undisturbed PROVE ContextKept'
  BY <1>1, <1>2, <1>3, <1>8 DEF ContextKept
<1>q. QED
  BY <1>3, <1>4, <1>7, <1>8 DEF ContextInv

\* The handler, or a switch, resumes what some frame has; all other steps move the
\* hart to a location of their own.
LEMMA OtherTypesKept == SwitchInv /\ OtherTypes /\ [Next]_vars => OtherTypes'
<1> SUFFICES ASSUME SwitchInv, OtherTypes, [Next]_vars PROVE OtherTypes'
  OBVIOUS
<1>1. Types /\ Framed /\ "proc" \in Frames /\ Returned \in [SIE : BOOLEAN, SPIE : BOOLEAN]
  BY DEF SwitchInv, Frames, OtherTypes, Returned
<1>2. \A f \in Frames : frames[f].ctx \in Contexts /\ frames[f].restore_context \in Slots \cup {"none"}
  BY <1>1 DEF Types, FrameType, Contexts
<1>3. CASE KernelStep
  <2>1. CASE SetupHart
    BY <2>1 DEF SetupHart, OtherTypes, Frames
  <2>2. CASE NewSupervisor \/ SetRelativeTimer \/ NewTrapFrame \/ StoreToTrapFrame
             \/ SetRestoreContext \/ ComeBack \/ DropTrapFrame
    BY <2>2 DEF NewSupervisor, SetRelativeTimer, NewTrapFrame, EnteredState, StoreToTrapFrame,
                SetRestoreContext, ComeBack, DropTrapFrame, csrs, OtherTypes
  <2>3. CASE SwitchSscratch \/ SwitchSepc \/ SwitchSie \/ SwitchSret
    BY <1>1, <1>2, <2>3 DEF SwitchSscratch, SwitchSepc, SwitchSie, SwitchSret, ProcessFrame, OtherTypes
  <2>q. QED
    BY <1>3, <2>1, <2>2, <2>3 DEF KernelStep
<1>4. CASE ProcessStep
  BY <1>4 DEF ProcessStep, ProcessStart, ProcessSyscall, ProcessSyscallEnd, ProcessGoto, csrs,
              OtherTypes, ProcLocs
<1>5. CASE TimerExpires \/ ExternalRaised
  BY <1>5 DEF TimerExpires, ExternalRaised, csrs, OtherTypes
<1>6. ASSUME NEW c \in Causes, loc \in KernelLocs \cup ProcLocs, TrapEntry(c) PROVE OtherTypes'
  BY <1>6 DEF TrapEntry, OtherTypes, Contexts
<1>7. CASE TakeInterrupt
  <2>1. PICK c \in pending : TrapEntry(c)
    BY <1>7 DEF TakeInterrupt
  <2>q. QED
    BY <1>6, <1>7, <2>1 DEF TakeInterrupt, OtherTypes, Causes
<1>8. CASE ProcessFault
  BY <1>6, <1>8 DEF ProcessFault, Causes
<1>9. CASE TrapHandler
  <2> DEFINE to == IF frames[sscratch].restore_context # "none"
                   THEN frames[sscratch].restore_context ELSE sscratch
  <2>1. sscratch \in Frames
    BY <1>1, <1>9 DEF Framed, TrapHandler
  <2>2. to \in Frames
    BY <1>2, <2>1 DEF Frames
  <2>3. sscratch' = to /\ sepc' = frames[to].ctx
    BY <1>9 DEF TrapHandler
  <2> HIDE DEF to
  <2>q. QED
    BY <1>1, <1>2, <1>9, <2>2, <2>3
    DEF TrapHandler, MakeInterruptNonpending, OtherTypes, Causes
<1>q. QED
  BY <1>3, <1>4, <1>5, <1>7, <1>8, <1>9 DEF Next, vars, OtherTypes

LEMMA QuietKernelKeeps ==
    ASSUME SwitchInv, ContextInv, OtherTypes',
           \/ SetRelativeTimer \/ SwitchSscratch \/ SwitchSepc \/ SwitchSie
           \/ ComeBack \/ DropTrapFrame
    PROVE  ContextInv'
<1>1. /\ loc \in KernelLocs \ {"setup", "create"} /\ ~InterruptDue
      /\ loc' \in KernelLocs \ {"setup", "create", "back"}
  BY DEF SetRelativeTimer, SwitchSscratch, SwitchSepc, SwitchSie, ComeBack, DropTrapFrame,
         LoopStart, Executes, KernelLocs, SwitchLocs
<1>2. At = loc /\ OtherTypes /\ IsRunning /\ loc' # "handler"
  BY <1>1, ContextOutside DEF KernelLocs, SwitchLocs
<1>3. IsRunning'
  BY <1>2 DEF IsRunning, At, Inner, ProcLocs, SetRelativeTimer, SwitchSscratch, SwitchSepc,
              SwitchSie, ComeBack, DropTrapFrame, LoopStart, Executes
<1>4. UNCHANGED <<env, status, procAt, frames>> /\ (loc' = "sw_sret" => sie')
  BY DEF SetRelativeTimer, SwitchSscratch, SwitchSepc, SwitchSie, ComeBack, DropTrapFrame,
         LoopStart, csrs
<1>5. /\ pending' = pending \/ pending' = pending \ {"timer"}
      /\ loc' \in {"sw_sie", "sw_sret"} =>
             sepc' = frames["proc"].ctx \/ (loc \in {"sw_sie", "sw_sret"} /\ sepc' = sepc)
  BY DEF SetRelativeTimer, SwitchSscratch, SwitchSepc, SwitchSie, ComeBack, DropTrapFrame,
         LoopStart, Executes, csrs
<1>6. ASSUME Undisturbed, "timer" \in pending' PROVE loc' \in {"free", "arm"}
  <2>1. QuietSwitch
    BY <1>1, <1>6, ContextOutside DEF KernelLocs, SwitchLocs
  <2>q. QED
    BY <1>2, <1>6, <2>1
    DEF QuietSwitch, SetRelativeTimer, SwitchSscratch, SwitchSepc, SwitchSie, ComeBack,
        DropTrapFrame, LoopStart, Executes, csrs, ProcLocs
<1>q. QED
  BY <1>1, <1>2, <1>3, <1>4, <1>5, <1>6, KernelMoves

\* The switch fills in frames of its own, and of the process frame nothing but the
\* restore_context.
LEMMA FramedKernelKeeps ==
    ASSUME SwitchInv, ContextInv, OtherTypes',
           NewTrapFrame \/ StoreToTrapFrame \/ SetRestoreContext
    PROVE  ContextInv'
<1>1. /\ loc \in {"alloc", "save", "run"} /\ ~InterruptDue
      /\ loc' \in {"save", "run", "sw_sscratch"}
  BY DEF NewTrapFrame, StoreToTrapFrame, SetRestoreContext, Executes
<1>2. At = loc /\ OtherTypes /\ IsRunning
  BY <1>1, ContextOutside
<1>3. Types /\ CallerKept
  BY <1>1, OutsideHandler
<1>4. IsRunning'
  BY <1>1, <1>2 DEF IsRunning, NewTrapFrame, EnteredState, StoreToTrapFrame, SetRestoreContext, Executes
<1>5. UNCHANGED <<env, sie, status, procAt, pending>>
  BY DEF NewTrapFrame, StoreToTrapFrame, SetRestoreContext, csrs
<1>6. ASSUME Undisturbed PROVE "timer" \notin pending'
  <2>1. QuietSwitch
    BY <1>1, <1>6, ContextOutside
  <2>q. QED
    BY <1>1, <1>2, <1>5, <2>1 DEF QuietSwitch, ProcLocs
<1>7. "proc" \in Frames /\ "proc" \notin Slots /\ frames["proc"] \in FrameType
  BY <1>3, ConstantsOK DEF Types, Frames
<1>8. frames'["proc"].ctx = frames["proc"].ctx
  <2>1. CASE NewTrapFrame
    <3>1. PICK f \in Slots \ allocated :
              LET zeroed == [frames EXCEPT ![f] = ZeroedInterruptContext] IN
              frames' = [zeroed EXCEPT ![f] = InheritFrom(@, zeroed[sscratch])]
      BY <2>1 DEF NewTrapFrame
    <3>q. QED
      BY <1>3, <1>7, <3>1 DEF Types
  <2>2. CASE StoreToTrapFrame
    <3>1. mine \in Slots
      BY <1>2, <1>3, <2>2 DEF StoreToTrapFrame, Executes, CallerKept, Types
    <3>q. QED
      BY <1>3, <1>7, <2>2, <3>1 DEF StoreToTrapFrame, Types
  <2>3. CASE SetRestoreContext
    BY <1>3, <1>7, <2>3 DEF SetRestoreContext, Types, FrameType
  <2>q. QED
    BY <2>1, <2>2, <2>3
<1>9. loc \in KernelLocs \ {"setup", "create"} /\ loc' \in KernelLocs \ {"setup", "create", "back"}
  BY <1>1 DEF KernelLocs, SwitchLocs
<1>q. QED
  BY <1>1, <1>4, <1>5, <1>6, <1>8, <1>9, KernelMoves

\* Before the loop nothing is pending and the process has not run.
LEMMA SetupKeepsContext ==
    ASSUME SwitchInv, ContextInv, OtherTypes', SetupHart \/ NewSupervisor
    PROVE  ContextInv'
<1>1. loc \in {"setup", "create"} /\ loc' \in {"create", "arm"} /\ (loc = "setup" => loc' = "create")
  BY DEF SetupHart, NewSupervisor, Executes
<1>2. /\ At = loc /\ OtherTypes
      /\ Undisturbed => StaysOn /\ QuietSwitch /\ ContextKept
  BY <1>1, ContextOutside
<1>3. Types
  BY <1>1, OutsideHandler
<1>4. At' = loc' /\ Undisturbed' = Undisturbed /\ pending' = pending /\ procAt' = procAt
  BY <1>1 DEF At, Undisturbed, SetupHart, NewSupervisor
<1>5. IsRunning'
  BY <1>1, <1>4 DEF IsRunning, Inner, ProcLocs
<1>6. ASSUME Undisturbed PROVE pending = {}
  BY <1>1, <1>2, <1>6 DEF QuietSwitch, OtherTypes, ProcLocs
<1>7. ASSUME Undisturbed PROVE QuietSwitch'
  BY <1>1, <1>4, <1>6, <1>7 DEF QuietSwitch
<1>8. ASSUME Undisturbed PROVE procAt = "p_start"
  BY <1>1, <1>2, <1>8 DEF ContextKept
<1>9. ASSUME Undisturbed PROVE StaysOn'
  BY <1>1, <1>4, <1>8, <1>9 DEF StaysOn, ProcLocs
<1>10. loc' = "arm" => frames'["proc"].ctx = "p_start"
  BY <1>1, <1>3 DEF SetupHart, NewSupervisor, Executes, Types, Frames, Zeroed
<1>11. ASSUME Undisturbed PROVE ContextKept'
  BY <1>1, <1>4, <1>8, <1>10, <1>11 DEF ContextKept, ProcLocs
<1>q. QED
  BY <1>4, <1>5, <1>7, <1>9, <1>11 DEF ContextInv

\* sret enters the process, where it was stopped.
LEMMA SretKeepsContext ==
    ASSUME SwitchInv, ContextInv, OtherTypes', SwitchSret
    PROVE  ContextInv'
<1>1. loc = "sw_sret" /\ loc' = sepc /\ status' = Returned
  BY DEF SwitchSret, Executes
<1>2. /\ At = loc /\ OtherTypes /\ IsRunning
      /\ Undisturbed => StaysOn /\ QuietSwitch /\ ContextKept
  BY <1>1, ContextOutside
<1>3. UNCHANGED <<env, sie, pending, procAt, frames, sscratch, state>>
  BY DEF SwitchSret
<1>4. sepc \in Inner
  BY <1>1, OutsideHandler DEF ProcessEntered
<1>5. At' = loc' /\ Undisturbed' = Undisturbed
  BY <1>1, <1>3, <1>4 DEF At, Undisturbed, Inner, ProcLocs
<1>6. IsRunning'
  BY <1>1, <1>2, <1>3 DEF IsRunning, Inner
<1>7. ASSUME Undisturbed PROVE loc' = procAt /\ loc' \in ProcLocs /\ sie
  BY <1>1, <1>2, <1>7 DEF ContextKept, StaysOn, OtherTypes
<1>8. ASSUME Undisturbed PROVE StaysOn'
  <2>1. status'.SPIE /\ (procAt # "p_start" => status'.SIE)
    BY <1>1, <1>2, <1>8 DEF Returned, StaysOn
  <2>q. QED
    BY <1>3, <1>7, <1>8, <2>1 DEF StaysOn
<1>9. ASSUME Undisturbed PROVE QuietSwitch'
  BY <1>1, <1>2, <1>3, <1>5, <1>7, <1>9 DEF QuietSwitch, ProcLocs
<1>10. ASSUME Undisturbed PROVE ContextKept'
  BY <1>3, <1>5, <1>7, <1>10 DEF ContextKept, ProcLocs, KernelLocs, SwitchLocs
<1>q. QED
  BY <1>5, <1>6, <1>8, <1>9, <1>10 DEF ContextInv

LEMMA ProcessKeepsContext ==
    ASSUME SwitchInv, ContextInv, OtherTypes', ProcessStep
    PROVE  ContextInv'
<1>1. loc \in ProcLocs /\ loc' \in ProcLocs \ {"p_start"} /\ loc' = procAt'
  BY DEF ProcessStep, ProcessStart, ProcessSyscall, ProcessSyscallEnd, ProcessGoto, Executes, ProcLocs
<1>2. /\ At = loc /\ OtherTypes /\ IsRunning
      /\ Undisturbed => StaysOn /\ QuietSwitch /\ ContextKept
  BY <1>1, ContextOutside DEF ProcLocs
<1>3. At' = loc' /\ Undisturbed' = Undisturbed /\ state' = state
  BY <1>1 DEF At, Undisturbed, ProcLocs, ProcessStep, ProcessStart, ProcessSyscall, ProcessSyscallEnd
<1>4. IsRunning'
  BY <1>1, <1>2, <1>3 DEF IsRunning, Inner
<1>5. ASSUME Undisturbed PROVE StaysOn'
  <2>1. status.SPIE /\ sie /\ status \in [SIE : BOOLEAN, SPIE : BOOLEAN]
    BY <1>1, <1>2, <1>5 DEF StaysOn, OtherTypes
  <2>2. CASE ProcessStart
    BY <1>1, <2>1, <2>2 DEF ProcessStart, StaysOn
  <2>3. CASE ProcessSyscall \/ ProcessSyscallEnd
    <3>1. loc # "p_start" /\ UNCHANGED <<sie, status>>
      BY <2>3 DEF ProcessSyscall, ProcessSyscallEnd, Executes, csrs
    <3>2. status.SIE
      BY <1>1, <1>2, <1>5, <3>1 DEF StaysOn, ContextKept, ProcLocs
    <3>q. QED
      BY <2>1, <3>1, <3>2 DEF StaysOn
  <2>q. QED
    BY <2>2, <2>3 DEF ProcessStep
<1>6. pending' \subseteq pending \cup {"software"}
  BY DEF ProcessStep, ProcessStart, ProcessSyscall, ProcessSyscallEnd, csrs
<1>7. ASSUME Undisturbed PROVE QuietSwitch'
  BY <1>1, <1>2, <1>3, <1>6, <1>7 DEF QuietSwitch
<1>8. ContextKept'
  BY <1>1, <1>3 DEF ContextKept, ProcLocs, KernelLocs, SwitchLocs
<1>q. QED
  BY <1>3, <1>4, <1>5, <1>7, <1>8 DEF ContextInv

\* A trap of the kernel is taken when the caller has got the hart back, and the
\* process frame is no longer in sscratch.
LEMMA TrapEntryKeepsContext ==
    ASSUME SwitchInv, ContextInv, OtherTypes', NEW c, loc \in KernelLocs \cup ProcLocs,
           loc # "setup", Undisturbed => loc \in ProcLocs \cup {"back"}, TrapEntry(c)
    PROVE  ContextInv'
<1>1. loc \notin {"handler", "crashed"}
  BY DEF KernelLocs, SwitchLocs, ProcLocs
<1>2. /\ At = loc /\ OtherTypes /\ IsRunning
      /\ Undisturbed => StaysOn /\ QuietSwitch /\ ContextKept
  BY <1>1, ContextOutside
<1>3. Types /\ Framed /\ ProcessEntered
  BY <1>1, OutsideHandler
<1>4. CASE loc' = "crashed"
  BY <1>4 DEF ContextInv
<1>5. CASE loc' = "handler"
  <2>1. UNCHANGED <<env, sscratch, sie, pending, procAt, state>> /\ sscratch \in Frames
    BY <1>3 DEF TrapEntry, Framed
  <2>2. \A g \in Frames : frames'[g].ctx = IF g = sscratch THEN loc ELSE frames[g].ctx
    <3>1. loc \in Contexts /\ frames' = [frames EXCEPT ![sscratch].ctx = loc]
      BY DEF TrapEntry, Saved, Contexts
    <3>q. QED
      BY <1>3, <2>1, <3>1, ContextStored DEF Types
  <2>3. At' = loc /\ Undisturbed' = Undisturbed
    BY <1>5, <2>1, <2>2 DEF At, Undisturbed
  <2>4. IsRunning'
    BY <1>2, <2>1, <2>3 DEF IsRunning
  <2>5. ASSUME Undisturbed PROVE StaysOn'
    <3>1. status'.SPIE = status.SIE
      BY DEF TrapEntry
    <3>2. procAt # "p_start" => status.SIE
      BY <1>1, <1>2, <2>5 DEF StaysOn
    <3>3. sie'
      BY <1>2, <2>1, <2>5 DEF StaysOn
    <3>q. QED
      BY <1>5, <2>1, <3>1, <3>2, <3>3 DEF StaysOn, ProcLocs
  <2>6. ASSUME Undisturbed PROVE QuietSwitch'
    BY <1>2, <2>1, <2>3, <2>6 DEF QuietSwitch
  <2>7. ASSUME Undisturbed, loc = "back" PROVE frames'["proc"].ctx = procAt
    <3>1. sscratch # "proc" /\ "proc" \in Frames
      BY <1>2, <1>3, <2>7 DEF ProcessEntered, Inner, ProcLocs, Frames
    <3>2. frames["proc"].ctx = procAt
      BY <1>2, <2>7 DEF ContextKept, KernelLocs
    <3>q. QED
      BY <2>2, <3>1, <3>2
  <2>8. ASSUME Undisturbed PROVE ContextKept'
    BY <1>2, <1>5, <2>1, <2>3, <2>7, <2>8 DEF ContextKept, ProcLocs, KernelLocs, SwitchLocs
  <2>q. QED
    BY <2>3, <2>4, <2>5, <2>6, <2>8 DEF ContextInv
<1>q. QED
  BY <1>4, <1>5 DEF TrapEntry

\* An interrupt that is due was pending in the process or at the return to the
\* caller: the timer that is left over from a process without interrupts is not due.
LEMMA DueIsQuiet ==
    ASSUME SwitchInv, ContextInv, loc \in KernelLocs \cup ProcLocs, InterruptDue, Undisturbed
    PROVE  loc \in ProcLocs \cup {"back"}
<1>1. At = loc /\ OtherTypes /\ QuietSwitch
  BY ContextOutside DEF KernelLocs, SwitchLocs, ProcLocs
<1>2. PICK c \in pending : c \in {"timer", "software"}
  BY <1>1 DEF InterruptDue, OtherTypes, QuietSwitch
<1>q. QED
  BY <1>1, <1>2 DEF InterruptDue, QuietSwitch

LEMMA TrapHandlerKeepsContext ==
    ASSUME SwitchInv, ContextInv, OtherTypes', TrapHandler
    PROVE  ContextInv'
<1>1. /\ loc = "handler" /\ OtherTypes /\ IsRunning
      /\ Undisturbed => StaysOn /\ QuietSwitch /\ ContextKept
  BY DEF TrapHandler, ContextInv
<1>2. Types /\ Framed /\ OneRestores /\ CallerKept /\ ProcessEntered
  BY <1>1 DEF SwitchInv
<1>3. sscratch \in Frames /\ At = frames[sscratch].ctx
  BY <1>1, <1>2 DEF Framed, At
<1>4. UNCHANGED <<env, frames, procAt, state>> /\ status' = Returned /\ pending' \subseteq pending
  BY DEF TrapHandler, MakeInterruptNonpending
<1>5. Undisturbed' = Undisturbed
  BY <1>4 DEF Undisturbed
<1>6. /\ loc' # "handler" /\ IsRunning'
      /\ Undisturbed => loc' = "back" /\ sie' /\ frames["proc"].ctx = procAt
  <2>1. CASE sscratch = "proc"
    <3>1. At \in Inner /\ frames[sscratch].restore_context = mine
      BY <1>2, <2>1 DEF ProcessEntered
    <3>2. mine \in allocated /\ frames[mine].ctx = "back"
      BY <1>2, <3>1 DEF CallerKept
    <3>3. mine # "none"
      BY <1>2, <3>2, ConstantsOK DEF Types
    <3>4. loc' = "back" /\ sie'
      BY <3>1, <3>2, <3>3 DEF TrapHandler
    <3>5. IsRunning'
      BY <3>4 DEF IsRunning, At, Inner, ProcLocs
    <3>6. Undisturbed => frames["proc"].ctx = procAt
      BY <1>1, <1>3, <2>1, <3>1 DEF QuietSwitch, ContextKept, Inner, ProcLocs
    <3>q. QED
      BY <3>4, <3>5, <3>6
  <2>2. CASE sscratch # "proc"
    <3>1. frames[sscratch].restore_context = "none"
      BY <1>2, <1>3, <2>2 DEF OneRestores
    <3>2. loc' = At /\ At \in KernelLocs \cup ProcLocs /\ At \notin Inner
      BY <1>1, <1>2, <1>3, <2>2, <3>1 DEF TrapHandler, Framed, ProcessEntered
    <3>3. loc' # "handler" /\ IsRunning'
      BY <1>1, <1>4, <3>2 DEF IsRunning, At, KernelLocs, SwitchLocs, ProcLocs
    <3>4. Undisturbed => At = "back"
      BY <1>1, <3>2 DEF QuietSwitch, Inner
    <3>5. Undisturbed => sie'
      <4>1. sie' = (sie \/ FALSE)
        BY <3>1 DEF TrapHandler
      <4>q. QED
        BY <1>1, <3>4, <4>1 DEF StaysOn
    <3>6. Undisturbed => frames["proc"].ctx = procAt
      BY <1>1, <3>4 DEF ContextKept, KernelLocs
    <3>q. QED
      BY <3>2, <3>3, <3>4, <3>5, <3>6
  <2>q. QED
    BY <2>1, <2>2
<1>7. At' = loc'
  BY <1>6 DEF At
<1>8. ASSUME Undisturbed PROVE StaysOn'
  <2>1. status'.SPIE /\ (procAt # "p_start" => status'.SIE)
    BY <1>1, <1>4, <1>8 DEF Returned, StaysOn
  <2>q. QED
    BY <1>4, <1>6, <1>8, <2>1 DEF StaysOn
<1>9. ASSUME Undisturbed PROVE QuietSwitch'
  BY <1>1, <1>4, <1>6, <1>7, <1>9 DEF QuietSwitch
<1>10. ASSUME Undisturbed PROVE ContextKept'
  BY <1>4, <1>6, <1>7, <1>10 DEF ContextKept, ProcLocs
<1>q. QED
  BY <1>5, <1>6, <1>8, <1>9, <1>10 DEF ContextInv

\* The timer expires while the process runs.
LEMMA ElsewhereKeepsContext ==
    ASSUME SwitchInv, ContextInv, OtherTypes',
           TimerExpires \/ ExternalRaised \/ UNCHANGED vars
    PROVE  ContextInv'
<1>1. UNCHANGED <<env, loc, sscratch, sepc, sie, status, frames, state, procAt>>
  BY DEF TimerExpires, ExternalRaised, vars, csrs
<1>2. At' = At /\ Undisturbed' = Undisturbed /\ (IsRunning => IsRunning')
  BY <1>1 DEF At, Undisturbed, IsRunning
<1>3. (StaysOn => StaysOn') /\ (ContextKept => ContextKept')
  BY <1>1, <1>2 DEF StaysOn, ContextKept
<1>4. ASSUME Undisturbed, loc # "crashed", QuietSwitch PROVE QuietSwitch'
  <2>1. \/ pending' = pending
        \/ loc \in ProcLocs /\ pending' = pending \cup {"timer"}
    BY <1>4 DEF Undisturbed, TimerExpires, ExternalRaised, vars
  <2>q. QED
    BY <1>1, <1>2, <1>4, <2>1 DEF QuietSwitch, At, ProcLocs
<1>q. QED
  BY <1>1, <1>2, <1>3, <1>4 DEF ContextInv

LEMMA NextContextInv == SwitchInv /\ ContextInv /\ [Next]_vars => ContextInv'
<1> SUFFICES ASSUME SwitchInv, ContextInv, [Next]_vars PROVE ContextInv'
  OBVIOUS
<1>1. OtherTypes'
  BY OtherTypesKept DEF ContextInv
<1>2. CASE KernelStep
  BY <1>1, <1>2, QuietKernelKeeps, FramedKernelKeeps, SetupKeepsContext, SretKeepsContext
  DEF KernelStep
<1>3. CASE ProcessStep
  BY <1>1, <1>3, ProcessKeepsContext
<1>4. CASE TimerExpires \/ ExternalRaised \/ UNCHANGED vars
  BY <1>1, <1>4, ElsewhereKeepsContext
<1>5. CASE TakeInterrupt
  <2>1. loc \in KernelLocs \cup ProcLocs /\ loc # "setup" /\ InterruptDue
    BY <1>5 DEF TakeInterrupt, InterruptDue, SwitchInv, Framed
  <2>2. PICK c \in pending : TrapEntry(c)
    BY <1>5 DEF TakeInterrupt
  <2>q. QED
    BY <1>1, <2>1, <2>2, DueIsQuiet, TrapEntryKeepsContext
<1>6. CASE ProcessFault
  <2>1. loc \in ProcLocs /\ loc # "setup" /\ TrapEntry("exception")
    BY <1>6 DEF ProcessFault, ProcLocs
  <2>q. QED
    BY <1>1, <2>1, TrapEntryKeepsContext
<1>7. CASE TrapHandler
  BY <1>1, <1>7, TrapHandlerKeepsContext
<1>q. QED
  BY <1>2, <1>3, <1>4, <1>5, <1>6, <1>7 DEF Next

LEMMA InitContextInv == Init => ContextInv
<1> SUFFICES ASSUME Init PROVE ContextInv
  OBVIOUS
<1>1. At = "setup" /\ loc = "setup"
  BY DEF Init, At
<1>2. OtherTypes
  BY DEF Init, OtherTypes, Contexts, Causes, ProcLocs
<1>3. IsRunning /\ StaysOn /\ QuietSwitch /\ ContextKept
  BY <1>1 DEF Init, IsRunning, StaysOn, QuietSwitch, ContextKept, Inner, ProcLocs
<1>q. QED
  BY <1>2, <1>3 DEF ContextInv

LEMMA ContextInvHolds == Spec => [](SwitchInv /\ ContextInv)
<1>1. SwitchInv /\ ContextInv /\ [Next]_vars => (SwitchInv /\ ContextInv)'
  BY NextSwitchInv, NextContextInv
<1>q. QED
  BY <1>1, InitSwitchInv, InitContextInv, PTL DEF Spec

-----------------------------------------------------------------------------
(* The theorems.                                                           *)

\* Whatever interrupts the switch, and whichever block the allocator returns, a
\* trap with the process frame in sscratch leads s_trap_vector to the frame of
\* the switch_to_and_come_back in progress, which holds its caller.
THEOREM CallerIsRestored == Spec => []ReturnsToCaller
<1>1. SwitchInv => ReturnsToCaller
  BY DEF SwitchInv, CallerKept, ProcessEntered, At, ReturnsToCaller
<1>q. QED
  BY <1>1, SwitchInvHolds, PTL

\* From the csrw of sscratch in switch_to_supervisor_frame to the drop of
\* my_trap_frame, sscratch points to a frame that exists.
THEOREM SscratchIsValid == Spec => []SscratchValid
<1>1. SwitchInv => SscratchValid
  BY DEF SwitchInv, CallerKept, ProcessEntered, At, SscratchValid, Inner, ProcLocs
<1>q. QED
  BY <1>1, SwitchInvHolds, PTL

\* The process is Running while it executes, whatever traps hit the switch; when
\* nothing is raised in kernel code, it is resumed where it was stopped, and the
\* kernel leaves the context in its frame alone in between.
THEOREM ContextIsKept == Spec => []ProcessContextKept
<1>1. SwitchInv /\ ContextInv => ProcessContextKept
  <2> SUFFICES ASSUME SwitchInv, ContextInv PROVE ProcessContextKept
    OBVIOUS
  <2>1. TypeOK
    BY DEF SwitchInv, Types, ContextInv, OtherTypes, Contexts, TypeOK
  <2>2. CASE loc \in KernelLocs \cup ProcLocs
    <3>1. /\ At = loc /\ IsRunning
          /\ Undisturbed => ContextKept
      BY <2>2, ContextOutside DEF KernelLocs, SwitchLocs, ProcLocs
    <3>q. QED
      BY <2>1, <3>1 DEF ProcessContextKept, IsRunning, ContextKept, Inner
  <2>3. CASE loc \notin KernelLocs \cup ProcLocs
    BY <2>1, <2>3 DEF ProcessContextKept
  <2>q. QED
    BY <2>2, <2>3
<1>q. QED
  BY <1>1, ContextInvHolds, PTL

\* When nothing is raised in kernel code, a trap saves process context, and only
\* that, in the process frame.
THEOREM SscratchMakesSenseQuietly == Spec => []SscratchMakesSenseUndisturbed
<1>1. SwitchInv /\ ContextInv => SscratchMakesSenseUndisturbed
  BY DEF SwitchInv, ProcessEntered, ContextInv, QuietSwitch, At, Inner, ProcLocs,
         SscratchMakesSenseUndisturbed, SscratchMakesSense
<1>q. QED
  BY <1>1, ContextInvHolds, PTL
=============================================================================
