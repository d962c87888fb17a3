------------------------------- MODULE HartBoot -------------------------------
(****************************************************************************)
(* From the firmware's jump to the last hart's executor: boot and pre_main  *)
(* of the bootloader, main, async_main and its hart_start loop, the entry   *)
(* of the started harts, setup_hart_state_and_metadata and the page table   *)
(* that common_hart_code switches to.  The address space is three regions:  *)
(* "low" (physical addresses, mapped one to one), "high" (the same memory   *)
(* above GAP) and "kernel" (where the kernel payload is linked).            *)
(****************************************************************************)
EXTENDS Integers

CONSTANTS MaxHart,   \* the greatest hart id that any machine has
          Machines   \* [harts, firmware, broken]: the ids there are, those that
                     \* the firmware runs at boot, those it cannot start

Ids == 0..MaxHart

ASSUME MachinesOK ==
    /\ MaxHart \in Nat
    /\ \A m \in Machines :
          m.harts \subseteq Ids /\ m.firmware \subseteq m.harts /\ m.broken \subseteq m.harts

VARIABLES machine, hsm,       \* the machine, the firmware's state of each hart
          ALREADY_BOOTED, SV_BITS, KERNEL_START_PHYSICAL, GLOBAL_EXECUTOR,
          TABLE,              \* the regions that the bootloader's table maps
          hart_id,            \* the variable of async_main's loop
          stacks,             \* the stacks handed out: number of the last one
          stack_satp,         \* the word at the top of each of them
          pc, satp, sp, sscratch

globals == <<ALREADY_BOOTED, SV_BITS, KERNEL_START_PHYSICAL, GLOBAL_EXECUTOR, TABLE>>
spawner == <<hart_id, stacks, stack_satp>>
regs    == <<satp, sp, sscratch>>
vars    == <<machine, hsm, globals, spawner, pc, regs>>

Goto(h, label) == pc' = [pc EXCEPT ![h] = label]

----------------------------------------------------------------------------
(* The bootloader.                                                          *)

LoadStore == [was |-> FALSE, now |-> TRUE]

\* ALREADY_BOOTED.swap(true)
Swap == [was |-> ALREADY_BOOTED, now |-> TRUE]

\* boot takes _stack_start (stack 1); pre_main lets one hart pass.
PreMain(h) ==
    /\ pc[h] = "boot"
    /\ sp' = [sp EXCEPT ![h] = [stack |-> 1, at |-> "low"]]
    /\ ALREADY_BOOTED' = Swap.now
    /\ IF Swap.was
       THEN Goto(h, "loop") /\ UNCHANGED TABLE
       ELSE Goto(h, "enable") /\ TABLE' = {"low", "high"}
    /\ UNCHANGED <<machine, hsm, SV_BITS, KERNEL_START_PHYSICAL, GLOBAL_EXECUTOR,
                   spawner, satp, sscratch>>

PreMainEnable(h) ==
    /\ pc[h] = "enable"
    /\ satp' = [satp EXCEPT ![h] = "boot"]
    /\ Goto(h, "map_kernel")
    /\ UNCHANGED <<machine, hsm, globals, spawner, sp, sscratch>>

\* main is called with the stack above the gap, and kernel_main's boot takes it.
PreMainJump(h) ==
    /\ pc[h] = "map_kernel"
    /\ TABLE' = TABLE \cup {"kernel"}
    /\ sp' = [sp EXCEPT ![h].at = "high"]
    /\ Goto(h, "main")
    /\ UNCHANGED <<machine, hsm, ALREADY_BOOTED, SV_BITS, KERNEL_START_PHYSICAL,
                   GLOBAL_EXECUTOR, spawner, satp, sscratch>>

\* A started hart, with translation off: hart_entry_point takes the stack from
\* a1 and the satp from the word at its top.
HartEntryPoint(h) ==
    /\ pc[h] = "entry" /\ hsm[h].state = "pending"
    /\ hsm' = [hsm EXCEPT ![h].state = "started"]
    /\ sp' = [sp EXCEPT ![h] = [stack |-> hsm[h].opaque, at |-> "low"]]
    /\ satp' = [satp EXCEPT ![h] = stack_satp[hsm[h].opaque]]
    /\ Goto(h, "hart_entry")
    /\ UNCHANGED <<machine, globals, spawner, sscratch>>

PassSp(h) == sp[h]

\* The stack_start argument: read_sp() + 0xffffffc000000000.
EntrySp(h) == [sp[h] EXCEPT !.at = "high"]

HartEntry(h) ==
    /\ pc[h] = "hart_entry"
    /\ sp' = [sp EXCEPT ![h] = EntrySp(h)]
    /\ Goto(h, "main")
    /\ UNCHANGED <<machine, hsm, globals, spawner, satp, sscratch>>

----------------------------------------------------------------------------
(* kernel_main.                                                             *)

\* The first hart stores SV_BITS and GAP (as one), the others go to setup_hart.
Main(h) ==
    /\ pc[h] = "main"
    /\ SV_BITS' = 39
    /\ Goto(h, IF SV_BITS # 0 THEN "setup_hart" ELSE "query")
    /\ UNCHANGED <<machine, hsm, ALREADY_BOOTED, KERNEL_START_PHYSICAL, GLOBAL_EXECUTOR,
                   TABLE, spawner, regs>>

\* init_from_pointers, then query() of the bootloader's table at its low address.
MainQuery(h) ==
    /\ pc[h] = "query"
    /\ KERNEL_START_PHYSICAL' = TRUE
    /\ Goto(h, "async_main")
    /\ UNCHANGED <<machine, hsm, ALREADY_BOOTED, SV_BITS, GLOBAL_EXECUTOR, TABLE,
                   spawner, regs>>

LazyExecutor == GLOBAL_EXECUTOR

\* GLOBAL_EXECUTOR.replace(handle)
Replaced == TRUE

AsyncMain(h) ==
    /\ pc[h] = "async_main"
    /\ GLOBAL_EXECUTOR' = Replaced
    /\ Goto(h, "setup_boot")
    /\ UNCHANGED <<machine, hsm, ALREADY_BOOTED, SV_BITS, KERNEL_START_PHYSICAL, TABLE,
                   spawner, regs>>

\* setup_hart_state_and_metadata: GLOBAL_EXECUTOR.unwrap(), a trap frame with
\* the HartLocals and an interrupt stack, and sscratch.  (stvec and sstatus are
\* written first, with sie still 0: see ProcessSwitch.)
SetupHartState(h) ==
    /\ pc[h] \in {"setup_boot", "setup_hart"}
    /\ IF GLOBAL_EXECUTOR
       THEN /\ sscratch' = [sscratch EXCEPT ![h] = h]
            /\ Goto(h, IF pc[h] = "setup_boot" THEN "spawn_harts" ELSE "common")
       ELSE Goto(h, "panic") /\ UNCHANGED sscratch
    /\ UNCHANGED <<machine, hsm, globals, spawner, satp, sp>>

\* The firmware's answer to hart_start.
HartStartAnswer(id) ==
    CASE id \notin machine.harts -> "InvalidParameter"
      [] id \in machine.harts /\ hsm[id].state # "stopped" -> "AlreadyAvailable"
      [] id \in machine.broken /\ hsm[id].state = "stopped" -> "Failed"
      [] id \in machine.harts \ machine.broken /\ hsm[id].state = "stopped" -> "Ok"

StackAgain == 2

\* boxed_slice_with_alignment_uninit: memory that no stack still in use has.
NewStack == stacks + 1

\* The answers after which async_main goes on to the next id.
GoesOn == {"Ok", "AlreadyAvailable"}

\* One round of the loop: a stack with the satp at its top, hart_start, and
\* the stack leaked unless the loop is left.
StartHart(h) ==
    /\ pc[h] = "spawn_harts"
    /\ LET answer == HartStartAnswer(hart_id)
       IN /\ stack_satp' = [stack_satp EXCEPT ![NewStack] = satp[h]]
          /\ hsm' = IF answer = "Ok"
                    THEN [hsm EXCEPT ![hart_id] = [state |-> "pending", opaque |-> NewStack]]
                    ELSE hsm
          /\ IF answer \in GoesOn
             THEN hart_id' = hart_id + 1 /\ stacks' = NewStack /\ UNCHANGED pc
             ELSE /\ Goto(h, IF answer = "InvalidParameter" THEN "common" ELSE "panic")
                  /\ UNCHANGED <<hart_id, stacks>>
    /\ UNCHANGED <<machine, globals, regs>>

\* common_hart_code: a table of its own, then the task is spawned on the
\* executor of HartLocals::current() and its handle awaited.
CommonHartCode(h) ==
    /\ pc[h] = "common"
    /\ satp' = [satp EXCEPT ![h] = "own"]
    /\ Goto(h, IF sscratch[h] = h THEN "run" ELSE "panic")
    /\ UNCHANGED <<machine, hsm, globals, spawner, sp, sscratch>>

SkipFirst == 1

\* for hart_id in 0..
FirstId == 0

Init ==
    /\ machine \in Machines
    /\ hsm = [h \in Ids |-> [state |-> IF h \in machine.firmware THEN "started" ELSE "stopped",
                             opaque |-> 0]]
    /\ ALREADY_BOOTED = FALSE /\ SV_BITS = 0 /\ TABLE = {}
    /\ KERNEL_START_PHYSICAL = FALSE /\ GLOBAL_EXECUTOR = FALSE
    /\ hart_id = FirstId /\ stacks = 1 /\ stack_satp = [s \in 1..(MaxHart + 3) |-> "bare"]
    /\ pc = [h \in Ids |-> IF h \in machine.firmware THEN "boot" ELSE "entry"]
    /\ satp = [h \in Ids |-> "bare"]
    /\ sp = [h \in Ids |-> [stack |-> 0, at |-> "low"]]
    /\ sscratch = [h \in Ids |-> -1]

HartStep(h) ==
    \/ PreMain(h) \/ PreMainEnable(h) \/ PreMainJump(h)
    \/ HartEntryPoint(h) \/ HartEntry(h)
    \/ Main(h) \/ MainQuery(h) \/ AsyncMain(h) \/ SetupHartState(h)
    \/ StartHart(h) \/ CommonHartCode(h)

Next == \E h \in Ids : HartStep(h)

\* A hart that can take a step takes it: the harts run at the same time.
Spec == Init /\ [][Next]_vars /\ \A h \in Ids : WF_vars(HartStep(h))

----------------------------------------------------------------------------
(* Properties.                                                              *)

Labels == {"boot", "loop", "enable", "map_kernel", "entry", "hart_entry", "main", "query",
           "async_main", "setup_boot", "setup_hart", "spawn_harts", "common", "run", "panic"}

\* In particular the loop over the hart ids stops at an id that no hart has.
TypeOK ==
    /\ pc \in [Ids -> Labels]
    /\ satp \in [Ids -> {"bare", "boot", "own"}]
    /\ hart_id \in 0..(MaxHart + 1) /\ stacks \in 1..(MaxHart + 2)

\* The regions that a hart can address.
Mapped(h) ==
    CASE satp[h] = "bare" -> {"low"}
      [] satp[h] = "boot" -> TABLE
      [] satp[h] = "own"  -> {"high"} \cup (IF KERNEL_START_PHYSICAL THEN {"kernel"} ELSE {})

CodeAt(h) == IF pc[h] \in {"boot", "loop", "enable", "map_kernel", "entry", "hart_entry"}
             THEN "low" ELSE "kernel"

\* The code a hart runs and its stack are mapped by the table it runs with, at
\* every step: through the switch to the bootloader's table, the jump to the
\* payload, the started harts' way from bare addresses, and the switch to the
\* table of common_hart_code, which maps no low address.
AddressesMapped ==
    \A h \in Ids : pc[h] # "entry" => {CodeAt(h), sp[h].at} \subseteq Mapped(h)

OneHart == \E b \in Ids : machine.firmware = {b}

\* When the firmware boots one hart, as it should, no two harts ever run on
\* the same stack: the loop leaks each stack that it hands to a hart.
StacksApart ==
    OneHart => \A g, h \in Ids :
        g # h /\ sp[g].stack # 0 => sp[g].stack # sp[h].stack

BootPath == {"enable", "map_kernel", "query", "async_main", "setup_boot", "spawn_harts"}

\* However many harts the firmware sends to boot, one hart runs the code that
\* makes the page table, the heap and the executor and starts the others.
OneBootHart == \A g, h \in Ids : {pc[g], pc[h]} \subseteq BootPath => g = h

\* A hart that is started finds everything it relies on: it panics neither at
\* GLOBAL_EXECUTOR.unwrap() nor at HartLocals::current().  The only panic is
\* the one for an answer of the firmware that async_main does not know.
StartedHartsReady ==
    \A h \in Ids : pc[h] = "panic" => hart_id \in machine.broken

\* Every hart of the machine comes to run its executor, when the firmware
\* boots one of them, can start the others, and numbers them without a gap.
EveryHartRuns ==
    OneHart /\ machine.broken = {} /\ (\E n \in Ids : machine.harts = 0..n)
        => <>(\A h \in machine.harts : pc[h] = "run")
=============================================================================
