---------------------------- MODULE HartBootProofs ----------------------------
(***************************************************************************)
(* Proofs about HartBoot for every machine: any number of harts, any ids,  *)
(* any harts sent to boot by the firmware.                                 *)
(*                                                                         *)
(* None of the properties is inductive alone.  What makes them so is who   *)
(* can be where: a hart is on the boot path, or in main before SV_BITS is  *)
(* stored, only if it alone found ALREADY_BOOTED clear (Single), and a     *)
(* hart that was started was started by that one, after the statics that   *)
(* it will read were set (BootOrder).  The stacks and the addresses follow *)
(* from what the word and the opaque of hart_start hold until the started  *)
(* hart takes them (StackOf, Addresses).                                   *)
(***************************************************************************)
EXTENDS HartBoot, TLAPS

Types ==
    /\ machine \in Machines
    /\ pc \in [Ids -> Labels]
    /\ satp \in [Ids -> {"bare", "boot", "own"}]
    /\ sp \in [Ids -> [stack : Nat, at : {"low", "high"}]]
    /\ sscratch \in [Ids -> Int]
    /\ hsm \in [Ids -> [state : {"stopped", "pending", "started"}, opaque : Nat]]
    /\ SV_BITS \in {0, 39}
    /\ TABLE \subseteq {"low", "high", "kernel"}
    /\ hart_id \in 0..(MaxHart + 1) /\ stacks = hart_id + 1
    /\ stack_satp \in [1..(MaxHart + 3) -> {"bare", "boot", "own"}]

\* The one hart that makes what the others use.
Alone(h) == pc[h] \in BootPath \/ (pc[h] = "main" /\ SV_BITS = 0)

Single ==
    /\ \A g, h \in Ids : Alone(g) /\ Alone(h) => g = h
    /\ ~ALREADY_BOOTED => SV_BITS = 0
    /\ ~ALREADY_BOOTED => \A h \in Ids : pc[h] \in {"boot", "entry"} /\ hsm[h].state # "pending"

\* A hart that was started and has not reached setup_hart yet.
Coming(h) ==
    \/ pc[h] = "entry" /\ hsm[h].state = "pending"
    \/ pc[h] \in {"hart_entry", "setup_hart"}
    \/ pc[h] = "main" /\ SV_BITS # 0

\* What was set before a hart came to where it is.
BootOrder ==
    \A h \in Ids :
        /\ pc[h] \in {"enable", "map_kernel"} => SV_BITS = 0
        /\ pc[h] \in {"query", "async_main", "setup_boot", "spawn_harts", "common"} \/ Coming(h)
              => SV_BITS = 39
        /\ pc[h] \in {"async_main", "setup_boot", "spawn_harts", "common", "run"} \/ Coming(h)
              => KERNEL_START_PHYSICAL
        /\ pc[h] \in {"setup_boot", "spawn_harts", "common"} \/ Coming(h) => GLOBAL_EXECUTOR
        /\ pc[h] \in {"spawn_harts", "common"} => sscratch[h] = h
        /\ pc[h] = "panic" =>
              /\ hart_id \in machine.broken /\ SV_BITS = 39 /\ satp[h] = "boot"
              /\ ALREADY_BOOTED /\ \A g \in Ids : ~Alone(g)

Full == TABLE = {"low", "high", "kernel"}

AddressesOf(h) ==
    /\ pc[h] \in {"boot", "loop", "enable"} => satp[h] = "bare" /\ sp[h].at = "low"
    /\ pc[h] = "enable" => {"low", "high"} \subseteq TABLE
    /\ pc[h] = "map_kernel" =>
          satp[h] = "boot" /\ sp[h].at = "low" /\ {"low", "high"} \subseteq TABLE
    /\ pc[h] = "hart_entry" => satp[h] = "boot" /\ sp[h].at = "low" /\ Full
    /\ pc[h] \in {"main", "query", "async_main", "setup_boot", "setup_hart", "spawn_harts",
                  "common", "panic"} => satp[h] = "boot" /\ sp[h].at = "high" /\ Full
    /\ pc[h] = "run" => satp[h] = "own" /\ sp[h].at = "high"
    /\ pc[h] = "entry" /\ hsm[h].state = "pending" =>
          stack_satp[hsm[h].opaque] = "boot" /\ Full

Addresses == \A h \in Ids : AddressesOf(h)

\* Stack 1 is _stack_start; the others are handed out once each.
StackOf ==
    /\ \A h \in Ids :
          /\ hsm[h].opaque \in {0} \cup 2..stacks
          /\ hsm[h].state = "stopped" => hsm[h].opaque = 0
          /\ hsm[h].state = "pending" => hsm[h].opaque # 0
          /\ sp[h].stack = 1 \/ pc[h] = "boot" => h \in machine.firmware
          /\ sp[h].stack \notin {0, 1} => sp[h].stack = hsm[h].opaque /\ hsm[h].state = "started"
    /\ \A g, h \in Ids : g # h /\ hsm[g].opaque # 0 => hsm[g].opaque # hsm[h].opaque

BootInv == Types /\ Single /\ BootOrder /\ Addresses /\ StackOf

-----------------------------------------------------------------------------
\* hart_start gives one of its four answers, each for its reason.
LEMMA AnswerMeans ==
    ASSUME Types, NEW id \in Int
    PROVE  LET answer == HartStartAnswer(id) IN
           /\ answer \in {"InvalidParameter", "AlreadyAvailable", "Failed", "Ok"}
           /\ answer = "InvalidParameter" <=> id \notin machine.harts
           /\ answer = "Failed" => id \in machine.broken
           /\ answer = "Ok" => hsm[id].state = "stopped"
BY MachinesOK DEF Types, HartStartAnswer

LEMMA InitBootInv == ASSUME Init PROVE BootInv
<1> USE MachinesOK DEF Init, FirstId, Ids
<1>1. Types
  BY DEF Types, Labels
<1>2. Single
  BY <1>1 DEF Single, Alone, BootPath
<1>3. BootOrder
  BY <1>1 DEF BootOrder, Coming
<1>4. Addresses
  BY <1>1 DEF Addresses, AddressesOf
<1>5. StackOf
  BY <1>1 DEF StackOf
<1> QED
  BY <1>1, <1>2, <1>3, <1>4, <1>5 DEF BootInv

\* PreMain lets one hart on the boot path: the one that finds ALREADY_BOOTED clear,
\* when no other hart is past its entry.
LEMMA PreMainKeeps == ASSUME BootInv, NEW h \in Ids, PreMain(h) PROVE BootInv'
<1> USE DEF BootInv
<1>0. (Swap.was <=> ALREADY_BOOTED) /\ Swap.now = TRUE
  BY DEF Swap
<1>a. /\ ALREADY_BOOTED' /\ pc[h] = "boot"
      /\ sp' = [sp EXCEPT ![h] = [stack |-> 1, at |-> "low"]]
  BY <1>0 DEF PreMain
<1>b. \/ ALREADY_BOOTED /\ pc' = [pc EXCEPT ![h] = "loop"] /\ TABLE' = TABLE
      \/ /\ \A g \in Ids : pc[g] \in {"boot", "entry"} /\ hsm[g].state # "pending"
         /\ pc' = [pc EXCEPT ![h] = "enable"] /\ TABLE' = {"low", "high"} /\ SV_BITS = 0
  BY <1>0 DEF PreMain, Goto, Single
<1>c. UNCHANGED <<machine, hsm, SV_BITS, KERNEL_START_PHYSICAL, GLOBAL_EXECUTOR, hart_id,
                  stacks, stack_satp, satp, sscratch>>
  BY DEF PreMain, spawner
<1>1. Types'
  <2>1. \E x \in Labels : pc' = [pc EXCEPT ![h] = x]
    BY <1>b DEF Labels
  <2>2. pc' \in [Ids -> Labels]
    BY <2>1 DEF Types
  <2>0. TABLE' = TABLE \/ TABLE' = {"low", "high"}
    BY <1>b
  <2>3. TABLE' \subseteq {"low", "high", "kernel"}
    BY <2>0 DEF Types
  <2>4. sp' \in [Ids -> [stack : Nat, at : {"low", "high"}]]
    BY <1>a DEF Types
  <2> QED
    BY <2>2, <2>3, <2>4, <1>c DEF Types
<1>d. \A g \in Ids : pc'[g] = pc[g] \/ (g = h /\ pc'[g] \in {"loop", "enable"})
  BY <1>b DEF Types
<1>e. \A g \in Ids : ~Alone(h) /\ (pc'[h] = "enable" => ~Alone(g) /\ ~Coming(g) /\ pc[g] # "panic")
  BY <1>1, <1>a, <1>b DEF Types, Alone, BootPath, Coming, Labels
<1>f. \A g \in Ids : Alone(g)' <=> Alone(g) \/ (g = h /\ pc'[h] = "enable")
  BY <1>a, <1>c, <1>d, <1>e DEF Alone, BootPath
<1>2. Single'
  BY <1>a, <1>e, <1>f DEF Single
<1>3. BootOrder'
  BY <1>1, <1>a, <1>b, <1>c, <1>d, <1>f DEF Types, Single, BootOrder, Coming
<1>4. Addresses'
  BY <1>1, <1>a, <1>b, <1>c DEF Types, Addresses, AddressesOf, Full
<1>5. StackOf'
  BY <1>1, <1>a, <1>b, <1>c DEF Types, StackOf
<1> QED
  BY <1>1, <1>2, <1>3, <1>4, <1>5

\* The switch to the bootloader's table.
LEMMA PreMainEnableKeeps == ASSUME BootInv, NEW h \in Ids, PreMainEnable(h) PROVE BootInv'
<1> USE DEF BootInv, PreMainEnable, Goto, globals, spawner, regs
<1>1. Types'
  BY DEF Types, Labels
<1>2. Single'
  BY <1>1 DEF Types, Single, Alone, BootPath, BootOrder, Coming
<1>3. BootOrder'
  BY <1>1 DEF Types, Single, Alone, BootPath, BootOrder, Coming
<1>4. Addresses'
  BY <1>1 DEF Types, Single, Addresses, AddressesOf, Full
<1>5. StackOf'
  BY <1>1 DEF Types, StackOf
<1> QED
  BY <1>1, <1>2, <1>3, <1>4, <1>5

\* The jump to main completes the table.
LEMMA PreMainJumpKeeps == ASSUME BootInv, NEW h \in Ids, PreMainJump(h) PROVE BootInv'
<1> USE DEF BootInv, PreMainJump, Goto, globals, spawner, regs
<1>0. [sp[h] EXCEPT !.at = "high"] \in [stack : Nat, at : {"low", "high"}]
  BY DEF Types
<1>1. Types'
  BY <1>0 DEF Types, Labels
<1>2. Single'
  BY <1>1 DEF Types, Single, Alone, BootPath, BootOrder, Coming
<1>3. BootOrder'
  BY <1>1 DEF Types, Single, Alone, BootPath, BootOrder, Coming
<1>4. Addresses'
  BY <1>1 DEF Types, Single, Addresses, AddressesOf, Full
<1>5. StackOf'
  BY <1>1 DEF Types, StackOf
<1> QED
  BY <1>1, <1>2, <1>3, <1>4, <1>5

\* A started hart takes the stack and the satp that were left for it.
LEMMA HartEntryPointKeeps == ASSUME BootInv, NEW h \in Ids, HartEntryPoint(h) PROVE BootInv'
<1> USE DEF BootInv, HartEntryPoint, Goto, globals, spawner, regs
<1>0. /\ [hsm[h] EXCEPT !.state = "started"] \in
            [state : {"stopped", "pending", "started"}, opaque : Nat]
      /\ hsm[h].opaque \in 1..(MaxHart + 3)
  BY MachinesOK DEF Types, StackOf
<1>1. Types'
  BY <1>0 DEF Types, Labels
<1>2. Single'
  BY <1>1 DEF Types, Single, Alone, BootPath, BootOrder, Coming
<1>3. BootOrder'
  BY <1>1 DEF Types, Single, Alone, BootPath, BootOrder, Coming
<1>4. Addresses'
  BY <1>1 DEF Types, Single, Addresses, AddressesOf, Full
<1>5. StackOf'
  BY <1>1 DEF Types, StackOf
<1> QED
  BY <1>1, <1>2, <1>3, <1>4, <1>5

\* A started hart goes on above the gap.
LEMMA HartEntryKeeps == ASSUME BootInv, NEW h \in Ids, HartEntry(h) PROVE BootInv'
<1> USE DEF BootInv, HartEntry, EntrySp, Goto, globals, spawner, regs
<1>0. [sp[h] EXCEPT !.at = "high"] \in [stack : Nat, at : {"low", "high"}]
  BY DEF Types
<1>1. Types'
  BY <1>0 DEF Types, Labels
<1>2. Single'
  BY <1>1 DEF Types, Single, Alone, BootPath, BootOrder, Coming
<1>3. BootOrder'
  BY <1>1 DEF Types, Single, Alone, BootPath, BootOrder, Coming
<1>4. Addresses'
  BY <1>1 DEF Types, Single, Addresses, AddressesOf, Full
<1>5. StackOf'
  BY <1>1 DEF Types, StackOf
<1> QED
  BY <1>1, <1>2, <1>3, <1>4, <1>5

\* main tells the boot hart from the started ones by SV_BITS.
LEMMA MainKeeps == ASSUME BootInv, NEW h \in Ids, Main(h) PROVE BootInv'
<1> USE DEF BootInv, Main, Goto, globals, spawner, regs
<1>1. Types'
  BY DEF Types, Labels
<1>2. Single'
  BY <1>1 DEF Types, Single, Alone, BootPath, BootOrder, Coming
<1>3. BootOrder'
  BY <1>1 DEF Types, Single, Alone, BootPath, BootOrder, Coming
<1>4. Addresses'
  BY <1>1 DEF Types, Single, Addresses, AddressesOf, Full
<1>5. StackOf'
  BY <1>1 DEF Types, StackOf
<1> QED
  BY <1>1, <1>2, <1>3, <1>4, <1>5

\* The boot hart finds the payload's physical address.
LEMMA MainQueryKeeps == ASSUME BootInv, NEW h \in Ids, MainQuery(h) PROVE BootInv'
<1> USE DEF BootInv, MainQuery, Goto, globals, spawner, regs
<1>1. Types'
  BY DEF Types, Labels
<1>2. Single'
  BY <1>1 DEF Types, Single, Alone, BootPath, BootOrder, Coming
<1>3. BootOrder'
  BY <1>1 DEF Types, Single, Alone, BootPath, BootOrder, Coming
<1>4. Addresses'
  BY <1>1 DEF Types, Single, Addresses, AddressesOf, Full
<1>5. StackOf'
  BY <1>1 DEF Types, StackOf
<1> QED
  BY <1>1, <1>2, <1>3, <1>4, <1>5

\* The boot hart sets the executor.
LEMMA AsyncMainKeeps == ASSUME BootInv, NEW h \in Ids, AsyncMain(h) PROVE BootInv'
<1> USE DEF BootInv, AsyncMain, Replaced, Goto, globals, spawner, regs
<1>1. Types'
  BY DEF Types, Labels
<1>2. Single'
  BY <1>1 DEF Types, Single, Alone, BootPath, BootOrder, Coming
<1>3. BootOrder'
  BY <1>1 DEF Types, Single, Alone, BootPath, BootOrder, Coming
<1>4. Addresses'
  BY <1>1 DEF Types, Single, Addresses, AddressesOf, Full
<1>5. StackOf'
  BY <1>1 DEF Types, StackOf
<1> QED
  BY <1>1, <1>2, <1>3, <1>4, <1>5

\* setup_hart_state_and_metadata finds the executor.
LEMMA SetupHartStateKeeps == ASSUME BootInv, NEW h \in Ids, SetupHartState(h) PROVE BootInv'
<1> USE DEF BootInv
<1>0. GLOBAL_EXECUTOR
  BY DEF SetupHartState, BootOrder, Coming
<1>a. /\ sscratch' = [sscratch EXCEPT ![h] = h]
      /\ \/ pc[h] = "setup_boot" /\ pc' = [pc EXCEPT ![h] = "spawn_harts"]
         \/ pc[h] = "setup_hart" /\ pc' = [pc EXCEPT ![h] = "common"]
  BY <1>0 DEF SetupHartState, Goto
<1>b. UNCHANGED <<machine, hsm, ALREADY_BOOTED, SV_BITS, KERNEL_START_PHYSICAL,
                  GLOBAL_EXECUTOR, TABLE, hart_id, stacks, stack_satp, satp, sp>>
  BY DEF SetupHartState, globals, spawner
<1>c. h \in Int
  BY MachinesOK DEF Ids
<1>1. Types'
  <2>1. \E x \in Labels : pc' = [pc EXCEPT ![h] = x]
    BY <1>a DEF Labels
  <2>2. pc' \in [Ids -> Labels]
    BY <2>1 DEF Types
  <2>3. sscratch' \in [Ids -> Int]
    BY <1>a, <1>c DEF Types
  <2> QED
    BY <2>2, <2>3, <1>b DEF Types
<1>d. \A g \in Ids : Alone(g)' => Alone(g)
  BY <1>a, <1>b DEF Types, Alone, BootPath
<1>e. ALREADY_BOOTED /\ ALREADY_BOOTED'
  BY <1>a, <1>b DEF Single
<1>2. Single'
  BY <1>d, <1>e DEF Single
<1>3. BootOrder'
  <2>1. /\ SV_BITS = 39 /\ KERNEL_START_PHYSICAL
        /\ \A g \in Ids : ~Alone(g) => ~Alone(g)'
    BY <1>a, <1>d DEF BootOrder, Coming
  <2>2. pc'[h] \in {"spawn_harts", "common"} /\ sscratch'[h] = h
    BY <1>a DEF Types
  <2>3. \A g \in Ids \ {h} : pc'[g] = pc[g] /\ sscratch'[g] = sscratch[g]
    BY <1>a DEF Types
  <2> QED
    BY <2>1, <2>2, <2>3, <1>0, <1>b DEF BootOrder, Coming
<1>4. Addresses'
  BY <1>1, <1>a, <1>b DEF Types, Addresses, AddressesOf, Full
<1>5. StackOf'
  BY <1>1, <1>a, <1>b DEF Types, StackOf
<1> QED
  BY <1>1, <1>2, <1>3, <1>4, <1>5

\* common_hart_code finds sscratch set and leaves the low addresses.
LEMMA CommonHartCodeKeeps == ASSUME BootInv, NEW h \in Ids, CommonHartCode(h) PROVE BootInv'
<1> USE DEF BootInv, CommonHartCode, Goto, globals, spawner, regs
<1>0. pc' = [pc EXCEPT ![h] = "run"]
  BY DEF BootOrder
<1>1. Types'
  BY DEF Types, Labels
<1>2. Single'
  BY <1>0, <1>1 DEF Types, Single, Alone, BootPath, BootOrder, Coming
<1>3. BootOrder'
  BY <1>0, <1>1 DEF Types, Single, Alone, BootPath, BootOrder, Coming
<1>4. Addresses'
  BY <1>0, <1>1 DEF Types, Single, Addresses, AddressesOf, Full
<1>5. StackOf'
  BY <1>0, <1>1 DEF Types, StackOf
<1> QED
  BY <1>1, <1>2, <1>3, <1>4, <1>5

\* A round of the loop that starts a hart, or finds it running, gives a stack
\* away for good.
LEMMA GoesOnKeeps ==
    ASSUME BootInv, NEW h \in Ids, StartHart(h), HartStartAnswer(hart_id) \in GoesOn
    PROVE  BootInv'
<1> USE DEF BootInv
<1>a. /\ pc[h] = "spawn_harts"
      /\ hart_id \in machine.harts /\ machine.harts \subseteq Ids /\ hart_id \in Nat
      /\ hart_id' = hart_id + 1 /\ stacks' = stacks + 1 /\ stacks = hart_id + 1
      /\ stack_satp' = [stack_satp EXCEPT ![stacks + 1] = satp[h]]
  BY AnswerMeans, MachinesOK DEF StartHart, GoesOn, NewStack, Types
<1>b. \/ hsm' = hsm
      \/ /\ hsm[hart_id].state = "stopped"
         /\ hsm' = [hsm EXCEPT ![hart_id] = [state |-> "pending", opaque |-> stacks + 1]]
  BY <1>a, AnswerMeans DEF StartHart, NewStack
<1>c. UNCHANGED <<machine, pc, ALREADY_BOOTED, SV_BITS, KERNEL_START_PHYSICAL,
                  GLOBAL_EXECUTOR, TABLE, satp, sp, sscratch>>
  BY DEF StartHart, globals, regs
<1>d. /\ hart_id \in 0..MaxHart /\ hart_id \in Ids
      /\ stacks \in Nat /\ stacks + 1 \in 1..(MaxHart + 3)
  BY <1>a, MachinesOK DEF Ids
<1>1. Types'
  <2>1. hart_id' \in 0..(MaxHart + 1) /\ stacks' = hart_id' + 1
    BY <1>a, <1>d, MachinesOK
  <2>2. stack_satp' \in [1..(MaxHart + 3) -> {"bare", "boot", "own"}]
    BY <1>a, <1>d DEF Types
  <2>3. hsm' \in [Ids -> [state : {"stopped", "pending", "started"}, opaque : Nat]]
    BY <1>b, <1>d DEF Types
  <2> QED
    BY <2>1, <2>2, <2>3, <1>c DEF Types
<1>e. ALREADY_BOOTED /\ ALREADY_BOOTED'
  BY <1>a, <1>c DEF Single
<1>f. \A g \in Ids : Alone(g)' <=> Alone(g)
  BY <1>c DEF Alone
<1>g. Alone(h) /\ \A g \in Ids : pc[g] # "panic"
  BY <1>a DEF Alone, BootPath, BootOrder
<1>2. Single'
  BY <1>e, <1>f DEF Single
<1>h. SV_BITS = 39 /\ KERNEL_START_PHYSICAL /\ GLOBAL_EXECUTOR
  BY <1>a DEF BootOrder
<1>3. BootOrder'
  BY <1>a, <1>c, <1>g, <1>h DEF BootOrder, Coming
<1>i. \A g \in Ids : /\ hsm[g].opaque \in Nat /\ hsm[g].opaque < stacks + 1
                     /\ hsm[g].opaque # stacks + 1
                     /\ hsm[g].opaque \in {0} \cup 2..(stacks + 1)
  <2> TAKE g \in Ids
  <2>1. hsm[g].opaque = 0 \/ hsm[g].opaque \in 2..stacks
    BY DEF StackOf
  <2> QED
    BY <2>1, <1>d
<1>4. Addresses'
  <2>1. satp[h] = "boot" /\ Full
    BY <1>a DEF Addresses, AddressesOf
  <2>2. stack_satp'[stacks + 1] = "boot"
    BY <2>1, <1>a, <1>d DEF Types
  <2>3. \A g \in Ids : hsm[g].state = "pending" => stack_satp'[hsm[g].opaque] = stack_satp[hsm[g].opaque]
    <3> SUFFICES ASSUME NEW g \in Ids, hsm[g].state = "pending"
                 PROVE  stack_satp'[hsm[g].opaque] = stack_satp[hsm[g].opaque]
      OBVIOUS
    <3>1. hsm[g].opaque # 0
      BY DEF StackOf
    <3>2. hsm[g].opaque \in 1..(MaxHart + 3) /\ hsm[g].opaque # stacks + 1
      <4>1. hsm[g].opaque \in Nat /\ hsm[g].opaque # 0 /\ hsm[g].opaque < stacks + 1
        BY <3>1, <1>i
      <4> HIDE DEF BootInv
      <4> QED
        BY <4>1, <1>d, MachinesOK
    <3> QED
      BY <3>2, <1>a DEF Types
  <2>4. \A g \in Ids : hsm'[g].state = "pending" =>
            \/ hsm'[g].opaque = stacks + 1
            \/ hsm[g].state = "pending" /\ hsm'[g].opaque = hsm[g].opaque
    BY <1>b, <1>d DEF Types
  <2>5. Full' /\ \A g \in Ids : pc[g] = "entry" /\ hsm'[g].state = "pending" =>
                                 stack_satp'[hsm'[g].opaque] = "boot"
    BY <2>1, <2>2, <2>3, <2>4, <1>c DEF Addresses, AddressesOf, Full
  <2> QED
    BY <2>1, <2>5, <1>c DEF Addresses, AddressesOf, Full
<1>5. StackOf'
  <2>1. stacks' = stacks + 1 /\ stacks >= 1
    BY <1>a
  <2>2. CASE hsm' = hsm
    <3>1. \A g \in Ids : hsm'[g].opaque \in {0} \cup 2..stacks'
      BY <2>1, <2>2, <1>i
    <3> QED
      BY <3>1, <2>2, <1>c DEF StackOf
  <2>3. CASE hsm' # hsm
    <3>1. /\ hsm[hart_id].state = "stopped"
          /\ hsm'[hart_id] = [state |-> "pending", opaque |-> stacks + 1]
          /\ \A g \in Ids \ {hart_id} : hsm'[g] = hsm[g]
      BY <2>3, <1>b, <1>d DEF Types
    <3>2. \A g \in Ids : hsm'[g].opaque \in {0} \cup 2..stacks'
      <4>1. hsm'[hart_id].opaque = stacks + 1 /\ stacks + 1 \in 2..stacks'
        BY <3>1, <2>1, <1>d
      <4> QED
        BY <4>1, <3>1, <2>1, <1>i
    <3>3. \A g, k \in Ids : g # k /\ hsm'[g].opaque # 0 => hsm'[g].opaque # hsm'[k].opaque
      <4>1. hsm'[hart_id].opaque = stacks + 1
        BY <3>1
      <4>2. \A g \in Ids \ {hart_id} : hsm'[g].opaque = hsm[g].opaque /\ hsm[g].opaque # stacks + 1
        BY <3>1, <1>i
      <4> QED
        BY <4>1, <4>2 DEF StackOf
    <3>4. \A g \in Ids : /\ hsm'[g].state = "stopped" => hsm'[g].opaque = 0
                         /\ hsm'[g].state = "pending" => hsm'[g].opaque # 0
                         /\ hsm[g].state = "started" => hsm'[g] = hsm[g]
      BY <3>1, <1>d DEF StackOf
    <3> QED
      BY <3>2, <3>3, <3>4, <1>c DEF StackOf
  <2> QED
    BY <2>2, <2>3
<1> QED
  BY <1>1, <1>2, <1>3, <1>4, <1>5

\* A round that ends the loop starts no hart, and its stack is freed.
LEMMA EndsKeeps ==
    ASSUME BootInv, NEW h \in Ids, StartHart(h), HartStartAnswer(hart_id) \notin GoesOn
    PROVE  BootInv'
<1> USE DEF BootInv
<1>a. /\ pc[h] = "spawn_harts" /\ stacks = hart_id + 1 /\ hart_id \in 0..(MaxHart + 1)
      /\ stack_satp' = [stack_satp EXCEPT ![stacks + 1] = satp[h]]
  BY DEF StartHart, NewStack, Types
<1>b. \/ pc' = [pc EXCEPT ![h] = "common"]
      \/ hart_id \in machine.broken /\ pc' = [pc EXCEPT ![h] = "panic"]
  BY <1>a, AnswerMeans DEF StartHart, GoesOn, Goto
<1>c. UNCHANGED <<machine, hsm, hart_id, stacks, ALREADY_BOOTED, SV_BITS,
                  KERNEL_START_PHYSICAL, GLOBAL_EXECUTOR, TABLE, satp, sp, sscratch>>
  BY <1>a, AnswerMeans DEF StartHart, GoesOn, globals, regs
<1>d. stacks + 1 \in 1..(MaxHart + 3)
  BY <1>a, MachinesOK
<1>1. Types'
  <2>1. stack_satp' \in [1..(MaxHart + 3) -> {"bare", "boot", "own"}]
    BY <1>a, <1>d DEF Types
  <2>2. \E x \in Labels : pc' = [pc EXCEPT ![h] = x]
    BY <1>b DEF Labels
  <2>3. pc' \in [Ids -> Labels]
    BY <2>2 DEF Types
  <2> QED
    BY <2>1, <2>3, <1>c DEF Types
<1>e. ALREADY_BOOTED /\ ALREADY_BOOTED'
  BY <1>a, <1>c DEF Single
<1>f. Alone(h) /\ ~Alone(h)' /\ \A g \in Ids : Alone(g)' => Alone(g)
  BY <1>a, <1>b, <1>c DEF Types, Alone, BootPath
<1>2. Single'
  BY <1>e, <1>f DEF Single
<1>g. \A g \in Ids : ~Alone(g)'
  BY <1>f DEF Single
<1>h. satp[h] = "boot"
  BY <1>a DEF Addresses, AddressesOf
<1>3. BootOrder'
  BY <1>1, <1>a, <1>b, <1>c, <1>e, <1>g, <1>h DEF Types, BootOrder, Coming
<1>4. Addresses'
  <2>1. \A g \in Ids : hsm[g].state = "pending" => stack_satp'[hsm[g].opaque] = stack_satp[hsm[g].opaque]
    <3> SUFFICES ASSUME NEW g \in Ids, hsm[g].state = "pending"
                 PROVE  stack_satp'[hsm[g].opaque] = stack_satp[hsm[g].opaque]
      OBVIOUS
    <3>1. hsm[g].opaque \in 2..stacks
      BY DEF StackOf
    <3>2. hsm[g].opaque \in 1..(MaxHart + 3) /\ hsm[g].opaque # stacks + 1
      BY <3>1, <1>a, MachinesOK
    <3> QED
      BY <3>2, <1>a DEF Types
  <2>2. pc'[h] \in {"common", "panic"} /\ \A g \in Ids \ {h} : pc'[g] = pc[g]
    BY <1>b DEF Types
  <2> QED
    <3>1. satp[h] = "boot" /\ sp[h].at = "high" /\ Full /\ Full'
      BY <1>a, <1>c DEF Addresses, AddressesOf, Full
    <3>2. UNCHANGED <<satp, sp, hsm, TABLE>>
      BY <1>c
    <3> HIDE DEF BootInv
    <3>3. Addresses
      BY DEF BootInv
    <3> SUFFICES ASSUME NEW g \in Ids
                 PROVE  AddressesOf(g)'
      BY DEF Addresses
    <3>4. CASE g = h
      BY <3>1, <3>2, <3>4, <2>2 DEF AddressesOf
    <3>5. CASE g # h
      <4>1. /\ AddressesOf(g) /\ pc'[g] = pc[g]
            /\ hsm[g].state = "pending" => stack_satp'[hsm[g].opaque] = stack_satp[hsm[g].opaque]
        BY <3>3, <3>5, <2>1, <2>2 DEF Addresses
      <4> QED
        BY <4>1, <3>2 DEF AddressesOf, Full
    <3> QED
      BY <3>4, <3>5
<1>5. StackOf'
  BY <1>a, <1>b, <1>c DEF Types, StackOf
<1> QED
  BY <1>1, <1>2, <1>3, <1>4, <1>5

LEMMA NextBootInv == ASSUME BootInv, [Next]_vars PROVE BootInv'
<1>1. CASE UNCHANGED vars
  <2> USE <1>1 DEF vars, globals, spawner, regs
  <2>1. Types'
    BY DEF BootInv, Types
  <2>2. Single'
    BY DEF BootInv, Single, Alone
  <2>3. BootOrder'
    BY DEF BootInv, BootOrder, Coming, Alone
  <2>4. Addresses'
    BY DEF BootInv, Addresses, AddressesOf, Full
  <2>5. StackOf'
    BY DEF BootInv, StackOf
  <2> QED
    BY <2>1, <2>2, <2>3, <2>4, <2>5 DEF BootInv
<1>2. ASSUME NEW h \in Ids, HartStep(h) PROVE BootInv'
  BY <1>2, PreMainKeeps, PreMainEnableKeeps, PreMainJumpKeeps, HartEntryPointKeeps,
     HartEntryKeeps, MainKeeps, MainQueryKeeps, AsyncMainKeeps, SetupHartStateKeeps,
     GoesOnKeeps, EndsKeeps, CommonHartCodeKeeps
  DEF HartStep
<1> QED
  BY <1>1, <1>2 DEF Next

LEMMA BootInvHolds == Spec => []BootInv
BY InitBootInv, NextBootInv, PTL DEF Spec

-----------------------------------------------------------------------------
\* The loop of async_main ends: it asks for no id beyond the first that no
\* hart has, and hands out no more stacks than that.
THEOREM TypesHold == Spec => []TypeOK
<1>1. BootInv => TypeOK
  BY MachinesOK DEF BootInv, Types, TypeOK
<1> QED
  BY <1>1, BootInvHolds, PTL

\* However many harts the firmware sends to boot, one makes the page table, the
\* heap and the executor and starts the others.
THEOREM BootHartIsOne == Spec => []OneBootHart
<1>1. BootInv => OneBootHart
  BY DEF BootInv, Single, Alone, OneBootHart
<1> QED
  BY <1>1, BootInvHolds, PTL

\* With one hart sent to boot, no two harts ever run on the same stack.
THEOREM StacksAreApart == Spec => []StacksApart
<1>1. BootInv => StacksApart
  BY DEF BootInv, Types, StackOf, OneHart, StacksApart
<1> QED
  BY <1>1, BootInvHolds, PTL

\* A hart's code and stack are mapped at every step of its way to the executor.
THEOREM AddressesAreMapped == Spec => []AddressesMapped
<1>1. ASSUME BootInv, NEW h \in Ids, pc[h] # "entry"
      PROVE  {CodeAt(h), sp[h].at} \subseteq Mapped(h)
  BY <1>1 DEF BootInv, Types, Labels, BootOrder, Addresses, AddressesOf, Full, CodeAt, Mapped
<1>2. BootInv => AddressesMapped
  BY <1>1 DEF AddressesMapped
<1> QED
  BY <1>2, BootInvHolds, PTL

\* A started hart finds the executor and its HartLocals: no hart panics but the
\* one that meets an answer of the firmware that async_main does not know.
THEOREM StartedHartsAreReady == Spec => []StartedHartsReady
<1>1. BootInv => StartedHartsReady
  BY DEF BootInv, BootOrder, StartedHartsReady
<1> QED
  BY <1>1, BootInvHolds, PTL
=============================================================================
