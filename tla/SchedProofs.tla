----------------------------- MODULE SchedProofs -----------------------------
(***************************************************************************)
(* The scheduler, for any number of slots and kernel stacks: the ring, the *)
(* saved contexts, the trap frames on the kernel stacks and the page       *)
(* directories.  All of it is about QuietSpec, which leaves out the three  *)
(* behaviours that the runs sched_window, sched_tss and proc_reap_race     *)
(* exhibit.                                                                *)
(***************************************************************************)
EXTENDS Sched, NatMin

(***************************************************************************)
(* The inductive invariant adds to the properties of Sched who is on the   *)
(* CPU, where the others stopped, and whose stack is whose.                *)
(***************************************************************************)
Dying == at \in {"exit", "exit_sw"}

\* running_task is the flow on the CPU, except inside a yield with interrupts on,
\* when it is already the task that will be switched to.
CpuOK ==
  /\ ~InYield => running = flow
  /\ InYield => running \in Ring /\ running # flow
  /\ Dying => state[flow] = "ZOMBIE"
  /\ ~Dying => flow \in Ring
  /\ at = "hlt" => flow = 0

\* Nobody waits for the CPU in user mode, dying, or inside yield.
SavedOK ==
  \A t \in Ring \ {flow} :
    /\ regs[t].at \in {"start", "tail", "wait", "reap", "hlt"}
    /\ regs[t].at = "hlt" => t = 0
    /\ regs[t].at = "start" => t # 0
    /\ t # 0 => regs[t].stk = kernel_stack[t]

\* The kernel stack process 0 is on, or will be on at its next trap.  Since yield
\* sets no TSS stack for it, it need not be its own.
Stack0 == IF flow # 0 THEN regs[0].stk ELSE IF at = "user" THEN tss ELSE stk

\* Kernel stacks are private: every other process is on its own stack, and
\* process 0 is on none of a live process.
StackOK ==
  /\ kernel_stack[0] = 1
  /\ \A t \in Ring \ {0} : kernel_stack[t] \in 2 .. stacks
  /\ \A t, u \in Ring \ {0} : kernel_stack[t] = kernel_stack[u] => t = u
  /\ Stack0 \in 1 .. stacks
  /\ \A t \in Ring \ {0} : kernel_stack[t] # Stack0

\* The TSS holds the stack of the process that will trap next, unless that is
\* process 0; a flow in the kernel has its trap frame on the stack it is on.
TssOK ==
  /\ at # "hlt" => tss \in 1 .. stacks
  /\ flow # 0 /\ at \in {"user", "start", "tail", "wait", "reap"} => tss = kernel_stack[flow]
  /\ InYield /\ running # 0 => tss = kernel_stack[running]
  /\ flow # 0 /\ at \in {"start", "tail", "wait", "reap", "wait_sw"} => stk = kernel_stack[flow]
  /\ at \in {"start", "tail", "wait", "reap", "wait_sw", "hlt"} => top[stk] = flow
  /\ at = "start" => flow # 0

\* A reaper between its two stores still names the slot, and that slot is free: the
\* kernel stack it will clear is nobody's.
PendingOK ==
  /\ \A t \in Tasks : reaping[t] # 0 => state[reaping[t]] = "FREE"
  /\ at = "reap" => reaping[flow] # 0
  /\ \A t \in Ring \ {flow} : regs[t].at = "reap" => reaping[t] # 0

SInv ==
  /\ TypeOK /\ RingOK /\ ContextOwn /\ FramesIntact /\ AddressSpaces
  /\ CpuOK /\ SavedOK /\ StackOK /\ TssOK /\ PendingOK

-----------------------------------------------------------------------------
\* The scheduler starts with process 0 alone in user mode.
LEMMA InitSInv == Init => SInv
<1>. SUFFICES ASSUME Init  PROVE SInv
  OBVIOUS
<1>. USE SchedAssumption DEF Init, Ring, Tasks, Stacks, HaltStack, Dirs, kernel_dir
<1>1. Ring = {0}
  OBVIOUS
<1>2. TypeOK
  BY DEF TypeOK, Locations, Context
<1>3. RingOK
  BY <1>1 DEF RingOK
<1>4. ContextOwn /\ FramesIntact /\ SavedOK
  BY <1>1 DEF ContextOwn, FramesIntact, SavedOK
<1>5. AddressSpaces
  BY <1>1 DEF AddressSpaces
<1>6. CpuOK
  BY <1>1 DEF CpuOK, InYield, Dying
<1>7. StackOK /\ TssOK /\ PendingOK
  BY <1>1 DEF StackOK, TssOK, PendingOK, Stack0, InYield
<1>. QED  BY <1>2, <1>3, <1>4, <1>5, <1>6, <1>7 DEF SInv

(***************************************************************************)
(* The switch.  A flow that has its frame on the stack it leaves, or that  *)
(* is dying, hands the CPU over to a task that waits for it.               *)
(***************************************************************************)
LEMMA SwitchKeeps ==
  ASSUME SInv, NEW a \in {"tail", "wait", "reap", "hlt", "exit"}, NEW k \in Stacks,
         NEW to \in Ring \ {flow},
         switch_task(flow, to, a, k, cr3), running' = to, UNCHANGED <<next, procVars>>,
         tss' \in 1 .. stacks, to # 0 => tss' = kernel_stack[to],
         top' \in [Stacks -> Tasks], \A t \in Ring \ {flow} : top'[regs[t].stk] = t,
         flow \in Ring => /\ top'[k] = flow
                          /\ a # "exit" /\ (a = "hlt" => flow = 0)
                          /\ a = "reap" => reaping[flow] # 0
                          /\ IF flow = 0 THEN k = Stack0 ELSE k = kernel_stack[flow]
  PROVE  SInv'
<1>. USE DEF SInv, switch_task, procVars
<1>0. /\ Ring' = Ring /\ Ring \subseteq Tasks /\ next' = next /\ state' = state
      /\ kernel_stack' = kernel_stack /\ page_dir' = page_dir /\ stacks' = stacks /\ dirs' = dirs
      /\ reaping' = reaping
  BY DEF Ring
<1>1. regs[to].flow = to /\ regs[to].cr3 = page_dir[to] /\ to \in Tasks
  BY <1>0 DEF ContextOwn, AddressSpaces
<1>2. flow' = to /\ at' = regs[to].at /\ stk' = regs[to].stk /\ cr3' = page_dir[to]
  BY <1>1
<1>3. flow \in Tasks /\ cr3 \in Dirs /\ cr3 = page_dir[flow]
  BY DEF TypeOK, AddressSpaces
<1>4. /\ regs'[flow] = Context(flow, a, k, cr3)
      /\ \A t \in Tasks \ {flow} : regs'[t] = regs[t]
      /\ regs' \in [Tasks -> [flow : Tasks, at : Locations, stk : Stacks, cr3 : Dirs]]
  BY <1>3 DEF TypeOK, Context, Locations
<1>5. TypeOK'
  BY <1>0, <1>1, <1>2, <1>4, SchedAssumption DEF TypeOK, Stacks, HaltStack, Locations
<1>6. /\ at' \in {"start", "tail", "wait", "reap", "hlt"} /\ (at' = "hlt" => to = 0)
      /\ (at' = "start" => to # 0) /\ (to # 0 => stk' = kernel_stack[to])
      /\ top'[stk'] = to
  BY <1>2 DEF SavedOK
<1>7. RingOK'
  BY <1>0, <1>6 DEF RingOK
<1>8. CpuOK'
  BY <1>0, <1>2, <1>6 DEF CpuOK, InYield, Dying
<1>9. ContextOwn' /\ FramesIntact' /\ SavedOK'
  <2>. SUFFICES ASSUME NEW t \in Ring, t # to
                PROVE  /\ regs'[t].flow = t /\ top'[regs'[t].stk] = t
                       /\ regs'[t].at \in {"start", "tail", "wait", "reap", "hlt"}
                       /\ regs'[t].at = "hlt" => t = 0
                       /\ regs'[t].at = "start" => t # 0
                       /\ t # 0 => regs'[t].stk = kernel_stack[t]
    BY <1>0, <1>2 DEF ContextOwn, FramesIntact, SavedOK
  <2>1. CASE t = flow
    BY <2>1, <1>4 DEF Context
  <2>2. CASE t # flow
    <3>1. regs'[t] = regs[t]
      BY <2>2, <1>4, <1>0
    <3>. QED  BY <2>2, <3>1 DEF ContextOwn, SavedOK
  <2>. QED  BY <2>1, <2>2
<1>10. AddressSpaces'
  <2>1. \A t \in Ring \ {to} : regs'[t].cr3 = page_dir[t]
    BY <1>0, <1>3, <1>4 DEF AddressSpaces, Context
  <2>. QED  BY <2>1, <1>0, <1>2 DEF AddressSpaces
<1>11. Stack0' = Stack0
  <2>1. 0 \in Ring
    BY DEF RingOK
  <2>2. CASE to = 0
    <3>1. flow' = 0 /\ at' # "user" /\ stk' = regs[0].stk
      BY <2>2, <1>2, <1>6
    <3>. QED  BY <3>1, <2>2 DEF Stack0
  <2>3. CASE to # 0 /\ flow = 0
    <3>1. regs'[0].stk = k
      BY <2>3, <1>4 DEF Context
    <3>. QED  BY <3>1, <2>1, <2>3, <1>2 DEF Stack0
  <2>4. CASE to # 0 /\ flow # 0
    <3>1. regs'[0] = regs[0]
      BY <2>1, <2>4, <1>4, <1>0
    <3>. QED  BY <3>1, <2>4, <1>2 DEF Stack0
  <2>. QED  BY <2>2, <2>3, <2>4
<1>12. StackOK'
  BY <1>0, <1>11 DEF StackOK
<1>13. TssOK'
  BY <1>0, <1>2, <1>6 DEF TssOK, InYield
<1>14. PendingOK'
  <2>1. at' = "reap" => reaping[to] # 0
    BY <1>2 DEF PendingOK
  <2>2. ASSUME NEW t \in Ring \ {to}, regs'[t].at = "reap"  PROVE reaping[t] # 0
    <3>1. CASE t = flow
      BY <3>1, <2>2, <1>4 DEF Context
    <3>2. CASE t # flow
      BY <3>2, <2>2, <1>0, <1>4 DEF PendingOK
    <3>. QED  BY <3>1, <3>2
  <2>. QED  BY <2>1, <2>2, <1>0, <1>2 DEF PendingOK
<1>. QED  BY <1>5, <1>7, <1>8, <1>9, <1>10, <1>12, <1>13, <1>14

\* No waiting task is on the stack in the TSS of a flow in user mode: its trap
\* destroys no frame.
LEMMA TrapPrivate ==
  ASSUME SInv, at = "user"
  PROVE  /\ tss \in 1 .. stacks /\ tss \in Stacks /\ flow = running /\ flow \in Ring
         /\ \A t \in Ring \ {flow} : regs[t].stk \in 1 .. stacks /\ regs[t].stk # tss
         /\ IF flow = 0 THEN tss = Stack0 ELSE tss = kernel_stack[flow]
<1>. USE DEF SInv
<1>1. tss \in 1 .. stacks /\ stacks \in 1 .. HeapStacks
  BY DEF TssOK, TypeOK
<1>2. flow \in Ring /\ flow = running /\ flow \in Tasks
  BY DEF CpuOK, InYield, Dying, TypeOK
<1>3. IF flow = 0 THEN tss = Stack0 ELSE tss = kernel_stack[flow]
  BY DEF TssOK, Stack0
<1>4. ASSUME NEW t \in Ring \ {flow}  PROVE regs[t].stk \in 1 .. stacks /\ regs[t].stk # tss
  <2>1. CASE t = 0
    <3>1. regs[0].stk = Stack0 /\ flow # 0
      BY <2>1 DEF Stack0
    <3>. QED  BY <3>1, <2>1, <1>2, <1>3 DEF StackOK
  <2>2. CASE t # 0
    <3>1. regs[t].stk = kernel_stack[t] /\ kernel_stack[t] \in 2 .. stacks
      BY <2>2 DEF SavedOK, StackOK
    <3>. QED  BY <3>1, <2>2, <1>1, <1>2, <1>3 DEF StackOK
  <2>. QED  BY <2>1, <2>2
<1>. QED  BY <1>1, <1>2, <1>3, <1>4, SchedAssumption DEF Stacks, HaltStack

LEMMA TrapKeeps ==
  ASSUME SInv, at = "user", Trap
  PROVE  /\ top' \in [Stacks -> Tasks] /\ top'[tss] = flow
         /\ \A t \in Ring \ {flow} : top'[regs[t].stk] = t
<1>1. tss \in Stacks /\ \A t \in Ring \ {flow} : regs[t].stk # tss
  BY TrapPrivate
<1>2. top \in [Stacks -> Tasks] /\ flow \in Tasks
  BY DEF SInv, TypeOK
<1>3. \A t \in Ring \ {flow} : regs[t].stk \in Stacks /\ top[regs[t].stk] = t
  BY DEF SInv, TypeOK, FramesIntact, Ring
<1>. QED  BY <1>1, <1>2, <1>3 DEF Trap

\* The task after a running one is another one that waits, unless it is alone.
LEMMA NextWaits ==
  ASSUME SInv, ~InYield
  PROVE  /\ running = flow /\ next[running] \in Ring
         /\ next[running] # running => next[running] \in Ring \ {flow}
         /\ flow \notin Ring => next[running] # running
         /\ next[running] = running => Ring = {running}
<1>1. running = flow /\ next[running] \in Ring
  BY DEF SInv, CpuOK, RingOK
<1>2. ASSUME next[running] = running  PROVE Ring = {running}
  <2>1. {running} \in SUBSET Ring
    BY <1>1, <1>2
  <2>. QED  BY <2>1, <1>2 DEF SInv, RingOK
<1>. QED  BY <1>1, <1>2

\* A yield with interrupts off that finds another task.
LEMMA YieldKeeps ==
  ASSUME SInv, NEW a \in {"tail", "wait", "reap", "hlt", "exit"}, NEW k \in Stacks,
         ~InYield, yield(a, k), next[running] # running,
         top' \in [Stacks -> Tasks], \A t \in Ring \ {flow} : top'[regs[t].stk] = t,
         flow \in Ring => /\ top'[k] = flow
                          /\ a # "exit" /\ (a = "hlt" => flow = 0)
                          /\ a = "reap" => reaping[flow] # 0
                          /\ IF flow = 0 THEN k = Stack0 ELSE k = kernel_stack[flow]
  PROVE  SInv'
<1>. DEFINE to == next[running]
<1>1. running = flow /\ to \in Ring \ {flow}
  BY NextWaits
<1>2. /\ running' = to /\ tss' = TssFor(to) /\ switch_task(flow, to, a, k, cr3)
      /\ UNCHANGED <<next, procVars>>
  BY <1>1 DEF yield
<1>. HIDE DEF to
<1>3. tss' \in 1 .. stacks /\ (to # 0 => tss' = kernel_stack[to])
  <2>1. CASE to = 0
    BY <2>1, <1>1, <1>2 DEF TssFor, SInv, TssOK, CpuOK
  <2>2. CASE to # 0
    <3>1. kernel_stack[to] \in 2 .. stacks /\ stacks \in Nat
      BY <2>2, <1>1 DEF SInv, StackOK, TypeOK
    <3>. QED  BY <3>1, <2>2, <1>2 DEF TssFor
  <2>. QED  BY <2>1, <2>2
<1>. QED  BY <1>1, <1>2, <1>3, SwitchKeeps

\* A step that changes nothing keeps everything.
LEMMA Stutters ==
  ASSUME SInv, UNCHANGED vars
  PROVE  SInv'
<1>1. /\ Ring' = Ring /\ Stack0' = Stack0 /\ InYield' = InYield /\ Dying' = Dying
      /\ UNCHANGED <<next, running, state, kernel_stack, page_dir, stacks, dirs, reaping>>
      /\ UNCHANGED <<flow, at, stk, cr3, tss, regs, top>>
  BY DEF Ring, Stack0, InYield, Dying, procVars, cpu, vars
<1>. USE DEF SInv
<1>2. TypeOK'
  BY <1>1 DEF TypeOK
<1>3. RingOK'
  BY <1>1 DEF RingOK
<1>4. ContextOwn' /\ FramesIntact' /\ AddressSpaces' /\ SavedOK'
  BY <1>1 DEF ContextOwn, FramesIntact, AddressSpaces, SavedOK
<1>5. CpuOK' /\ StackOK' /\ TssOK' /\ PendingOK'
  BY <1>1 DEF CpuOK, StackOK, TssOK, PendingOK
<1>. QED  BY <1>2, <1>3, <1>4, <1>5

-----------------------------------------------------------------------------
(* The timer. *)

LEMMA TickUser == SInv /\ tick_user => SInv'
<1>. SUFFICES ASSUME SInv, tick_user  PROVE SInv'
  OBVIOUS
<1>1. at = "user" /\ Trap /\ yield("tail", tss) /\ ~InYield
  BY DEF tick_user, InYield
<1>2. /\ top' \in [Stacks -> Tasks] /\ top'[tss] = flow
      /\ \A t \in Ring \ {flow} : top'[regs[t].stk] = t
  BY <1>1, TrapKeeps
<1>3. tss \in Stacks /\ flow \in Ring /\ IF flow = 0 THEN tss = Stack0 ELSE tss = kernel_stack[flow]
  BY <1>1, TrapPrivate
<1>4. CASE next[running] # running
  BY <1>1, <1>2, <1>3, <1>4, YieldKeeps
<1>5. CASE next[running] = running
  <2>1. UNCHANGED <<next, running, procVars, cpu, tss, regs>>
    BY <1>1, <1>5 DEF yield
  <2>. QED
    BY <2>1, <1>1, <1>2 DEF SInv, TypeOK, RingOK, ContextOwn, FramesIntact, AddressSpaces, CpuOK,
       SavedOK, StackOK, TssOK, PendingOK, Ring, Stack0, InYield, Dying, procVars, cpu
<1>. QED  BY <1>4, <1>5

LEMMA TickKernel == SInv /\ tick_kernel => SInv'
<1>. SUFFICES ASSUME SInv, tick_kernel  PROVE SInv'
  OBVIOUS
<1>1. /\ at \in {"tail", "wait", "reap", "hlt", "exit"} /\ yield(at, stk) /\ top' = top /\ ~InYield
  BY DEF tick_kernel, InYield
<1>2. /\ top' \in [Stacks -> Tasks] /\ stk \in Stacks
      /\ \A t \in Ring \ {flow} : top'[regs[t].stk] = t
  BY <1>1 DEF SInv, TypeOK, FramesIntact
<1>3. flow \in Ring => /\ top'[stk] = flow
                       /\ at # "exit" /\ (at = "hlt" => flow = 0)
                       /\ at = "reap" => reaping[flow] # 0
                       /\ IF flow = 0 THEN stk = Stack0 ELSE stk = kernel_stack[flow]
  BY <1>1 DEF SInv, TssOK, CpuOK, PendingOK, Stack0, Ring, Dying
<1>4. CASE next[running] # running
  BY <1>1, <1>2, <1>3, <1>4, YieldKeeps
<1>5. CASE next[running] = running
  <2>1. UNCHANGED vars
    BY <1>1, <1>5 DEF yield, vars
  <2>. QED  BY <2>1, Stutters
<1>. QED  BY <1>4, <1>5

-----------------------------------------------------------------------------
(* The two halves of a yield with interrupts on. *)

LEMMA YieldAdvance == SInv /\ yield_advance => SInv'
<1>. SUFFICES ASSUME SInv, yield_advance  PROVE SInv'
  OBVIOUS
<1>. USE DEF SInv
<1>1. /\ at \in {"wait", "exit"} /\ next[running] # running /\ running' = next[running]
      /\ tss' = TssFor(next[running]) /\ at' = (IF at = "wait" THEN "wait_sw" ELSE "exit_sw")
      /\ UNCHANGED <<next, procVars, flow, stk, cr3, regs, top>> /\ ~InYield
  BY DEF yield_advance, InYield
<1>2. running = flow /\ running' \in Ring \ {flow} /\ running' \in Tasks
  BY <1>1, NextWaits DEF Ring
<1>3. tss' \in 1 .. stacks /\ (running' # 0 => tss' = kernel_stack[running'])
  <2>1. CASE running' = 0
    BY <2>1, <1>1, <1>2 DEF TssFor, TssOK
  <2>2. CASE running' # 0
    <3>1. kernel_stack[running'] \in 2 .. stacks /\ stacks \in Nat
      BY <2>2, <1>2 DEF StackOK, TypeOK
    <3>. QED  BY <3>1, <2>2, <1>1 DEF TssFor
  <2>. QED  BY <2>1, <2>2
<1>4. /\ Ring' = Ring /\ UNCHANGED <<next, state, kernel_stack, page_dir, stacks, dirs, reaping>>
      /\ UNCHANGED <<flow, stk, cr3, regs, top>>
  BY <1>1 DEF Ring, procVars
<1>5. TypeOK'
  BY <1>1, <1>2, <1>3, <1>4, SchedAssumption DEF TypeOK, Locations, Stacks, HaltStack
<1>6. RingOK' /\ CpuOK'
  BY <1>1, <1>2, <1>4 DEF RingOK, CpuOK, InYield, Dying
<1>7. ContextOwn' /\ FramesIntact' /\ SavedOK' /\ AddressSpaces'
  BY <1>4 DEF ContextOwn, FramesIntact, SavedOK, AddressSpaces
<1>8. Stack0' = Stack0
  BY <1>1, <1>4 DEF Stack0
<1>9. StackOK'
  BY <1>4, <1>8 DEF StackOK
<1>10. TssOK' /\ PendingOK'
  BY <1>1, <1>3, <1>4 DEF TssOK, PendingOK, InYield
<1>. QED  BY <1>5, <1>6, <1>7, <1>9, <1>10

LEMMA YieldSwitch == SInv /\ yield_switch => SInv'
<1>. SUFFICES ASSUME SInv, yield_switch  PROVE SInv'
  OBVIOUS
<1>. USE DEF SInv
<1>. DEFINE a == IF at = "wait_sw" THEN "wait" ELSE "exit"
<1>1. /\ InYield /\ switch_task(flow, running, a, stk, cr3)
      /\ UNCHANGED <<next, running, procVars, tss, top>>
  BY DEF yield_switch
<1>2. running \in Ring \ {flow} /\ running' = running /\ UNCHANGED <<next, procVars>> /\ top' = top
  BY <1>1 DEF CpuOK
<1>3. tss' \in 1 .. stacks /\ (running # 0 => tss' = kernel_stack[running])
  BY <1>1 DEF TssOK, InYield
<1>4. top' \in [Stacks -> Tasks] /\ stk \in Stacks /\ \A t \in Ring \ {flow} : top'[regs[t].stk] = t
  BY <1>2 DEF TypeOK, FramesIntact
<1>5. flow \in Ring => /\ top'[stk] = flow /\ a = "wait"
                       /\ IF flow = 0 THEN stk = Stack0 ELSE stk = kernel_stack[flow]
  BY <1>1, <1>2 DEF TssOK, CpuOK, Stack0, Ring, Dying, InYield
<1>6. a \in {"tail", "wait", "reap", "hlt", "exit"}
  OBVIOUS
<1>. HIDE DEF a
<1>. QED  BY <1>1, <1>2, <1>3, <1>4, <1>5, <1>6, SwitchKeeps

-----------------------------------------------------------------------------
(* Returns to user mode, and the reaping of zombies. *)

\* iret pops the flow's own frame, onto a stack that will be its own.
LEMMA IretKeeps == SInv /\ iret /\ TssPrivate => SInv'
<1>. SUFFICES ASSUME SInv, iret, TssPrivate  PROVE SInv'
  OBVIOUS
<1>. USE DEF SInv
<1>1. /\ at \in {"tail", "start"} /\ flow' = flow /\ at' = "user"
      /\ UNCHANGED <<next, running, procVars, stk, cr3, tss, regs, top>>
  BY DEF iret, TssOK
<1>2. /\ Ring' = Ring /\ UNCHANGED <<next, state, kernel_stack, page_dir, stacks, dirs, reaping>>
      /\ UNCHANGED <<running, stk, cr3, tss, regs, top>>
  BY <1>1 DEF Ring, procVars
<1>3. flow \in Ring /\ running = flow
  BY <1>1 DEF CpuOK, InYield, Dying
<1>4. TypeOK'
  BY <1>1, <1>2 DEF TypeOK, Locations
<1>5. RingOK' /\ CpuOK'
  BY <1>1, <1>2, <1>3 DEF RingOK, CpuOK, InYield, Dying
<1>6. ContextOwn' /\ FramesIntact' /\ SavedOK' /\ AddressSpaces' /\ PendingOK'
  BY <1>1, <1>2 DEF ContextOwn, FramesIntact, SavedOK, AddressSpaces, PendingOK
<1>7. StackOK'
  <2>1. CASE flow # 0
    <3>1. Stack0' = Stack0
      BY <2>1, <1>1, <1>2 DEF Stack0
    <3>. QED  BY <3>1, <1>2 DEF StackOK
  <2>2. CASE flow = 0
    <3>1. Stack0' = tss /\ tss \in 1 .. stacks
      BY <2>2, <1>1, <1>2 DEF Stack0, TssOK
    <3>. QED  BY <3>1, <2>2, <1>2 DEF StackOK, TssPrivate
  <2>. QED  BY <2>1, <2>2
<1>8. TssOK'
  BY <1>1, <1>2 DEF TssOK, InYield
<1>. QED  BY <1>4, <1>5, <1>6, <1>7, <1>8

\* A zombie is neither on the ring nor on the CPU: freeing its slot touches nobody,
\* and no other reaper has its slot in hand.
LEMMA ReapableKeeps ==
  ASSUME SInv, at \in {"user", "wait"}, NEW z \in Tasks, Reapable(z),
         state' = [state EXCEPT ![z] = "FREE"]
  PROVE  /\ z \notin Ring /\ Ring' = Ring /\ z # flow /\ z # 0
         /\ state' \in [Tasks -> {"FREE", "RUN", "ZOMBIE"}]
         /\ state'[z] = "FREE" /\ \A t \in Tasks \ {z} : state'[t] = state[t]
         /\ \A t \in Tasks : reaping[t] # 0 => state'[reaping[t]] = "FREE"
<1>. USE DEF SInv, Reapable, Ring
<1>1. running = flow /\ z # running /\ state[z] = "ZOMBIE" /\ 0 \in Ring
  BY DEF CpuOK, InYield, RingOK
<1>. QED  BY <1>1 DEF TypeOK, PendingOK

LEMMA WaitAtOnce ==
  ASSUME SInv, NEW z \in Tasks, wait_at_once(z)
  PROVE  SInv'
<1>. USE DEF SInv
<1>1. /\ at = "user" /\ Reapable(z) /\ state' = [state EXCEPT ![z] = "FREE"]
      /\ kernel_stack' = [kernel_stack EXCEPT ![z] = 0] /\ Trap /\ ~InYield
      /\ UNCHANGED <<next, running, page_dir, stacks, dirs, reaping, cpu, tss, regs>>
  BY DEF wait_at_once, InYield
<1>2. /\ z \notin Ring /\ Ring' = Ring /\ z # flow /\ z # 0
      /\ state' \in [Tasks -> {"FREE", "RUN", "ZOMBIE"}]
      /\ state'[z] = "FREE" /\ \A t \in Tasks \ {z} : state'[t] = state[t]
      /\ \A t \in Tasks : reaping[t] # 0 => state'[reaping[t]] = "FREE"
  BY <1>1, ReapableKeeps
<1>3. top' \in [Stacks -> Tasks] /\ \A t \in Ring \ {flow} : top'[regs[t].stk] = t
  BY <1>1, TrapKeeps
<1>4. /\ UNCHANGED <<flow, at, stk, cr3>> /\ flow \in Tasks /\ 0 \in Tasks
      /\ kernel_stack' \in [Tasks -> Stacks \cup {0}]
  BY <1>1, SchedAssumption DEF cpu, TypeOK, Tasks
<1>5. \A t \in Ring \cup {0, flow} : kernel_stack'[t] = kernel_stack[t]
  BY <1>1, <1>2, <1>4 DEF Ring, TypeOK
<1>6. TypeOK'
  BY <1>1, <1>2, <1>3, <1>4 DEF TypeOK
<1>7. RingOK' /\ CpuOK'
  BY <1>1, <1>2, <1>4 DEF RingOK, CpuOK, InYield, Dying
<1>8. ContextOwn' /\ FramesIntact' /\ AddressSpaces'
  BY <1>1, <1>2, <1>3, <1>4 DEF ContextOwn, FramesIntact, AddressSpaces
<1>9. SavedOK' /\ PendingOK'
  BY <1>1, <1>2, <1>4, <1>5 DEF SavedOK, PendingOK
<1>10. Stack0' = Stack0
  BY <1>1, <1>4 DEF Stack0
<1>11. StackOK'
  BY <1>1, <1>2, <1>5, <1>10 DEF StackOK
<1>12. TssOK'
  BY <1>1, <1>2, <1>4, <1>5 DEF TssOK, InYield
<1>. QED  BY <1>6, <1>7, <1>8, <1>9, <1>11, <1>12

\* The first store of a wait that has yielded: the slot is free, its stack still named.
LEMMA WaitFree ==
  ASSUME SInv, NEW z \in Tasks, wait_free(z)
  PROVE  SInv'
<1>. USE DEF SInv
<1>1. /\ at = "wait" /\ Reapable(z) /\ state' = [state EXCEPT ![z] = "FREE"]
      /\ reaping' = [reaping EXCEPT ![flow] = z] /\ at' = "reap" /\ ~InYield
      /\ UNCHANGED <<next, running, kernel_stack, page_dir, stacks, dirs, flow, stk, cr3, tss,
                     regs, top>>
  BY DEF wait_free, InYield
<1>2. /\ z \notin Ring /\ Ring' = Ring /\ z # flow /\ z # 0
      /\ state' \in [Tasks -> {"FREE", "RUN", "ZOMBIE"}]
      /\ state'[z] = "FREE" /\ \A t \in Tasks \ {z} : state'[t] = state[t]
      /\ \A t \in Tasks : reaping[t] # 0 => state'[reaping[t]] = "FREE"
  BY <1>1, ReapableKeeps
<1>3. flow \in Ring /\ running = flow /\ flow \in Tasks
  BY <1>1 DEF CpuOK, InYield, Dying, TypeOK
<1>4. /\ reaping' \in [Tasks -> Tasks] /\ reaping'[flow] = z
      /\ \A t \in Tasks \ {flow} : reaping'[t] = reaping[t]
  BY <1>1, <1>3 DEF TypeOK
<1>5. TypeOK'
  BY <1>1, <1>2, <1>4 DEF TypeOK, Locations
<1>6. RingOK' /\ CpuOK'
  BY <1>1, <1>2, <1>3 DEF RingOK, CpuOK, InYield, Dying
<1>7. ContextOwn' /\ FramesIntact' /\ SavedOK' /\ AddressSpaces'
  BY <1>1, <1>2 DEF ContextOwn, FramesIntact, SavedOK, AddressSpaces
<1>8. StackOK'
  <2>1. Stack0' = Stack0
    BY <1>1 DEF Stack0
  <2>. QED  BY <2>1, <1>1, <1>2 DEF StackOK
<1>9. TssOK'
  BY <1>1 DEF TssOK, InYield
<1>10. PendingOK'
  <2>1. \A t \in Tasks : reaping'[t] # 0 => state'[reaping'[t]] = "FREE"
    BY <1>2, <1>4
  <2>2. \A t \in Ring \ {flow} : regs[t].at = "reap" => reaping'[t] # 0
    BY <1>4 DEF PendingOK, Ring
  <2>. QED  BY <2>1, <2>2, <1>1, <1>2, <1>4 DEF PendingOK
<1>. QED  BY <1>5, <1>6, <1>7, <1>8, <1>9, <1>10

\* The second store: the slot is still free, so the stack it loses is nobody's.
LEMMA WaitClear == SInv /\ wait_clear => SInv'
<1>. SUFFICES ASSUME SInv, wait_clear  PROVE SInv'
  OBVIOUS
<1>. USE DEF SInv
<1>1. /\ at = "reap" /\ kernel_stack' = [kernel_stack EXCEPT ![reaping[flow]] = 0]
      /\ reaping' = [reaping EXCEPT ![flow] = 0] /\ at' = "tail" /\ ~InYield
      /\ UNCHANGED <<next, running, state, page_dir, stacks, dirs, flow, stk, cr3, tss, regs, top>>
  BY DEF wait_clear, InYield
<1>2. flow \in Ring /\ running = flow /\ flow \in Tasks /\ Ring' = Ring /\ 0 \in Tasks
  BY <1>1, SchedAssumption DEF CpuOK, InYield, Dying, TypeOK, Ring, Tasks
<1>3. PICK z \in Tasks : z = reaping[flow]
  BY <1>2 DEF TypeOK
<1>4. z \notin Ring /\ z # 0
  BY <1>1, <1>2, <1>3 DEF PendingOK, Ring
<1>5. /\ kernel_stack' \in [Tasks -> Stacks \cup {0}]
      /\ \A t \in Ring \cup {0} : kernel_stack'[t] = kernel_stack[t]
  BY <1>1, <1>2, <1>3, <1>4 DEF TypeOK, Ring
<1>6. /\ reaping' \in [Tasks -> Tasks] /\ reaping'[flow] = 0
      /\ \A t \in Tasks \ {flow} : reaping'[t] = reaping[t]
  BY <1>1, <1>2 DEF TypeOK
<1>7. TypeOK'
  BY <1>1, <1>5, <1>6 DEF TypeOK, Locations
<1>8. RingOK' /\ CpuOK'
  BY <1>1, <1>2 DEF RingOK, CpuOK, InYield, Dying
<1>9. ContextOwn' /\ FramesIntact' /\ SavedOK' /\ AddressSpaces'
  BY <1>1, <1>2, <1>5 DEF ContextOwn, FramesIntact, SavedOK, AddressSpaces
<1>10. StackOK'
  <2>1. Stack0' = Stack0
    BY <1>1 DEF Stack0
  <2>. QED  BY <2>1, <1>1, <1>2, <1>5 DEF StackOK
<1>11. TssOK'
  BY <1>1, <1>2, <1>5 DEF TssOK, InYield
<1>12. PendingOK'
  <2>1. \A t \in Tasks : reaping'[t] # 0 => state[reaping'[t]] = "FREE"
    BY <1>6 DEF PendingOK
  <2>2. \A t \in Ring \ {flow} : regs[t].at = "reap" => reaping'[t] # 0
    BY <1>6 DEF PendingOK, Ring
  <2>. QED  BY <2>1, <2>2, <1>1, <1>2 DEF PendingOK
<1>. QED  BY <1>7, <1>8, <1>9, <1>10, <1>11, <1>12

LEMMA WaitYield == SInv /\ wait_yield => SInv'
<1>. SUFFICES ASSUME SInv, wait_yield  PROVE SInv'
  OBVIOUS
<1>1. at = "user" /\ Ring # {running} /\ Trap /\ yield("wait", tss) /\ ~InYield
  BY DEF wait_yield, InYield
<1>2. /\ top' \in [Stacks -> Tasks] /\ top'[tss] = flow
      /\ \A t \in Ring \ {flow} : top'[regs[t].stk] = t
  BY <1>1, TrapKeeps
<1>3. tss \in Stacks /\ IF flow = 0 THEN tss = Stack0 ELSE tss = kernel_stack[flow]
  BY <1>1, TrapPrivate
<1>4. next[running] # running
  BY <1>1, NextWaits
<1>. QED  BY <1>1, <1>2, <1>3, <1>4, YieldKeeps

-----------------------------------------------------------------------------
(* exec and exit. *)

\* A free directory exists and is not the boot directory.
LEMMA NewDir ==
  ASSUME SInv, FreeDirs # {}
  PROVE  Min(FreeDirs) \in Dirs \ dirs /\ Min(FreeDirs) # kernel_dir
<1>1. FreeDirs \in SUBSET Nat
  BY SchedAssumption DEF FreeDirs, Dirs
<1>. QED  BY <1>1, MinIsLeast DEF FreeDirs, SInv, AddressSpaces

LEMMA Execve == SInv /\ process_execve => SInv'
<1>. SUFFICES ASSUME SInv, process_execve  PROVE SInv'
  OBVIOUS
<1>. USE DEF SInv
<1>. DEFINE d == Min(FreeDirs)
<1>1. /\ at = "user" /\ FreeDirs # {} /\ page_dir' = [page_dir EXCEPT ![running] = d]
      /\ dirs' = (dirs \cup {d}) \ Drop(page_dir[running])
      /\ regs' = [regs EXCEPT ![running].cr3 = d] /\ cr3' = d
      /\ tss' = kernel_stack[running] /\ Trap
      /\ UNCHANGED <<next, running, state, kernel_stack, stacks, reaping, flow, at, stk>> /\ ~InYield
  BY DEF process_execve, InYield
<1>2. d \in Dirs \ dirs /\ d # kernel_dir
  BY <1>1, NewDir
<1>. HIDE DEF d
<1>3. running = flow /\ flow \in Ring /\ Ring' = Ring /\ Ring \subseteq Tasks /\ flow \in Tasks
  BY <1>1 DEF CpuOK, Dying, Ring
<1>4. /\ top' \in [Stacks -> Tasks] /\ top'[tss] = flow
      /\ \A t \in Ring \ {flow} : top'[regs[t].stk] = t
  BY <1>1, TrapKeeps
<1>5. /\ \A t \in Tasks \ {flow} : regs'[t] = regs[t] /\ page_dir'[t] = page_dir[t]
      /\ page_dir'[flow] = d /\ page_dir' \in [Tasks -> Dirs]
      /\ regs' \in [Tasks -> [flow : Tasks, at : Locations, stk : Stacks, cr3 : Dirs]]
  BY <1>1, <1>2, <1>3 DEF TypeOK
<1>6. tss' \in 1 .. stacks /\ tss' = kernel_stack[flow] /\ tss' \in Stacks
  BY <1>1, <1>3, SchedAssumption DEF StackOK, TypeOK, Stacks, HaltStack
<1>7. TypeOK'
  BY <1>1, <1>2, <1>4, <1>5, <1>6 DEF TypeOK, Drop
<1>8. RingOK' /\ CpuOK'
  BY <1>1, <1>3 DEF RingOK, CpuOK, InYield, Dying
<1>9. ContextOwn' /\ FramesIntact' /\ SavedOK'
  BY <1>1, <1>3, <1>4, <1>5 DEF ContextOwn, FramesIntact, SavedOK
<1>10. AddressSpaces'
  <2>1. dirs' = {kernel_dir} \cup {page_dir'[t] : t \in Ring}
    <3>1. ASSUME NEW e \in dirs'  PROVE e \in {kernel_dir} \cup {page_dir'[t] : t \in Ring}
      <4>1. CASE e = d
        BY <4>1, <1>3, <1>5
      <4>2. CASE e # d /\ e # kernel_dir
        <5>1. PICK t \in Ring : e = page_dir[t]
          BY <4>2, <3>1, <1>1 DEF AddressSpaces
        <5>2. t # flow
          BY <5>1, <4>2, <3>1, <1>1, <1>3 DEF Drop
        <5>. QED  BY <5>1, <5>2, <1>3, <1>5
      <4>. QED  BY <4>1, <4>2
    <3>2. kernel_dir \in dirs'
      BY <1>1 DEF AddressSpaces, Drop
    <3>3. ASSUME NEW t \in Ring  PROVE page_dir'[t] \in dirs'
      <4>1. CASE t = flow
        BY <4>1, <1>1, <1>2, <1>3, <1>5 DEF Drop, AddressSpaces
      <4>2. CASE t # flow
        BY <4>2, <1>1, <1>3, <1>5 DEF Drop, AddressSpaces
      <4>. QED  BY <4>1, <4>2
    <3>. QED  BY <3>1, <3>2, <3>3
  <2>2. \A t, u \in Ring : page_dir'[t] = page_dir'[u] => t = u \/ page_dir'[t] = kernel_dir
    BY <1>2, <1>3, <1>5 DEF AddressSpaces
  <2>. QED  BY <2>1, <2>2, <1>1, <1>3, <1>5 DEF AddressSpaces
<1>11. StackOK'
  <2>1. CASE flow # 0
    <3>1. Stack0' = Stack0
      BY <2>1, <1>1, <1>3, <1>5 DEF Stack0, RingOK
    <3>. QED  BY <3>1, <1>1, <1>3 DEF StackOK
  <2>2. CASE flow = 0
    <3>1. Stack0' = 1
      BY <2>2, <1>1, <1>3 DEF Stack0, StackOK
    <3>. QED  BY <3>1, <1>1, <1>3, <1>6, <2>2 DEF StackOK
  <2>. QED  BY <2>1, <2>2
<1>12. TssOK' /\ PendingOK'
  BY <1>1, <1>3, <1>5, <1>6 DEF TssOK, PendingOK, InYield
<1>. QED  BY <1>7, <1>8, <1>9, <1>10, <1>11, <1>12

\* task_remove closes the ring over the task that leaves it.
LEMMA RemoveKeepsRing ==
  ASSUME RingOK, TypeOK, running \in Ring, running # 0,
         next' = task_remove(running), state' = [state EXCEPT ![running] = "ZOMBIE"]
  PROVE  /\ Ring' = Ring \ {running} /\ next' \in [Tasks -> Tasks] /\ next'[running] \in Ring'
         /\ 0 \in Ring' /\ \A t \in Ring' : next'[t] \in Ring'
         /\ \A t, u \in Ring' : next'[t] = next'[u] => t = u
         /\ \A S \in SUBSET Ring' : S # {} /\ (\A t \in S : next'[t] \in S) => S = Ring'
<1>1. Ring' = Ring \ {running} /\ Ring \subseteq Tasks
  BY DEF Ring, TypeOK
<1>2. next[running] \in Ring /\ next[running] # running
  <2>1. next[running] \in Ring
    BY DEF RingOK
  <2>2. ASSUME next[running] = running  PROVE FALSE
    <3>1. {running} \in SUBSET Ring /\ \A t \in {running} : next[t] \in {running}
      BY <2>2
    <3>2. {running} = Ring
      BY <3>1 DEF RingOK
    <3>. QED  BY <3>2 DEF RingOK
  <2>. QED  BY <2>1, <2>2
<1>3. \A t \in Ring : next'[t] = IF next[t] = running THEN next[running] ELSE next[t]
  BY <1>1 DEF task_remove
<1>4. next' \in [Tasks -> Tasks] /\ next'[running] = next[running]
  BY <1>1, <1>2 DEF task_remove, TypeOK
<1>5. 0 \in Ring' /\ \A t \in Ring' : next'[t] \in Ring'
  BY <1>1, <1>2, <1>3 DEF RingOK
<1>6. \A t, u \in Ring' : next'[t] = next'[u] => t = u
  BY <1>1, <1>3 DEF RingOK
<1>7. ASSUME NEW S \in SUBSET Ring', S # {}, \A t \in S : next'[t] \in S  PROVE S = Ring'
  <2>1. CASE \E p \in S : next[p] = running
    <3>1. PICK p \in S : next[p] = running
      BY <2>1
    <3>2. next[running] \in S
      BY <3>1, <1>1, <1>3, <1>7
    <3>3. \A t \in S \cup {running} : next[t] \in S \cup {running}
      BY <3>2, <1>1, <1>3, <1>7
    <3>4. S \cup {running} \in SUBSET Ring
      BY <1>1
    <3>5. S \cup {running} = Ring
      BY <3>3, <3>4, <1>7 DEF RingOK
    <3>. QED  BY <3>5, <1>1
  <2>2. CASE \A p \in S : next[p] # running
    <3>1. S \in SUBSET Ring /\ \A t \in S : next[t] \in S
      BY <2>2, <1>1, <1>3, <1>7
    <3>2. S = Ring
      BY <3>1, <1>7 DEF RingOK
    <3>. QED  BY <3>2, <1>1
  <2>. QED  BY <2>1, <2>2
<1>. QED  BY <1>1, <1>2, <1>4, <1>5, <1>6, <1>7

LEMMA Exit == SInv /\ process_exit => SInv'
<1>. SUFFICES ASSUME SInv, process_exit  PROVE SInv'
  OBVIOUS
<1>. USE DEF SInv
<1>1. /\ at = "user" /\ running # 0 /\ state' = [state EXCEPT ![running] = "ZOMBIE"]
      /\ page_dir' = [page_dir EXCEPT ![running] = kernel_dir]
      /\ regs' = [regs EXCEPT ![running].cr3 = kernel_dir] /\ cr3' = kernel_dir
      /\ dirs' = dirs \ Drop(page_dir[running]) /\ next' = task_remove(running)
      /\ at' = "exit" /\ stk' = tss /\ Trap
      /\ UNCHANGED <<running, kernel_stack, stacks, reaping, flow, tss>>
  BY DEF process_exit
<1>2. running = flow /\ flow \in Ring /\ flow \in Tasks /\ tss \in Stacks
  BY <1>1, TrapPrivate DEF TypeOK
<1>3. /\ Ring' = Ring \ {flow} /\ next' \in [Tasks -> Tasks] /\ next'[flow] \in Ring'
      /\ 0 \in Ring' /\ \A t \in Ring' : next'[t] \in Ring'
      /\ \A t, u \in Ring' : next'[t] = next'[u] => t = u
      /\ \A S \in SUBSET Ring' : S # {} /\ (\A t \in S : next'[t] \in S) => S = Ring'
  BY <1>1, <1>2, RemoveKeepsRing
<1>4. top' \in [Stacks -> Tasks] /\ \A t \in Ring \ {flow} : top'[regs[t].stk] = t
  BY <1>1, TrapKeeps
<1>5. /\ \A t \in Tasks \ {flow} : regs'[t] = regs[t] /\ page_dir'[t] = page_dir[t]
      /\ page_dir'[flow] = kernel_dir /\ page_dir' \in [Tasks -> Dirs]
      /\ regs' \in [Tasks -> [flow : Tasks, at : Locations, stk : Stacks, cr3 : Dirs]]
      /\ kernel_dir \in Dirs /\ Ring \subseteq Tasks
      /\ state' \in [Tasks -> {"FREE", "RUN", "ZOMBIE"}] /\ state'[flow] = "ZOMBIE"
  BY <1>1, <1>2, SchedAssumption DEF TypeOK, Dirs, kernel_dir, Ring
<1>6. TypeOK'
  BY <1>1, <1>2, <1>3, <1>4, <1>5 DEF TypeOK, Locations
<1>7. RingOK'
  BY <1>1, <1>2, <1>3 DEF RingOK
<1>8. CpuOK'
  BY <1>1, <1>2, <1>5 DEF CpuOK, InYield, Dying
<1>9. ContextOwn' /\ FramesIntact' /\ SavedOK'
  BY <1>1, <1>3, <1>4, <1>5 DEF ContextOwn, FramesIntact, SavedOK
<1>10. AddressSpaces'
  <2>1. dirs' = {kernel_dir} \cup {page_dir'[t] : t \in Ring'}
    <3>1. ASSUME NEW e \in dirs', e # kernel_dir  PROVE \E t \in Ring' : e = page_dir'[t]
      <4>1. PICK t \in Ring : e = page_dir[t]
        BY <3>1, <1>1 DEF AddressSpaces
      <4>2. t # flow
        BY <4>1, <3>1, <1>1, <1>2 DEF Drop
      <4>. QED  BY <4>1, <4>2, <1>3, <1>5
    <3>2. kernel_dir \in dirs'
      BY <1>1 DEF AddressSpaces, Drop
    <3>3. ASSUME NEW t \in Ring'  PROVE page_dir'[t] \in dirs'
      BY <1>1, <1>2, <1>3, <1>5 DEF Drop, AddressSpaces
    <3>. QED  BY <3>1, <3>2, <3>3
  <2>2. \A t, u \in Ring' : page_dir'[t] = page_dir'[u] => t = u \/ page_dir'[t] = kernel_dir
    BY <1>3, <1>5 DEF AddressSpaces
  <2>. QED  BY <2>1, <2>2, <1>1, <1>3, <1>5 DEF AddressSpaces
<1>11. StackOK'
  <2>1. Stack0' = Stack0
    BY <1>1, <1>2, <1>3, <1>5 DEF Stack0
  <2>. QED  BY <2>1, <1>1, <1>3 DEF StackOK
<1>12. TssOK'
  BY <1>1 DEF TssOK, InYield
<1>13. PendingOK'
  <2>1. \A t \in Tasks : reaping[t] # 0 => state'[reaping[t]] = "FREE"
    BY <1>1, <1>2 DEF PendingOK, TypeOK, Ring
  <2>. QED  BY <2>1, <1>1, <1>3, <1>5 DEF PendingOK
<1>. QED  BY <1>6, <1>7, <1>8, <1>9, <1>10, <1>11, <1>12, <1>13

LEMMA InitExit == SInv /\ init_exit => SInv'
<1>. SUFFICES ASSUME SInv, init_exit  PROVE SInv'
  OBVIOUS
<1>. USE DEF SInv
<1>1. /\ at = "user" /\ running = 0 /\ at' = "hlt" /\ stk' = tss /\ tss' = HaltStack /\ Trap
      /\ UNCHANGED <<next, running, procVars, flow, cr3, regs>>
  BY DEF init_exit
<1>2. flow = 0 /\ flow \in Ring /\ tss \in Stacks /\ tss = Stack0 /\ HaltStack \in Stacks
  BY <1>1, TrapPrivate, SchedAssumption DEF Stacks, HaltStack
<1>3. Ring' = Ring /\ UNCHANGED <<next, state, kernel_stack, page_dir, stacks, dirs, reaping>>
  BY <1>1 DEF Ring, procVars
<1>4. /\ top' \in [Stacks -> Tasks] /\ top'[tss] = flow
      /\ \A t \in Ring \ {flow} : top'[regs[t].stk] = t
  BY <1>1, TrapKeeps
<1>5. TypeOK'
  BY <1>1, <1>2, <1>3, <1>4 DEF TypeOK, Locations
<1>6. RingOK' /\ CpuOK'
  BY <1>1, <1>2, <1>3 DEF RingOK, CpuOK, InYield, Dying
<1>7. ContextOwn' /\ FramesIntact' /\ SavedOK' /\ AddressSpaces'
  BY <1>1, <1>3, <1>4 DEF ContextOwn, FramesIntact, SavedOK, AddressSpaces
<1>8. Stack0' = Stack0
  BY <1>1, <1>2 DEF Stack0
<1>9. StackOK'
  BY <1>3, <1>8 DEF StackOK
<1>10. TssOK' /\ PendingOK'
  BY <1>1, <1>2, <1>3, <1>4 DEF TssOK, PendingOK, InYield
<1>. QED  BY <1>5, <1>6, <1>7, <1>9, <1>10

-----------------------------------------------------------------------------
(* fork. *)

\* task_add puts a new task into the ring, right after the running one.
LEMMA AddKeepsRing ==
  ASSUME RingOK, TypeOK, running \in Ring, NEW c \in Tasks \ Ring,
         next' = task_add(c), state' = [state EXCEPT ![c] = "RUN"]
  PROVE  /\ Ring' = Ring \cup {c} /\ next' \in [Tasks -> Tasks]
         /\ 0 \in Ring' /\ \A t \in Ring' : next'[t] \in Ring'
         /\ \A t, u \in Ring' : next'[t] = next'[u] => t = u
         /\ \A S \in SUBSET Ring' : S # {} /\ (\A t \in S : next'[t] \in S) => S = Ring'
<1>1. Ring' = Ring \cup {c} /\ Ring \subseteq Tasks
  BY DEF Ring, TypeOK
<1>2. /\ next' \in [Tasks -> Tasks] /\ next'[running] = c /\ next'[c] = next[running]
      /\ \A t \in Ring \ {running} : next'[t] = next[t]
  BY <1>1 DEF task_add, TypeOK
<1>3. \A t \in Ring : next[t] \in Ring /\ next[t] # c
  BY DEF RingOK
<1>4. 0 \in Ring' /\ \A t \in Ring' : next'[t] \in Ring'
  BY <1>1, <1>2, <1>3 DEF RingOK
<1>5. \A t, u \in Ring' : next'[t] = next'[u] => t = u
  <2>. SUFFICES ASSUME NEW t \in Ring', NEW u \in Ring', next'[t] = next'[u]  PROVE t = u
    OBVIOUS
  <2>1. CASE t = running \/ u = running
    BY <2>1, <1>1, <1>2, <1>3
  <2>2. CASE t # running /\ u # running
    <3>. DEFINE old(x) == IF x = c THEN running ELSE x
    <3>1. old(t) \in Ring /\ old(u) \in Ring /\ next[old(t)] = next'[t] /\ next[old(u)] = next'[u]
      BY <2>2, <1>1, <1>2
    <3>2. old(t) = old(u)
      BY <3>1 DEF RingOK
    <3>. QED  BY <3>2, <2>2
  <2>. QED  BY <2>1, <2>2
<1>6. ASSUME NEW S \in SUBSET Ring', S # {}, \A t \in S : next'[t] \in S  PROVE S = Ring'
  <2>. DEFINE R == S \ {c}
  <2>1. ASSUME NEW t \in R  PROVE next[t] \in R
    <3>1. CASE t = running
      <4>1. c \in S
        BY <3>1, <1>2, <1>6
      <4>. QED  BY <4>1, <3>1, <1>2, <1>3, <1>6
    <3>2. CASE t # running
      BY <3>2, <1>1, <1>2, <1>3, <1>6
    <3>. QED  BY <3>1, <3>2
  <2>2. R # {}
    <3>1. CASE c \in S
      BY <3>1, <1>2, <1>3, <1>6
    <3>2. CASE c \notin S
      BY <3>2, <1>6
    <3>. QED  BY <3>1, <3>2
  <2>3. R \in SUBSET Ring
    BY <1>1
  <2>4. R = Ring
    BY <2>1, <2>2, <2>3 DEF RingOK
  <2>5. c \in S
    BY <2>4, <1>2, <1>6
  <2>. QED  BY <2>4, <2>5, <1>1
<1>. QED  BY <1>1, <1>2, <1>4, <1>5, <1>6

LEMMA Fork == SInv /\ process_fork /\ ~SlotUnsettled => SInv'
<1>. SUFFICES ASSUME SInv, process_fork, ~SlotUnsettled  PROVE SInv'
  OBVIOUS
<1>. USE DEF SInv
<1>. DEFINE c == Min(FreeSlots)
            d == Min(FreeDirs)
<1>1. /\ at = "user" /\ FreeSlots # {} /\ stacks < HeapStacks /\ FreeDirs # {}
      /\ state' = [state EXCEPT ![c] = "RUN"]
      /\ kernel_stack' = [kernel_stack EXCEPT ![c] = stacks + 1]
      /\ page_dir' = [page_dir EXCEPT ![c] = d] /\ dirs' = dirs \cup {d}
      /\ regs' = [regs EXCEPT ![c] = Context(c, "start", stacks + 1, d)]
      /\ next' = task_add(c) /\ top' = [top EXCEPT ![tss] = flow, ![stacks + 1] = c]
      /\ stacks' = stacks + 1 /\ UNCHANGED <<running, reaping, flow, at, stk, cr3, tss>>
  BY DEF process_fork, HeapLeft, ChildContext, cpu
<1>2. d \in Dirs \ dirs /\ d # kernel_dir
  BY <1>1, NewDir
<1>3. c \in Tasks \ Ring /\ c # 0
  <2>1. FreeSlots \in SUBSET Nat
    BY SchedAssumption DEF FreeSlots, Tasks
  <2>2. c \in FreeSlots
    BY <2>1, <1>1, MinIsLeast
  <2>. QED  BY <2>2 DEF FreeSlots, Ring
<1>settled. \A f \in Tasks : reaping[f] # c
  BY DEF SlotUnsettled
<1>. HIDE DEF c, d
<1>4. /\ tss \in 1 .. stacks /\ tss \in Stacks /\ flow = running /\ flow \in Ring
      /\ \A t \in Ring \ {flow} : regs[t].stk \in 1 .. stacks /\ regs[t].stk # tss
  BY <1>1, TrapPrivate
<1>5. /\ Ring' = Ring \cup {c} /\ next' \in [Tasks -> Tasks]
      /\ 0 \in Ring' /\ \A t \in Ring' : next'[t] \in Ring'
      /\ \A t, u \in Ring' : next'[t] = next'[u] => t = u
      /\ \A S \in SUBSET Ring' : S # {} /\ (\A t \in S : next'[t] \in S) => S = Ring'
  BY <1>1, <1>3, <1>4, AddKeepsRing
<1>6. stacks \in Nat /\ stacks + 1 \in 1 .. HeapStacks /\ stacks + 1 \in Stacks /\ Ring \subseteq Tasks
  BY <1>1, SchedAssumption DEF TypeOK, Stacks, HaltStack, Ring
<1>7. /\ \A t \in Tasks \ {c} : /\ regs'[t] = regs[t] /\ page_dir'[t] = page_dir[t]
                                /\ kernel_stack'[t] = kernel_stack[t] /\ state'[t] = state[t]
      /\ page_dir'[c] = d /\ kernel_stack'[c] = stacks + 1
      /\ regs'[c] = Context(c, "start", stacks + 1, d)
      /\ page_dir' \in [Tasks -> Dirs] /\ kernel_stack' \in [Tasks -> Stacks \cup {0}]
      /\ regs' \in [Tasks -> [flow : Tasks, at : Locations, stk : Stacks, cr3 : Dirs]]
      /\ state' \in [Tasks -> {"FREE", "RUN", "ZOMBIE"}]
  BY <1>1, <1>2, <1>3, <1>6 DEF TypeOK, Context, Locations
<1>8. top' \in [Stacks -> Tasks] /\ top'[stacks + 1] = c
  BY <1>1, <1>3, <1>4, <1>6 DEF TypeOK
<1>9. \A t \in Ring \ {flow} : top'[regs[t].stk] = t
  <2>. SUFFICES ASSUME NEW t \in Ring \ {flow}  PROVE top'[regs[t].stk] = t
    OBVIOUS
  <2>1. regs[t].stk \in Stacks /\ regs[t].stk # tss /\ regs[t].stk # stacks + 1
    BY <1>4, <1>6 DEF TypeOK
  <2>2. top[regs[t].stk] = t
    BY DEF FramesIntact
  <2>. QED  BY <2>1, <2>2, <1>1 DEF TypeOK
<1>10. TypeOK'
  <2>1. dirs' \subseteq Dirs /\ stacks' \in 1 .. HeapStacks
    BY <1>1, <1>2, <1>6 DEF TypeOK
  <2>2. UNCHANGED <<running, reaping, flow, at, stk, cr3, tss>>
    BY <1>1
  <2>. QED  BY <2>1, <2>2, <1>5, <1>7, <1>8 DEF TypeOK
<1>11. RingOK' /\ CpuOK'
  BY <1>1, <1>4, <1>5 DEF RingOK, CpuOK, InYield, Dying
<1>12. ContextOwn' /\ FramesIntact' /\ SavedOK'
  <2>. SUFFICES ASSUME NEW t \in Ring', t # flow
                PROVE  /\ regs'[t].flow = t /\ top'[regs'[t].stk] = t
                       /\ regs'[t].at \in {"start", "tail", "wait", "reap", "hlt"}
                       /\ regs'[t].at = "hlt" => t = 0
                       /\ regs'[t].at = "start" => t # 0
                       /\ t # 0 => regs'[t].stk = kernel_stack'[t]
    BY <1>1 DEF ContextOwn, FramesIntact, SavedOK
  <2>1. CASE t = c
    BY <2>1, <1>3, <1>7, <1>8 DEF Context
  <2>2. CASE t # c
    <3>1. regs'[t] = regs[t] /\ kernel_stack'[t] = kernel_stack[t] /\ t \in Ring \ {flow}
      BY <2>2, <1>5, <1>6, <1>7
    <3>. QED  BY <3>1, <1>9 DEF ContextOwn, SavedOK
  <2>. QED  BY <2>1, <2>2
<1>13. AddressSpaces'
  <2>1. \A t \in Ring : page_dir'[t] = page_dir[t] /\ page_dir[t] \in dirs /\ t # c
    BY <1>3, <1>6, <1>7 DEF AddressSpaces
  <2>2. dirs' = {kernel_dir} \cup {page_dir'[t] : t \in Ring'}
    <3>1. ASSUME NEW e \in dirs', e # kernel_dir  PROVE \E t \in Ring' : e = page_dir'[t]
      <4>1. CASE e = d
        BY <4>1, <1>5, <1>7
      <4>2. CASE e # d
        <5>1. PICK t \in Ring : e = page_dir[t]
          BY <4>2, <3>1, <1>1 DEF AddressSpaces
        <5>. QED  BY <5>1, <2>1, <1>5
      <4>. QED  BY <4>1, <4>2
    <3>2. kernel_dir \in dirs' /\ \A t \in Ring' : page_dir'[t] \in dirs'
      BY <2>1, <1>1, <1>5, <1>7 DEF AddressSpaces
    <3>. QED  BY <3>1, <3>2
  <2>3. \A t, u \in Ring' : page_dir'[t] = page_dir'[u] => t = u \/ page_dir'[t] = kernel_dir
    BY <2>1, <1>2, <1>5, <1>7 DEF AddressSpaces
  <2>4. \A t \in Ring' \ {flow} : regs'[t].cr3 = page_dir'[t]
    <3>1. regs'[c].cr3 = d
      BY <1>7 DEF Context
    <3>. QED  BY <3>1, <2>1, <1>5, <1>6, <1>7 DEF AddressSpaces
  <2>. QED  BY <2>1, <2>2, <2>3, <2>4, <1>1, <1>4 DEF AddressSpaces
<1>14. StackOK'
  <2>1. Stack0' = Stack0 /\ 0 \in Tasks /\ 0 # c
    BY <1>1, <1>3, <1>7, SchedAssumption DEF Stack0, Tasks
  <2>2. \A t \in Ring \ {0} : kernel_stack'[t] = kernel_stack[t] /\ kernel_stack[t] \in 2 .. stacks
    BY <1>3, <1>6, <1>7 DEF StackOK
  <2>3. Stack0' \in 1 .. stacks' /\ Stack0' # stacks + 1 /\ kernel_stack'[0] = 1 /\ stacks + 1 >= 2
    BY <2>1, <1>1, <1>4, <1>6, <1>7 DEF StackOK
  <2>4. \A t \in Ring' \ {0} : kernel_stack'[t] \in 2 .. stacks'
    BY <2>2, <2>3, <1>1, <1>5, <1>6, <1>7
  <2>5. \A t, u \in Ring' \ {0} : kernel_stack'[t] = kernel_stack'[u] => t = u
    BY <2>2, <1>5, <1>6, <1>7 DEF StackOK
  <2>6. \A t \in Ring' \ {0} : kernel_stack'[t] # Stack0'
    BY <2>1, <2>2, <2>3, <1>5, <1>7 DEF StackOK
  <2>. QED  BY <2>3, <2>4, <2>5, <2>6 DEF StackOK
<1>15. TssOK'
  <2>1. kernel_stack'[flow] = kernel_stack[flow]
    BY <1>3, <1>4, <1>6, <1>7
  <2>. QED  BY <2>1, <1>1, <1>4, <1>6 DEF TssOK, InYield
<1>16. PendingOK'
  <2>1. \A t \in Tasks : reaping[t] # 0 => state'[reaping[t]] = "FREE"
    BY <1>7, <1>settled DEF PendingOK, TypeOK
  <2>2. \A t \in Ring' \ {flow} : regs'[t].at = "reap" => reaping[t] # 0
    BY <1>5, <1>6, <1>7 DEF PendingOK, Context
  <2>. QED  BY <2>1, <2>2, <1>1 DEF PendingOK
<1>. QED  BY <1>10, <1>11, <1>12, <1>13, <1>14, <1>15, <1>16

-----------------------------------------------------------------------------
\* Every step of the scheduler keeps the invariant.
LEMMA SchedStep == SInv /\ [QuietNext]_vars => SInv'
<1>. SUFFICES ASSUME SInv, [QuietNext]_vars  PROVE SInv'
  OBVIOUS
<1>1. CASE iret /\ TssPrivate
  BY <1>1, IretKeeps
<1>2. CASE \E z \in Tasks : wait_at_once(z) \/ wait_free(z)
  BY <1>2, WaitAtOnce, WaitFree
<1>3. CASE process_fork /\ ~SlotUnsettled
  BY <1>3, Fork
<1>4. CASE UNCHANGED vars
  BY <1>4, Stutters
<1>. QED
  BY <1>1, <1>2, <1>3, <1>4, TickUser, TickKernel, Execve, Exit, InitExit, WaitYield, WaitClear,
     YieldAdvance, YieldSwitch DEF QuietNext

\* The invariant holds for any number of processes and kernel stacks.
THEOREM SchedInvariance == QuietSpec => []SInv
BY InitSInv, SchedStep, PTL DEF QuietSpec

\* Every task, stack and directory the scheduler names exists: fork stops at the
\* last kernel stack, and no TSS, saved context or ring pointer is out of range.
THEOREM SchedTypeTheorem == QuietSpec => []TypeOK
<1>1. SInv => TypeOK  BY DEF SInv
<1>. QED  BY <1>1, SchedInvariance, PTL

\* task_add and task_remove keep the running processes in one ring, and yield
\* never leaves it.
THEOREM RingTheorem == QuietSpec => []RingOK
<1>1. SInv => RingOK  BY DEF SInv
<1>. QED  BY <1>1, SchedInvariance, PTL

\* switch_task resumes every task with its own context; an exited process never
\* comes back.
THEOREM ContextTheorem == QuietSpec => []ContextOwn
<1>1. SInv => ContextOwn  BY DEF SInv
<1>. QED  BY <1>1, SchedInvariance, PTL

\* The frame that a waiting task will return to user mode with stays on its
\* kernel stack.
THEOREM FramesTheorem == QuietSpec => []FramesIntact
<1>1. SInv => FramesIntact  BY DEF SInv
<1>. QED  BY <1>1, SchedInvariance, PTL

\* exec, exit and fork leave no flow in a directory that is not its own or that
\* has been freed.
THEOREM AddressSpacesTheorem == QuietSpec => []AddressSpaces
<1>1. SInv => AddressSpaces  BY DEF SInv
<1>. QED  BY <1>1, SchedInvariance, PTL
=============================================================================
