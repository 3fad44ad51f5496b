-------------------------------- MODULE Sched --------------------------------
(***************************************************************************)
(* The scheduler: the ring of tasks of task.c, switch_task, the timer's    *)
(* preemption, and what fork, exec, exit and wait do to the ring, to the   *)
(* saved contexts, to the TSS and to the loaded page directory.            *)
(*                                                                         *)
(* Task 0 is main_task, which carries process 0; task t > 0 is the task_t  *)
(* in proc_table[t].  A flow is what a task was when it last ran; flow t   *)
(* belongs to task t, and the properties say that it stays so.  Registers  *)
(* are abstracted to whose flow they are, where it resumes, on which       *)
(* kernel stack, and with which directory.                                 *)
(*                                                                         *)
(* Where a flow can be (at):                                               *)
(*   user      in user mode, interrupts on                                 *)
(*   start     fork_trampoline, interrupts off                             *)
(*   tail      on the way back to user mode, after the timer's yield or    *)
(*             after a wait that has yielded: interrupts on                *)
(*   wait      process_wait, resumed after its yield: interrupts on        *)
(*   reap      process_wait between the two stores that free a slot,       *)
(*             interrupts on                                               *)
(*   exit      process_exit after its sti, off the ring                    *)
(*   wait_sw, exit_sw   in the yield called from there, running_task       *)
(*             already advanced, switch_task not yet called                *)
(*   hlt       process 0 after exit                                        *)
(* A system call that does not yield runs with interrupts off: one step.   *)
(***************************************************************************)
EXTENDS Integers, FiniteSets, FiniteSetsExt

CONSTANTS MAX_PROCS,
          HeapStacks     \* kernel stacks kheap can hand out, process 0's included

ASSUME SchedAssumption == MAX_PROCS \in Nat \ {0} /\ HeapStacks \in Nat \ {0}

Tasks      == 0 .. MAX_PROCS - 1
HaltStack  == HeapStacks + 1           \* halt_stack of process.c
Stacks     == 1 .. HaltStack
kernel_dir == 0
Dirs       == 0 .. MAX_PROCS + 1       \* frames that can hold a page directory

VARIABLES
  next, running,                  \* the ring and running_task
  state, kernel_stack, page_dir,  \* of proc_table, by slot
  stacks,                         \* kernel stacks taken from the heap
  dirs,                           \* the page directories allocated
  reaping,                        \* reaping[f]: the slot whose kernel_stack flow f, in
                                  \* process_wait, has still to clear; 0 for none
  flow, at, stk, cr3,             \* the CPU: whose flow, where, its stack, its directory
  tss,                            \* tss.esp0, the stack a trap from user mode starts on
  regs,                           \* the saved contexts, task->regs
  top                             \* top[k]: the flow whose trap frame is at the top of stack k

procVars == <<state, kernel_stack, page_dir, stacks, dirs, reaping>>
cpu  == <<flow, at, stk, cr3>>
vars == <<next, running, procVars, cpu, tss, regs, top>>

Ring == {t \in Tasks : state[t] = "RUN"}

-----------------------------------------------------------------------------
Context(f, a, k, d) == [flow |-> f, at |-> a, stk |-> k, cr3 |-> d]

Init ==
  /\ next = [t \in Tasks |-> 0]
  /\ running = 0
  /\ state = [t \in Tasks |-> IF t = 0 THEN "RUN" ELSE "FREE"]
  /\ kernel_stack = [t \in Tasks |-> IF t = 0 THEN 1 ELSE 0]
  /\ page_dir = [t \in Tasks |-> kernel_dir]
  /\ stacks = 1
  /\ dirs = {kernel_dir}
  /\ reaping = [t \in Tasks |-> 0]
  /\ flow = 0 /\ at = "user" /\ stk = 1 /\ cr3 = kernel_dir
  /\ tss = 1
  /\ regs = [t \in Tasks |-> Context(0, "user", 1, kernel_dir)]
  /\ top = [k \in Stacks |-> 0]

\* yield's tss_set_stack: process_of_task finds no process for main_task.
TssUnset(t) == tss                      \* (mutant: yield leaves the TSS alone)
TssFor(t) == IF t = 0 THEN tss ELSE kernel_stack[t]

\* switch_task(&task[from].regs, &task[to].regs), called by the flow on the CPU,
\* which will resume at a on kernel stack k with directory d.
SwitchSwapped(from, to, a, k, d) ==     \* (mutant: saves into the task it loads)
  /\ regs' = [regs EXCEPT ![to] = Context(flow, a, k, d)]
  /\ flow' = regs[to].flow /\ at' = regs[to].at /\ stk' = regs[to].stk
  /\ cr3' = regs[to].cr3
switch_task(from, to, a, k, d) ==
  /\ regs' = [regs EXCEPT ![from] = Context(flow, a, k, d)]
  /\ flow' = regs[to].flow /\ at' = regs[to].at /\ stk' = regs[to].stk
  /\ cr3' = regs[to].cr3

\* yield with interrupts off, by a flow that will resume at a on stack k.  In a
\* ring of one it returns at once.
yield(a, k) ==
  /\ running' = next[running]
  /\ IF next[running] = running
     THEN UNCHANGED <<tss, regs, cpu>>
     ELSE tss' = TssFor(next[running]) /\ switch_task(running, next[running], a, k, cr3)
  /\ UNCHANGED <<next, procVars>>

\* A trap from user mode: the frame goes to the top of the stack in the TSS.
Trap == top' = [top EXCEPT ![tss] = flow]

-----------------------------------------------------------------------------
(***************************************************************************)
(* The timer interrupt that ends a quantum, wherever interrupts are on.    *)
(* The window inside yield is a separate action, see below.                *)
(***************************************************************************)
tick_user ==
  /\ at = "user"
  /\ Trap
  /\ yield("tail", tss)

tick_kernel ==
  /\ at \in {"tail", "wait", "reap", "hlt", "exit"}
  /\ yield(at, stk)
  /\ UNCHANGED top

\* Whether the flow on the CPU may go to user mode without the next trap landing
\* on the kernel stack of another live process.
TssPrivate == \A t \in Ring : t # flow => kernel_stack[t] # tss

\* The tail of irq_common, isr_common and fork_trampoline: iret pops the
\* frame at the top of the stack.
iret ==
  /\ at \in {"tail", "start"}
  /\ flow' = top[stk] /\ at' = "user"
  /\ UNCHANGED <<next, running, procVars, stk, cr3, tss, regs, top>>

-----------------------------------------------------------------------------
(***************************************************************************)
(* fork: the child's frame is copied to the top of its new kernel stack,   *)
(* and task_add puts it right after the running task.                      *)
(***************************************************************************)
FreeSlots == {t \in Tasks \ {0} : state[t] = "FREE"}
FreeDirs == Dirs \ dirs

HeapUnchecked == stacks <= HeapStacks   \* (mutant: kmalloc's answer 0 not looked at)
HeapLeft == stacks < HeapStacks

ChildInheritsCr3(c, d) == Context(c, "start", stacks + 1, cr3)  \* (mutant: "NOT current")
ChildContext(c, d) == Context(c, "start", stacks + 1, d)

task_add_unlinked(c) == [next EXCEPT ![running] = c]   \* (mutant: child->next not set)
task_add(c) == [next EXCEPT ![c] = next[running], ![running] = c]

process_fork ==
  /\ at = "user" /\ FreeSlots # {} /\ HeapLeft /\ FreeDirs # {}
  /\ LET c == Min(FreeSlots)
         d == Min(FreeDirs)
     IN  /\ state' = [state EXCEPT ![c] = "RUN"]
         /\ kernel_stack' = [kernel_stack EXCEPT ![c] = stacks + 1]
         /\ page_dir' = [page_dir EXCEPT ![c] = d]
         /\ dirs' = dirs \cup {d}
         /\ regs' = [regs EXCEPT ![c] = ChildContext(c, d)]
         /\ next' = task_add(c)
         /\ top' = [top EXCEPT ![tss] = flow, ![stacks + 1] = c]
  /\ stacks' = stacks + 1
  /\ UNCHANGED <<running, reaping, cpu, tss>>

\* execve: the running process moves to a new directory, the old one is freed
\* unless it is the boot directory, and the TSS is set before the jump to user mode.
Drop(old) == {old} \ {kernel_dir}

process_execve ==
  /\ at = "user" /\ FreeDirs # {}
  /\ LET d == Min(FreeDirs)
     IN  /\ page_dir' = [page_dir EXCEPT ![running] = d]
         /\ dirs' = (dirs \cup {d}) \ Drop(page_dir[running])
         /\ regs' = [regs EXCEPT ![running].cr3 = d]
         /\ cr3' = d
  /\ tss' = kernel_stack[running]
  /\ Trap
  /\ UNCHANGED <<next, running, state, kernel_stack, stacks, reaping, flow, at, stk>>

-----------------------------------------------------------------------------
(***************************************************************************)
(* exit, up to its sti: the process becomes a zombie, leaves its           *)
(* directory, and task_remove takes it off the ring with its own next left *)
(* intact.  Process 0 halts on halt_stack instead.                         *)
(***************************************************************************)
task_remove_self(t) == [next EXCEPT ![t] = t]           \* (mutant: unlinks the wrong end)
task_remove(t) == [p \in Tasks |-> IF next[p] = t /\ p \in Ring THEN next[t] ELSE next[p]]

process_exit ==
  /\ at = "user" /\ running # 0
  /\ state' = [state EXCEPT ![running] = "ZOMBIE"]
  /\ page_dir' = [page_dir EXCEPT ![running] = kernel_dir]
  /\ regs' = [regs EXCEPT ![running].cr3 = kernel_dir]
  /\ cr3' = kernel_dir
  /\ dirs' = dirs \ Drop(page_dir[running])
  /\ next' = task_remove(running)
  /\ at' = "exit" /\ stk' = tss
  /\ Trap
  /\ UNCHANGED <<running, kernel_stack, stacks, reaping, flow, tss>>

init_exit ==
  /\ at = "user" /\ running = 0
  /\ at' = "hlt" /\ stk' = tss
  /\ tss' = HaltStack
  /\ Trap
  /\ UNCHANGED <<next, running, procVars, flow, cr3, regs>>

-----------------------------------------------------------------------------
(***************************************************************************)
(* wait.  Parenthood is module Proc's matter: here any zombie may be the   *)
(* one that is reaped, and a process yields while another one lives.  The  *)
(* slot is given up by two stores, state and then kernel_stack.  A wait    *)
(* that finds a zombie at once makes both with interrupts off, one that    *)
(* has yielded with interrupts on: a tick may come between them.           *)
(***************************************************************************)
Reapable(z) == state[z] = "ZOMBIE" /\ z # running

wait_at_once(z) ==
  /\ at = "user" /\ Reapable(z)
  /\ state' = [state EXCEPT ![z] = "FREE"]
  /\ kernel_stack' = [kernel_stack EXCEPT ![z] = 0]
  /\ Trap
  /\ UNCHANGED <<next, running, page_dir, stacks, dirs, reaping, cpu, tss, regs>>

wait_yield ==
  /\ at = "user" /\ Ring # {running}
  /\ Trap
  /\ yield("wait", tss)

wait_free(z) ==
  /\ at = "wait" /\ Reapable(z)
  /\ state' = [state EXCEPT ![z] = "FREE"]
  /\ reaping' = [reaping EXCEPT ![flow] = z]
  /\ at' = "reap"
  /\ UNCHANGED <<next, running, kernel_stack, page_dir, stacks, dirs, flow, stk, cr3,
                 tss, regs, top>>

wait_clear ==
  /\ at = "reap"
  /\ kernel_stack' = [kernel_stack EXCEPT ![reaping[flow]] = 0]
  /\ reaping' = [reaping EXCEPT ![flow] = 0]
  /\ at' = "tail"
  /\ UNCHANGED <<next, running, state, page_dir, stacks, dirs, flow, stk, cr3, tss, regs, top>>

\* Whether fork would take a slot that a reaper has freed and not yet cleared: the
\* clearing would then take the new process's kernel stack away.
SlotUnsettled == Min(FreeSlots) \in {reaping[f] : f \in Tasks}

(***************************************************************************)
(* yield with interrupts on, from wait's loop and from exit: first         *)
(* running_task and the TSS, then switch_task.  prev is the flow's own     *)
(* task.  A tick in between runs a second yield inside the first.          *)
(***************************************************************************)
InYield == at \in {"wait_sw", "exit_sw"}

yield_advance ==
  /\ at \in {"wait", "exit"} /\ next[running] # running
  /\ running' = next[running]
  /\ tss' = TssFor(next[running])
  /\ at' = IF at = "wait" THEN "wait_sw" ELSE "exit_sw"
  /\ UNCHANGED <<next, procVars, flow, stk, cr3, regs, top>>

yield_switch ==
  /\ InYield
  /\ switch_task(flow, running, IF at = "wait_sw" THEN "wait" ELSE "exit", stk, cr3)
  /\ UNCHANGED <<next, running, procVars, tss, top>>

tick_in_yield ==
  /\ InYield
  /\ yield(at, stk)
  /\ UNCHANGED top
-----------------------------------------------------------------------------
\* The scheduler without the three behaviours that other runs are about: a tick
\* inside yield (sched_window), process 0 going back to user mode while the TSS
\* still holds the stack of another live process (sched_tss), and fork into a slot
\* that a reaper has not yet cleared (proc_reap_race).
QuietNext ==
  \/ tick_user \/ tick_kernel
  \/ iret /\ TssPrivate
  \/ process_fork /\ ~SlotUnsettled
  \/ process_execve \/ process_exit \/ init_exit
  \/ wait_yield \/ wait_clear
  \/ \E z \in Tasks : wait_at_once(z) \/ wait_free(z)
  \/ yield_advance \/ yield_switch

Fairness == WF_vars(tick_user) /\ WF_vars(tick_kernel) /\ WF_vars(yield_switch)
            /\ WF_vars(iret /\ TssPrivate)

QuietSpec  == Init /\ [][QuietNext]_vars /\ Fairness
WindowSpec == Init /\ [][QuietNext \/ tick_in_yield]_vars
TssSpec    == Init /\ [][QuietNext \/ iret]_vars

-----------------------------------------------------------------------------
Locations == {"user", "start", "tail", "wait", "reap", "exit", "hlt", "wait_sw", "exit_sw"}

TypeOK ==
  /\ next \in [Tasks -> Tasks] /\ running \in Tasks
  /\ state \in [Tasks -> {"FREE", "RUN", "ZOMBIE"}]
  /\ kernel_stack \in [Tasks -> Stacks \cup {0}] /\ page_dir \in [Tasks -> Dirs]
  /\ stacks \in 1 .. HeapStacks /\ dirs \subseteq Dirs /\ reaping \in [Tasks -> Tasks]
  /\ flow \in Tasks /\ at \in Locations /\ stk \in Stacks /\ cr3 \in Dirs
  /\ tss \in Stacks
  /\ regs \in [Tasks -> [flow : Tasks, at : Locations, stk : Stacks, cr3 : Dirs]]
  /\ top \in [Stacks -> Tasks]

\* The running processes form one ring: following next from a member visits every
\* member and nothing else, so a yield never walks into a dead or a free slot and
\* skips nobody; running_task is a member, or a dying process whose next is one.
RingOK ==
  /\ 0 \in Ring
  /\ \A t \in Ring : next[t] \in Ring
  /\ \A t, u \in Ring : next[t] = next[u] => t = u
  /\ \A S \in SUBSET Ring : S # {} /\ (\A t \in S : next[t] \in S) => S = Ring
  /\ running \in Ring \/ (at = "exit" /\ next[running] \in Ring)

\* The context saved for a task that waits for the CPU is that task's own: a
\* switch never resumes a task in the middle of another one's execution, and an
\* exited process "never comes back".
ContextOwn == \A t \in Ring \ {flow} : regs[t].flow = t

\* The trap frame of a task that waits for the CPU is still on its kernel stack:
\* no other task's trap has been taken onto that stack.
FramesIntact == \A t \in Ring \ {flow} : top[regs[t].stk] = t

\* The allocated directories are the boot directory and one for each running
\* process that has its own; the loaded one is the flow's own (the boot directory
\* once it is dying), and each waiting task will load its own: no step, exec and
\* exit included, leaves the CPU or a saved context in a freed directory.
AddressSpaces ==
  /\ dirs = {kernel_dir} \cup {page_dir[t] : t \in Ring}
  /\ \A t, u \in Ring : page_dir[t] = page_dir[u] => t = u \/ page_dir[t] = kernel_dir
  /\ cr3 = page_dir[flow]
  /\ \A t \in Ring \ {flow} : regs[t].cr3 = page_dir[t]

\* Round robin: every running process gets the CPU again, whatever the others do.
Scheduled == \A t \in Tasks : (t \in Ring) ~> (flow = t)
=============================================================================
