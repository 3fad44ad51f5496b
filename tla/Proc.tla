--------------------------------- MODULE Proc ---------------------------------
(***************************************************************************)
(* The process table and the open-file table of process.c, with the system *)
(* calls of syscall.c that change them: fork, exit, wait, open, close and  *)
(* read.                                                                   *)
(*                                                                         *)
(* A system call enters through an interrupt gate with IF clear, so it is  *)
(* one atomic step, with one exception: switch_task restores every task    *)
(* with IF set, so once process_wait has yielded the rest of its loop can  *)
(* be preempted at any instruction.  From there on each visit of a slot,   *)
(* and each of the two stores that reclaim a zombie, is a step of its own. *)
(* Which process steps next is left open: the scheduler is module Sched.   *)
(***************************************************************************)
EXTENDS Integers, FiniteSets, FiniteSetsExt

CONSTANTS MAX_PROCS, MAX_FDS, MAX_OPEN_FILES,
          HeapStacks,    \* kernel stacks kheap can ever hand out; it has no free
          Nodes,         \* the files of the initrd
          Length,        \* their lengths
          Codes,         \* exit codes
          MaxRead        \* the longest read tried

ASSUME ProcAssumption ==
  /\ MAX_PROCS \in Nat \ {0} /\ MAX_FDS \in Nat
  /\ MAX_OPEN_FILES \in Nat /\ HeapStacks \in Nat /\ MaxRead \in Nat
  /\ Length \in [Nodes -> Nat]
  /\ Codes \subseteq Int
  /\ 0 \notin Nodes

Slots == 0 .. MAX_PROCS - 1
Fds   == 0 .. MAX_FDS - 1
Files == 1 .. MAX_OPEN_FILES       \* file_table[f - 1]
NULL  == 0

VARIABLES
  state, pid, ppid, exit_code, kernel_stack,   \* proc_table, by slot
  fds,           \* fds[s][d]: the open file behind descriptor d, or NULL
  next_pid,
  stacks,        \* kernel stacks taken from the heap; stack 0 stands for "none"
  node, offset, refcount,                      \* file_table
  pc,            \* "user", in process_wait "scan" or "reap", or "halt"
  idx,           \* process_wait's i
  kids,          \* whether process_wait's children is nonzero
  due            \* the exits no wait has reported yet: <<the pid of the process
                 \* that is owed the report, the pid and the code of the exit>>

waitVars == <<pc, idx, kids>>
fileVars == <<node, offset, refcount>>
procVars == <<state, pid, ppid, exit_code, kernel_stack, next_pid, stacks>>
vars == <<procVars, fds, fileVars, waitVars, due>>

-----------------------------------------------------------------------------
Running(s) == state[s] = "RUN" /\ pc[s] = "user"

\* The slots process_wait counts as children of the process in slot s.
IsChild(c, s) == state[c] # "FREE" /\ ppid[c] = pid[s] /\ c # s
Children(s) == {c \in Slots : IsChild(c, s)}

AnyZombie(c, s) == c # s /\ state[c] = "ZOMBIE"      \* (mutant: the test on ppid is dropped)
Reapable(c, s) == IsChild(c, s) /\ state[c] = "ZOMBIE"
Zombies(s) == {c \in Slots : Reapable(c, s)}

CountedIfZombie(c, s) == Reapable(c, s)              \* (mutant: children++ comes too late)
Counted(c, s) == IsChild(c, s)

ScanShort == MAX_PROCS - 1                           \* (mutant: i < MAX_PROCS - 1)
ScanLimit == MAX_PROCS

\* process_create: the first free slot.  Slot 0 is reserved.
TakeNonRunning == {i \in Slots \ {0} : state[i] # "RUN"}  \* (mutant: zombies count as free)
FreeSlots == {i \in Slots \ {0} : state[i] = "FREE"}

\* The descriptors of slot s that point to open file f.
Uses(s, f) == {d \in Fds : fds[s][d] = f}

-----------------------------------------------------------------------------
Init ==
  /\ state = [s \in Slots |-> IF s = 0 THEN "RUN" ELSE "FREE"]
  /\ pid = [s \in Slots |-> 0]
  /\ ppid = [s \in Slots |-> 0]
  /\ exit_code = [s \in Slots |-> 0]
  /\ kernel_stack = [s \in Slots |-> IF s = 0 THEN 1 ELSE 0]
  /\ fds = [s \in Slots |-> [d \in Fds |-> NULL]]
  /\ next_pid = 1
  /\ stacks = 1
  /\ node = [f \in Files |-> NULL]
  /\ offset = [f \in Files |-> 0]
  /\ refcount = [f \in Files |-> 0]
  /\ pc = [s \in Slots |-> "user"]
  /\ idx = [s \in Slots |-> 0]
  /\ kids = [s \in Slots |-> FALSE]
  /\ due = {}

-----------------------------------------------------------------------------
(***************************************************************************)
(* fork.  It fails with -EAGAIN without a free slot or without a kernel    *)
(* stack (the slot is then cleared but stays free), and with -ENOMEM when  *)
(* frames run out: the pid and the kernel stack are spent all the same.    *)
(***************************************************************************)
\* The entry of slot c after process_create and the first stores of fork.
Entry(c, par, stk, st) ==
  /\ state' = [state EXCEPT ![c] = st]
  /\ pid' = [pid EXCEPT ![c] = IF stk = 0 THEN 0 ELSE next_pid]
  /\ ppid' = [ppid EXCEPT ![c] = par]
  /\ exit_code' = [exit_code EXCEPT ![c] = 0]
  /\ kernel_stack' = [kernel_stack EXCEPT ![c] = stk]

fork_no_stack(s) ==
  /\ Running(s) /\ FreeSlots # {} /\ stacks >= HeapStacks
  /\ Entry(Min(FreeSlots), 0, 0, "FREE")
  /\ fds' = [fds EXCEPT ![Min(FreeSlots)] = [d \in Fds |-> NULL]]
  /\ UNCHANGED <<next_pid, stacks, fileVars, waitVars, due>>

fork_no_memory(s) ==
  /\ Running(s) /\ FreeSlots # {} /\ stacks < HeapStacks
  /\ Entry(Min(FreeSlots), pid[s], stacks + 1, "FREE")
  /\ fds' = [fds EXCEPT ![Min(FreeSlots)] = [d \in Fds |-> NULL]]
  /\ next_pid' = next_pid + 1 /\ stacks' = stacks + 1
  /\ UNCHANGED <<fileVars, waitVars, due>>

ForkSharesUncounted(s) == refcount           \* (mutant: descriptors copied, not counted)
ForkRefcount(s) == [f \in Files |-> refcount[f] + Cardinality(Uses(s, f))]

process_fork(s) ==
  /\ Running(s) /\ FreeSlots # {} /\ stacks < HeapStacks
  /\ Entry(Min(FreeSlots), pid[s], stacks + 1, "RUN")
  /\ next_pid' = next_pid + 1 /\ stacks' = stacks + 1
  /\ fds' = [fds EXCEPT ![Min(FreeSlots)] = fds[s]]
  /\ refcount' = ForkRefcount(s)
  /\ UNCHANGED <<node, offset, waitVars, due>>

-----------------------------------------------------------------------------
(***************************************************************************)
(* open_file_release, n times on f.                                        *)
(***************************************************************************)
ReleaseTwice(uses) ==                        \* (mutant: released twice, not cut at 0)
  /\ refcount' = [f \in Files |-> refcount[f] - 2 * uses[f]]
  /\ UNCHANGED <<node, offset>>
ReleaseKeepsNode(uses) ==                    \* (mutant: node and offset not reset)
  /\ refcount' = [f \in Files |-> refcount[f] - uses[f]]
  /\ UNCHANGED <<node, offset>>
Release(uses) ==
  LET gone == {f \in Files : uses[f] > 0 /\ refcount[f] <= uses[f]}
  IN  /\ refcount' = [f \in Files |-> IF f \in gone THEN 0 ELSE refcount[f] - uses[f]]
      /\ node' = [f \in Files |-> IF f \in gone THEN NULL ELSE node[f]]
      /\ offset' = [f \in Files |-> IF f \in gone THEN 0 ELSE offset[f]]

\* exit.  Process 0 cannot exit: the boot context halts in place, and the timer
\* goes on scheduling the others.
init_exit ==
  /\ Running(0)
  /\ pc' = [pc EXCEPT ![0] = "halt"]
  /\ UNCHANGED <<procVars, fds, fileVars, idx, kids, due>>

OrphansKept(s) == ppid                       \* (mutant: orphans not reparented)
OrphansAdopted(s) ==
  [c \in Slots |-> IF state[c] # "FREE" /\ ppid[c] = pid[s] THEN 0 ELSE ppid[c]]

\* What was owed to the process in slot s is owed to process 0 when it exits.
OwedToInit(s) == {<<IF d[1] = pid[s] THEN 0 ELSE d[1], d[2], d[3]>> : d \in due}

process_exit(s, code) ==
  /\ Running(s) /\ pid[s] # 0
  /\ Release([f \in Files |-> Cardinality(Uses(s, f))])
  /\ fds' = [fds EXCEPT ![s] = [d \in Fds |-> NULL]]
  /\ ppid' = OrphansAdopted(s)
  /\ exit_code' = [exit_code EXCEPT ![s] = code]
  /\ state' = [state EXCEPT ![s] = "ZOMBIE"]
  /\ due' = OwedToInit(s) \cup {<<ppid[s], pid[s], code>>}
  /\ UNCHANGED <<pid, kernel_stack, next_pid, stacks, waitVars>>

-----------------------------------------------------------------------------
(***************************************************************************)
(* wait.  The first scan runs with IF clear: it reports the zombie child   *)
(* in the lowest slot, fails with -ECHILD (no change), or yields.          *)
(***************************************************************************)
\* wait returns the pid and the exit code of c to the process in slot s.
Report(s, c) == due' = due \ {<<pid[s], pid[c], exit_code[c]>>}

wait_at_once(s) ==
  /\ Running(s) /\ Zombies(s) # {}
  /\ LET c == Min(Zombies(s))
     IN  /\ state' = [state EXCEPT ![c] = "FREE"]
         /\ kernel_stack' = [kernel_stack EXCEPT ![c] = 0]
         /\ Report(s, c)
  /\ UNCHANGED <<pid, ppid, exit_code, next_pid, stacks, fds, fileVars, waitVars>>

Rescan(s) ==
  /\ idx' = [idx EXCEPT ![s] = 0]
  /\ kids' = [kids EXCEPT ![s] = FALSE]

wait_yield(s) ==
  /\ Running(s) /\ Children(s) # {} /\ Zombies(s) = {}
  /\ pc' = [pc EXCEPT ![s] = "scan"]
  /\ Rescan(s)
  /\ UNCHANGED <<procVars, fds, fileVars, due>>

\* One iteration of the loop over the slots, after a yield.  The visit of a
\* zombie ends with the slot marked free, before kernel_stack is cleared.
wait_visit(s) ==
  /\ pc[s] = "scan" /\ idx[s] < ScanLimit
  /\ LET c == idx[s]
     IN  IF Reapable(c, s)
         THEN /\ state' = [state EXCEPT ![c] = "FREE"]
              /\ pc' = [pc EXCEPT ![s] = "reap"]
              /\ Report(s, c)
              /\ UNCHANGED <<idx, kids>>
         ELSE /\ kids' = [kids EXCEPT ![s] = @ \/ Counted(c, s)]
              /\ idx' = [idx EXCEPT ![s] = c + 1]
              /\ UNCHANGED <<state, pc, due>>
  /\ UNCHANGED <<pid, ppid, exit_code, kernel_stack, next_pid, stacks, fds, fileVars>>

wait_reap(s) ==
  /\ pc[s] = "reap"
  /\ kernel_stack' = [kernel_stack EXCEPT ![idx[s]] = 0]
  /\ pc' = [pc EXCEPT ![s] = "user"]
  /\ UNCHANGED <<state, pid, ppid, exit_code, next_pid, stacks, fds, fileVars,
                 idx, kids, due>>

\* The end of a scan: yield and start over, or fail with -ECHILD.
wait_end(s) ==
  /\ pc[s] = "scan" /\ idx[s] = ScanLimit
  /\ IF kids[s] THEN Rescan(s) /\ UNCHANGED pc
                ELSE pc' = [pc EXCEPT ![s] = "user"] /\ UNCHANGED <<idx, kids>>
  /\ UNCHANGED <<procVars, fds, fileVars, due>>

-----------------------------------------------------------------------------
(***************************************************************************)
(* open takes the lowest free descriptor above the console's three, then   *)
(* the first free open file; -EMFILE and -ENFILE change nothing.           *)
(***************************************************************************)
FreeFds(s) == {d \in Fds : d >= 3 /\ fds[s][d] = NULL}
FreeFiles == {f \in Files : refcount[f] = 0}

sys_open(s, n) ==
  /\ Running(s) /\ FreeFds(s) # {} /\ FreeFiles # {}
  /\ LET f == Min(FreeFiles)
     IN  /\ node' = [node EXCEPT ![f] = n]
         /\ offset' = [offset EXCEPT ![f] = 0]
         /\ refcount' = [refcount EXCEPT ![f] = 1]
         /\ fds' = [fds EXCEPT ![s][Min(FreeFds(s))] = f]
  /\ UNCHANGED <<procVars, waitVars, due>>

sys_close(s, d) ==
  /\ Running(s) /\ fds[s][d] # NULL
  /\ Release([f \in Files |-> IF f = fds[s][d] THEN 1 ELSE 0])
  /\ fds' = [fds EXCEPT ![s][d] = NULL]
  /\ UNCHANGED <<procVars, waitVars, due>>

\* vfs_read, initrd_read: the bytes a read of len gets at the offset.
Got(f, len) ==
  IF offset[f] >= Length[node[f]] THEN 0
  ELSE IF offset[f] + len > Length[node[f]] THEN Length[node[f]] - offset[f] ELSE len

sys_read(s, d, len) ==
  /\ Running(s) /\ fds[s][d] # NULL
  /\ offset' = [offset EXCEPT ![fds[s][d]] = @ + Got(fds[s][d], len)]
  /\ UNCHANGED <<procVars, fds, node, refcount, waitVars, due>>

-----------------------------------------------------------------------------
wait_step(s) == wait_visit(s) \/ wait_reap(s) \/ wait_end(s)

Next ==
  \/ init_exit
  \/ \E s \in Slots :
       \/ fork_no_stack(s) \/ fork_no_memory(s) \/ process_fork(s)
       \/ \E code \in Codes : process_exit(s, code)
       \/ wait_at_once(s) \/ wait_yield(s)
       \/ wait_visit(s) \/ wait_reap(s) \/ wait_end(s)
       \/ \E n \in Nodes : sys_open(s, n)
       \/ \E d \in Fds : sys_close(s, d) \/ \E len \in 1 .. MaxRead : sys_read(s, d, len)

Spec == Init /\ [][Next]_vars

\* The round robin of task.c runs every task of the ring again and again, and
\* nothing in process_wait after its yield blocks.
FairSpec == Spec /\ \A s \in Slots : WF_vars(wait_step(s))

-----------------------------------------------------------------------------
ProcTypes ==
  /\ state \in [Slots -> {"FREE", "RUN", "ZOMBIE"}]
  /\ pid \in [Slots -> Nat] /\ ppid \in [Slots -> Nat]
  /\ exit_code \in [Slots -> Int]
  /\ kernel_stack \in [Slots -> Nat]
  /\ next_pid \in Nat \ {0} /\ stacks \in Nat
  /\ pc \in [Slots -> {"user", "scan", "reap", "halt"}]
  /\ idx \in [Slots -> 0 .. MAX_PROCS] /\ kids \in [Slots -> BOOLEAN]
  /\ due \in SUBSET (Nat \X Nat \X Int)

FileTypes ==
  /\ fds \in [Slots -> [Fds -> Files \cup {NULL}]]
  /\ node \in [Files -> Nodes \cup {NULL}]
  /\ offset \in [Files -> Nat] /\ refcount \in [Files -> Nat]

TypeOK == ProcTypes /\ FileTypes

\* The pids of the live and the unreaped processes are distinct, and the parent
\* of each of them is a process that still runs, older than its child: however
\* exits, forks and reaps interleave, no process is left with a dead parent and
\* no zombie with nobody to wait for it.
FamilyTree ==
  /\ \A s, t \in Slots : s # t /\ state[s] # "FREE" /\ state[t] # "FREE" => pid[s] # pid[t]
  /\ \A c \in Slots \ {0} : state[c] # "FREE" =>
       \E s \in Slots : state[s] = "RUN" /\ pid[s] = ppid[c] /\ ppid[c] < pid[c]

\* refcount is the number of descriptors, over all processes, that point to the
\* open file: it is closed by the last of them and not before.
Refs(f) == {r \in Slots \X Fds : fds[r[1]][r[2]] = f}
RefcountExact == \A f \in Files : refcount[f] = Cardinality(Refs(f))

\* A free open file carries nothing over to its next user; a used one reads a
\* file of the initrd at an offset inside it; and only running processes hold
\* descriptors.
FilesClean ==
  /\ \A f \in Files :
       IF refcount[f] = 0 THEN node[f] = NULL /\ offset[f] = 0
                          ELSE node[f] # NULL /\ offset[f] <= Length[node[f]]
  /\ \A s \in Slots, d \in Fds : fds[s][d] # NULL => state[s] = "RUN"

\* Every exit is reported to exactly one wait, that of the parent, or of process 0
\* if the parent has gone, with the code that was passed to exit: the zombies are
\* at all times the exits not reported yet.
Exit(z) == <<ppid[z], pid[z], exit_code[z]>>
ZombiesDue == due = {Exit(z) : z \in {s \in Slots : state[s] = "ZOMBIE"}}

\* A process that has yielded in process_wait always has a child, and a scan of
\* the table that others interrupt never misses them all: process_wait fails with
\* -ECHILD only if the caller had no child when it called.
EchildSound ==
  \A s \in Slots : pc[s] = "scan" => Children(s) # {} /\ (idx[s] = MAX_PROCS => kids[s])

\* A slot in use keeps its pid, is given up only by a zombie, and only in the step
\* in which a wait of that zombie's parent returns it; a zombie never runs again.
SlotLifecycle ==
  [][\A c \in Slots : state[c] # "FREE" =>
       /\ pid'[c] = pid[c]
       /\ state'[c] = "FREE" => state[c] = "ZOMBIE" /\ Exit(c) \in due \ due'
       /\ state[c] = "ZOMBIE" => state'[c] # "RUN"]_vars

\* A process that waits while it has a zombie child gets out of process_wait.
WaitReturns ==
  \A s \in Slots : (pc[s] \in {"scan", "reap"} /\ Zombies(s) # {}) ~> (pc[s] = "user")

\* process.h: "kernel_stack; /* top, for TSS esp0 */" - every running process has
\* the kernel stack that yield loads into the TSS when it switches to it.
LiveHasStack == \A s \in Slots : state[s] = "RUN" => kernel_stack[s] # 0
=============================================================================
