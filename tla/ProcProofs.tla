------------------------------ MODULE ProcProofs ------------------------------
(***************************************************************************)
(* The process table, for every size of the tables: the family tree, the   *)
(* exits owed to wait, the soundness of an interrupted scan, and the life  *)
(* of a slot, none of which depends on the open files.  Then the open-file *)
(* table: reference counts are exact through fork, exit, open and close,   *)
(* and a free entry is clean; together, the type invariant of Proc.        *)
(***************************************************************************)
EXTENDS Proc, NatMin, FiniteSetTheorems

BootProcess == state[0] = "RUN" /\ pid[0] = 0 /\ ppid[0] = 0

PidsBounded ==
  \A s \in Slots : state[s] # "FREE" => pid[s] < next_pid /\ (s # 0 => pid[s] > 0)

\* A process inside process_wait runs, and has a child the scan has counted or
\* has still to come to.
ScanSound ==
  \A s \in Slots :
    /\ pc[s] # "user" => state[s] = "RUN"
    /\ pc[s] = "scan" => \E c \in Slots : IsChild(c, s) /\ (kids[s] \/ idx[s] <= c)

PInv == ProcTypes /\ BootProcess /\ PidsBounded /\ FamilyTree /\ ScanSound /\ ZombiesDue

tableVars == <<procVars, waitVars, due>>

-----------------------------------------------------------------------------
\* Slot 0, process 0's, is a slot.
LEMMA SlotZero == 0 \in Slots /\ Slots \subseteq Nat
BY ProcAssumption DEF Slots

\* The slot process_create takes is free and is not slot 0.
LEMMA FirstFreeSlot ==
  ASSUME FreeSlots # {}
  PROVE  Min(FreeSlots) \in Slots \ {0} /\ state[Min(FreeSlots)] = "FREE"
<1>1. FreeSlots \in SUBSET Nat
  BY SlotZero DEF FreeSlots
<1>2. Min(FreeSlots) \in FreeSlots
  BY <1>1, MinIsLeast
<1>. QED  BY <1>2 DEF FreeSlots

\* A failed fork touches only an entry that is free and stays so.
LEMMA EntryFails ==
  ASSUME PInv, NEW c \in Slots \ {0}, state[c] = "FREE", NEW par \in Nat, NEW stk \in Nat,
         Entry(c, par, stk, "FREE"), next_pid' \in Nat \ {0}, next_pid' >= next_pid,
         stacks' \in Nat, UNCHANGED <<waitVars, due>>
  PROVE  PInv'
<1>. USE DEF PInv, waitVars
<1>1. /\ state' = state
      /\ pid' = [pid EXCEPT ![c] = IF stk = 0 THEN 0 ELSE next_pid]
      /\ ppid' = [ppid EXCEPT ![c] = par]
      /\ exit_code' = [exit_code EXCEPT ![c] = 0]
      /\ kernel_stack' = [kernel_stack EXCEPT ![c] = stk]
  BY DEF Entry, ProcTypes
<1>2. ProcTypes'
  BY <1>1 DEF ProcTypes
<1>3. \A t \in Slots : state[t] # "FREE" =>
        pid'[t] = pid[t] /\ ppid'[t] = ppid[t] /\ exit_code'[t] = exit_code[t]
  BY <1>1 DEF ProcTypes
<1>4. BootProcess'
  BY <1>1, <1>3, SlotZero DEF BootProcess
<1>5. PidsBounded'
  BY <1>1, <1>3 DEF PidsBounded, ProcTypes
<1>6. FamilyTree'
  BY <1>1, <1>3 DEF FamilyTree
<1>7. ScanSound'
  BY <1>1, <1>3 DEF ScanSound, IsChild
<1>8. ZombiesDue'
  BY <1>1, <1>3 DEF ZombiesDue, Exit
<1>. QED  BY <1>2, <1>4, <1>5, <1>6, <1>7, <1>8

\* fork: the new entry has a fresh pid, and its parent, the caller, runs.
LEMMA ForkStep ==
  ASSUME PInv, NEW s \in Slots, process_fork(s)
  PROVE  PInv'
<1>. USE DEF PInv
<1>. DEFINE c == Min(FreeSlots)
<1>1. c \in Slots \ {0} /\ state[c] = "FREE"
  BY FirstFreeSlot DEF process_fork
<1>0. stacks \in Nat
  BY DEF ProcTypes
<1>2. /\ state' = [state EXCEPT ![c] = "RUN"]
      /\ pid' = [pid EXCEPT ![c] = next_pid]
      /\ ppid' = [ppid EXCEPT ![c] = pid[s]]
      /\ exit_code' = [exit_code EXCEPT ![c] = 0]
      /\ kernel_stack' = [kernel_stack EXCEPT ![c] = stacks + 1]
      /\ next_pid' = next_pid + 1 /\ stacks' = stacks + 1
      /\ UNCHANGED <<pc, idx, kids, due>> /\ state[s] = "RUN"
  <2>1. Entry(c, pid[s], stacks + 1, "RUN")
    BY DEF process_fork
  <2>2. next_pid' = next_pid + 1 /\ stacks' = stacks + 1
    BY DEF process_fork
  <2>3. UNCHANGED <<pc, idx, kids, due>> /\ state[s] = "RUN"
    BY DEF process_fork, waitVars, Running
  <2>. HIDE DEF c
  <2>4. (IF stacks + 1 = 0 THEN 0 ELSE next_pid) = next_pid
    BY <1>0
  <2>5. /\ state' = [state EXCEPT ![c] = "RUN"]
        /\ pid' = [pid EXCEPT ![c] = next_pid]
        /\ ppid' = [ppid EXCEPT ![c] = pid[s]]
        /\ exit_code' = [exit_code EXCEPT ![c] = 0]
        /\ kernel_stack' = [kernel_stack EXCEPT ![c] = stacks + 1]
    BY <2>1, <2>4, Zenon DEF Entry
  <2>. QED  BY <2>2, <2>3, <2>5
<1>. HIDE DEF c
<1>3. ProcTypes'
  BY <1>1, <1>2 DEF ProcTypes
<1>4. \A t \in Slots : t # c =>
        /\ state'[t] = state[t] /\ pid'[t] = pid[t] /\ ppid'[t] = ppid[t]
        /\ exit_code'[t] = exit_code[t]
  BY <1>2 DEF ProcTypes
<1>5. state'[c] = "RUN" /\ pid'[c] = next_pid /\ ppid'[c] = pid[s]
  BY <1>1, <1>2 DEF ProcTypes
<1>6. BootProcess'
  BY <1>1, <1>4, SlotZero DEF BootProcess
<1>7. PidsBounded'
  BY <1>2, <1>4, <1>5 DEF PidsBounded, ProcTypes
<1>8. FamilyTree'
  <2>1. ASSUME NEW t \in Slots, NEW u \in Slots, t # u, state'[t] # "FREE", state'[u] # "FREE"
        PROVE  pid'[t] # pid'[u]
    BY <2>1, <1>2, <1>4, <1>5 DEF FamilyTree, PidsBounded, ProcTypes
  <2>2. ASSUME NEW k \in Slots \ {0}, state'[k] # "FREE"
        PROVE  \E p \in Slots : state'[p] = "RUN" /\ pid'[p] = ppid'[k] /\ ppid'[k] < pid'[k]
    <3>1. CASE k = c
      <4>1. s # c /\ pid[s] < next_pid
        BY <1>1, <1>2 DEF PidsBounded
      <4>. QED  BY <3>1, <4>1, <1>2, <1>4, <1>5
    <3>2. CASE k # c
      <4>1. PICK p \in Slots : state[p] = "RUN" /\ pid[p] = ppid[k] /\ ppid[k] < pid[k]
        BY <2>2, <3>2, <1>4 DEF FamilyTree
      <4>2. p # c
        BY <4>1, <1>1
      <4>. QED  BY <4>1, <4>2, <3>2, <1>4
    <3>. QED  BY <3>1, <3>2
  <2>. QED  BY <2>1, <2>2 DEF FamilyTree
<1>9. ScanSound'
  <2>. SUFFICES ASSUME NEW w \in Slots, pc[w] # "user"
                PROVE  /\ state'[w] = "RUN"
                       /\ pc[w] = "scan" =>
                            \E k \in Slots : IsChild(k, w)' /\ (kids[w] \/ idx[w] <= k)
    BY <1>2 DEF ScanSound, ProcTypes
  <2>1. state[w] = "RUN" /\ w # c
    BY <1>1 DEF ScanSound
  <2>2. \A k \in Slots : IsChild(k, w) => IsChild(k, w)'
    BY <2>1, <1>1, <1>4 DEF IsChild
  <2>. QED  BY <2>1, <2>2, <1>4 DEF ScanSound
<1>10. ZombiesDue'
  BY <1>1, <1>2, <1>4, <1>5 DEF ZombiesDue, Exit
<1>. QED  BY <1>3, <1>6, <1>7, <1>8, <1>9, <1>10

-----------------------------------------------------------------------------
\* exit: the children go to process 0, which never stops running.
LEMMA ExitStep ==
  ASSUME PInv, NEW s \in Slots, NEW code \in Codes, process_exit(s, code)
  PROVE  PInv'
<1>. USE DEF PInv
<1>1. /\ state' = [state EXCEPT ![s] = "ZOMBIE"]
      /\ ppid' = [c \in Slots |-> IF state[c] # "FREE" /\ ppid[c] = pid[s] THEN 0 ELSE ppid[c]]
      /\ exit_code' = [exit_code EXCEPT ![s] = code]
      /\ due' = OwedToInit(s) \cup {<<ppid[s], pid[s], code>>}
      /\ UNCHANGED <<pid, kernel_stack, next_pid, stacks, pc, idx, kids>>
      /\ state[s] = "RUN" /\ pc[s] = "user" /\ pid[s] # 0
  BY DEF process_exit, OrphansAdopted, waitVars, Running
<1>2. s # 0 /\ code \in Int
  BY <1>1, ProcAssumption DEF BootProcess
<1>11. OwedToInit(s) \in SUBSET (Nat \X Nat \X Int)
  BY DEF OwedToInit, ProcTypes
<1>3. ProcTypes'
  <2>1. <<ppid[s], pid[s], code>> \in Nat \X Nat \X Int
    BY <1>2 DEF ProcTypes
  <2>2. due' \in SUBSET (Nat \X Nat \X Int)
    BY <1>1, <1>11, <2>1
  <2>. QED  BY <1>1, <1>2, <2>2 DEF ProcTypes
<1>4. \A t \in Slots : t # s => state'[t] = state[t] /\ exit_code'[t] = exit_code[t]
  BY <1>1 DEF ProcTypes
<1>5. state'[s] = "ZOMBIE" /\ exit_code'[s] = code
  BY <1>1 DEF ProcTypes
<1>6. BootProcess'
  BY <1>1, <1>2, <1>4, SlotZero DEF BootProcess
<1>7. PidsBounded'
  BY <1>1, <1>4, <1>5 DEF PidsBounded
<1>8. FamilyTree'
  <2>1. ASSUME NEW t \in Slots, NEW u \in Slots, t # u, state'[t] # "FREE", state'[u] # "FREE"
        PROVE  pid'[t] # pid'[u]
    BY <2>1, <1>1, <1>4 DEF FamilyTree
  <2>2. ASSUME NEW k \in Slots \ {0}, state'[k] # "FREE"
        PROVE  \E p \in Slots : state'[p] = "RUN" /\ pid'[p] = ppid'[k] /\ ppid'[k] < pid'[k]
    <3>1. state[k] # "FREE" /\ pid[k] > 0
      BY <2>2, <1>1, <1>4 DEF PidsBounded
    <3>2. CASE ppid[k] = pid[s]
      BY <3>1, <3>2, <1>1, <1>2, <1>4, SlotZero DEF BootProcess
    <3>3. CASE ppid[k] # pid[s]
      <4>1. PICK p \in Slots : state[p] = "RUN" /\ pid[p] = ppid[k] /\ ppid[k] < pid[k]
        BY <3>1 DEF FamilyTree
      <4>. QED  BY <4>1, <3>3, <1>1, <1>4
    <3>. QED  BY <3>2, <3>3
  <2>. QED  BY <2>1, <2>2 DEF FamilyTree
<1>9. ScanSound'
  <2>. SUFFICES ASSUME NEW w \in Slots, pc[w] # "user"
                PROVE  /\ state'[w] = "RUN"
                       /\ pc[w] = "scan" =>
                            \E k \in Slots : IsChild(k, w)' /\ (kids[w] \/ idx[w] <= k)
    BY <1>1 DEF ScanSound
  <2>1. state[w] = "RUN" /\ w # s
    BY <1>1 DEF ScanSound
  <2>2. pid[w] # pid[s]
    BY <2>1, <1>1 DEF FamilyTree
  <2>3. \A k \in Slots : IsChild(k, w) => IsChild(k, w)'
    BY <2>2, <1>1, <1>4, <1>5 DEF IsChild
  <2>. QED  BY <2>1, <2>3, <1>4 DEF ScanSound
<1>10. ZombiesDue'
  <2>1. \A t \in Slots : state'[t] = "ZOMBIE" <=> state[t] = "ZOMBIE" \/ t = s
    BY <1>1, <1>4, <1>5
  <2>. DEFINE Z == {t \in Slots : state[t] = "ZOMBIE"}
              To0(d) == <<IF d[1] = pid[s] THEN 0 ELSE d[1], d[2], d[3]>>
  <2>2. OwedToInit(s) = {To0(Exit(t)) : t \in Z}
    BY DEF ZombiesDue, OwedToInit
  <2>3. \A t \in Z : To0(Exit(t)) = Exit(t)' /\ t # s
    BY <1>1, <1>4 DEF Exit
  <2>4. ppid[s] # pid[s]
    <3>1. ppid[s] < pid[s] /\ ppid[s] \in Nat /\ pid[s] \in Nat
      BY <1>1, <1>2 DEF FamilyTree, ProcTypes
    <3>. QED  BY <3>1
  <2>5. Exit(s)' = <<ppid[s], pid[s], code>>
    BY <1>1, <1>5, <2>4 DEF Exit
  <2>6. \A x : x \in due' <=> \E t \in {u \in Slots : state'[u] = "ZOMBIE"} : x = Exit(t)'
    BY <1>1, <2>1, <2>2, <2>3, <2>5
  <2>. QED  BY <2>6 DEF ZombiesDue
<1>. QED  BY <1>3, <1>6, <1>7, <1>8, <1>9, <1>10

-----------------------------------------------------------------------------
\* Reaping: the zombie is nobody's parent, and its exit is owed to nobody else.
LEMMA ReapStep ==
  ASSUME PInv, NEW s \in Slots, NEW c \in Slots, state[s] = "RUN", Reapable(c, s),
         state' = [state EXCEPT ![c] = "FREE"], Report(s, c),
         kernel_stack' \in [Slots -> Nat],
         pc' \in {pc, [pc EXCEPT ![s] = "reap"]}, pc[s] = "user" => pc' = pc,
         pc[s] = "scan" => pc' # pc,
         UNCHANGED <<pid, ppid, exit_code, next_pid, stacks, idx, kids>>
  PROVE  PInv'
<1>. USE DEF PInv
<1>1. state[c] = "ZOMBIE" /\ ppid[c] = pid[s] /\ c # s
  BY DEF Reapable, IsChild
<1>2. \A t \in Slots : t # c => state'[t] = state[t]
  BY DEF ProcTypes
<1>3. state'[c] = "FREE"
  BY DEF ProcTypes
<1>4. due' = due \ {Exit(c)}
  BY <1>1 DEF Report, Exit
<1>5. ProcTypes'
  BY <1>4 DEF ProcTypes
<1>6. BootProcess'
  BY <1>1, <1>2, SlotZero DEF BootProcess
<1>7. PidsBounded'
  BY <1>2, <1>3 DEF PidsBounded
<1>8. FamilyTree'
  <2>1. ASSUME NEW t \in Slots, NEW u \in Slots, t # u, state'[t] # "FREE", state'[u] # "FREE"
        PROVE  pid'[t] # pid'[u]
    BY <2>1, <1>2, <1>3 DEF FamilyTree
  <2>2. ASSUME NEW k \in Slots \ {0}, state'[k] # "FREE"
        PROVE  \E p \in Slots : state'[p] = "RUN" /\ pid'[p] = ppid'[k] /\ ppid'[k] < pid'[k]
    <3>1. PICK p \in Slots : state[p] = "RUN" /\ pid[p] = ppid[k] /\ ppid[k] < pid[k]
      BY <2>2, <1>2, <1>3 DEF FamilyTree
    <3>. QED  BY <3>1, <1>1, <1>2
  <2>. QED  BY <2>1, <2>2 DEF FamilyTree
<1>9. ScanSound'
  <2>1. ASSUME NEW w \in Slots  PROVE pc'[w] # "user" => state'[w] = "RUN"
    BY <1>1, <1>2 DEF ScanSound, ProcTypes
  <2>2. ASSUME NEW w \in Slots, pc'[w] = "scan"
        PROVE  \E k \in Slots : IsChild(k, w)' /\ (kids'[w] \/ idx'[w] <= k)
    <3>1. pc[w] = "scan" /\ w # s
      BY <2>2 DEF ProcTypes
    <3>2. PICK k \in Slots : IsChild(k, w) /\ (kids[w] \/ idx[w] <= k)
      BY <3>1 DEF ScanSound
    <3>3. state[w] = "RUN" /\ pid[w] # pid[s]
      BY <3>1 DEF ScanSound, FamilyTree
    <3>4. k # c
      BY <3>2, <3>3, <1>1 DEF IsChild
    <3>. QED  BY <3>2, <3>4, <1>2 DEF IsChild
  <2>. QED  BY <2>1, <2>2 DEF ScanSound
<1>10. ZombiesDue'
  <2>1. \A t \in Slots : state'[t] = "ZOMBIE" <=> state[t] = "ZOMBIE" /\ t # c
    BY <1>2, <1>3
  <2>2. \A t \in Slots : state[t] = "ZOMBIE" /\ t # c => pid[t] # pid[c]
    BY <1>1 DEF FamilyTree
  <2>3. \A t \in Slots : state[t] = "ZOMBIE" /\ t # c =>
          Exit(t) # Exit(c)
    BY <2>2 DEF Exit
  <2>4. \A t \in Slots : Exit(t)' = Exit(t)
    BY DEF Exit
  <2>. QED  BY <2>1, <2>3, <2>4, <1>1, <1>4 DEF ZombiesDue
<1>. QED  BY <1>5, <1>6, <1>7, <1>8, <1>9, <1>10

-----------------------------------------------------------------------------
\* The steps of process_wait that reap nothing.
LEMMA ScanStep ==
  ASSUME PInv, NEW s \in Slots,
         wait_yield(s) \/ wait_end(s) \/ (wait_visit(s) /\ ~Reapable(idx[s], s))
  PROVE  PInv'
<1>. USE DEF PInv
<1>1. /\ UNCHANGED <<state, pid, ppid, exit_code, kernel_stack, next_pid, stacks, due>>
      /\ \A w \in Slots : w # s => pc'[w] = pc[w] /\ idx'[w] = idx[w] /\ kids'[w] = kids[w]
      /\ ProcTypes'
  <2>1. CASE wait_yield(s)
    BY <2>1, ProcAssumption DEF wait_yield, Rescan, procVars, ProcTypes
  <2>2. CASE wait_end(s)
    <3>1. CASE kids[s]
      <4>1. /\ idx' = [idx EXCEPT ![s] = 0] /\ kids' = [kids EXCEPT ![s] = FALSE]
            /\ UNCHANGED <<state, pid, ppid, exit_code, kernel_stack, next_pid, stacks, due, pc>>
        BY <2>2, <3>1 DEF wait_end, Rescan, procVars
      <4>. QED  BY <4>1, ProcAssumption DEF ProcTypes
    <3>2. CASE ~kids[s]
      <4>1. /\ pc' = [pc EXCEPT ![s] = "user"]
            /\ UNCHANGED <<state, pid, ppid, exit_code, kernel_stack, next_pid, stacks, due,
                           idx, kids>>
        BY <2>2, <3>2 DEF wait_end, procVars
      <4>. QED  BY <4>1 DEF ProcTypes
    <3>. QED  BY <3>1, <3>2
  <2>3. CASE wait_visit(s) /\ ~Reapable(idx[s], s)
    <3>1. /\ UNCHANGED <<state, pid, ppid, exit_code, kernel_stack, next_pid, stacks, due, pc>>
          /\ kids' = [kids EXCEPT ![s] = @ \/ Counted(idx[s], s)]
          /\ idx' = [idx EXCEPT ![s] = idx[s] + 1] /\ idx[s] < MAX_PROCS
      BY <2>3 DEF wait_visit, ScanLimit
    <3>2. Counted(idx[s], s) \in BOOLEAN
      BY DEF Counted, IsChild
    <3>3. (kids[s] \/ Counted(idx[s], s)) \in BOOLEAN
      BY <3>2 DEF ProcTypes
    <3>4. kids' \in [Slots -> BOOLEAN] /\ \A w \in Slots : w # s => kids'[w] = kids[w]
      BY <3>1, <3>3 DEF ProcTypes
    <3>5. idx' \in [Slots -> 0 .. MAX_PROCS] /\ \A w \in Slots : w # s => idx'[w] = idx[w]
      BY <3>1, ProcAssumption DEF ProcTypes
    <3>. QED  BY <3>1, <3>4, <3>5 DEF ProcTypes
  <2>. QED  BY <2>1, <2>2, <2>3
<1>2. BootProcess' /\ PidsBounded' /\ FamilyTree' /\ ZombiesDue'
  BY <1>1 DEF BootProcess, PidsBounded, FamilyTree, ZombiesDue, Exit
<1>3. \A k, w \in Slots : IsChild(k, w)' <=> IsChild(k, w)
  BY <1>1 DEF IsChild
<1>4. /\ pc'[s] # "user" => state[s] = "RUN"
      /\ pc'[s] = "scan" => \E c \in Slots : IsChild(c, s) /\ (kids'[s] \/ idx'[s] <= c)
  <2>1. CASE wait_yield(s)
    <3>1. PICK c \in Slots : IsChild(c, s)
      BY <2>1 DEF wait_yield, Children
    <3>2. state[s] = "RUN" /\ idx'[s] = 0
      BY <2>1 DEF wait_yield, Running, Rescan, ProcTypes
    <3>. QED  BY <3>1, <3>2, SlotZero
  <2>2. CASE wait_end(s)
    <3>1. pc[s] = "scan" /\ state[s] = "RUN"
      BY <2>2 DEF wait_end, ScanSound
    <3>2. PICK c \in Slots : IsChild(c, s)
      BY <3>1 DEF ScanSound
    <3>3. pc'[s] = "user" \/ idx'[s] = 0
      BY <2>2 DEF wait_end, Rescan, ProcTypes
    <3>. QED  BY <3>1, <3>2, <3>3, SlotZero
  <2>3. CASE wait_visit(s) /\ ~Reapable(idx[s], s)
    <3>1. pc[s] = "scan" /\ pc' = pc /\ idx'[s] = idx[s] + 1 /\ state[s] = "RUN"
      BY <2>3 DEF wait_visit, ScanSound, ProcTypes
    <3>2. kids'[s] <=> kids[s] \/ IsChild(idx[s], s)
      BY <2>3 DEF wait_visit, Counted, ProcTypes
    <3>3. PICK c \in Slots : IsChild(c, s) /\ (kids[s] \/ idx[s] <= c)
      BY <3>1 DEF ScanSound
    <3>4. CASE kids[s]
      BY <3>1, <3>2, <3>3, <3>4
    <3>5. CASE c = idx[s]
      BY <3>1, <3>2, <3>3, <3>5
    <3>6. CASE ~kids[s] /\ c # idx[s]
      <4>1. idx[s] + 1 <= c
        BY <3>3, <3>6, SlotZero DEF ProcTypes
      <4>. QED  BY <4>1, <3>1, <3>3
    <3>. QED  BY <3>4, <3>5, <3>6
  <2>. QED  BY <2>1, <2>2, <2>3
<1>5. ScanSound'
  <2>1. ASSUME NEW w \in Slots, w # s
        PROVE  /\ pc'[w] # "user" => state'[w] = "RUN"
               /\ pc'[w] = "scan" => \E c \in Slots : IsChild(c, w)' /\ (kids'[w] \/ idx'[w] <= c)
    BY <2>1, <1>1, <1>3 DEF ScanSound
  <2>2. /\ pc'[s] # "user" => state'[s] = "RUN"
        /\ pc'[s] = "scan" => \E c \in Slots : IsChild(c, s)' /\ (kids'[s] \/ idx'[s] <= c)
    BY <1>1, <1>3, <1>4
  <2>. QED  BY <2>1, <2>2 DEF ScanSound
<1>. QED  BY <1>1, <1>2, <1>5

\* The steps that leave the process table alone but for a kernel_stack: init's
\* halt and the last store of process_wait.
LEMMA ReturnStep ==
  ASSUME PInv, init_exit \/ \E s \in Slots : wait_reap(s)
  PROVE  PInv'
<1>. USE DEF PInv
<1>1. PICK s \in Slots : /\ pc' = [pc EXCEPT ![s] = "halt"] \/ pc' = [pc EXCEPT ![s] = "user"]
                         /\ state[s] = "RUN"
                         /\ kernel_stack' \in [Slots -> Nat]
                         /\ UNCHANGED <<state, pid, ppid, exit_code, next_pid, stacks, idx, kids, due>>
  <2>1. CASE init_exit
    BY <2>1, SlotZero DEF init_exit, procVars, Running, ProcTypes
  <2>2. CASE \E s \in Slots : wait_reap(s)
    <3>1. PICK s \in Slots : wait_reap(s)
      BY <2>2
    <3>2. pc[s] = "reap" /\ pc' = [pc EXCEPT ![s] = "user"]
      BY <3>1 DEF wait_reap
    <3>3. state[s] = "RUN"
      BY <3>2 DEF ScanSound
    <3>4. kernel_stack' \in [Slots -> Nat]
      BY <3>1 DEF wait_reap, ProcTypes
    <3>. QED  BY <3>1, <3>2, <3>3, <3>4 DEF wait_reap
  <2>. QED  BY <2>1, <2>2
<1>2. ProcTypes'
  BY <1>1 DEF ProcTypes
<1>3. BootProcess' /\ PidsBounded' /\ FamilyTree' /\ ZombiesDue'
  BY <1>1 DEF BootProcess, PidsBounded, FamilyTree, ZombiesDue, Exit
<1>4. ScanSound'
  BY <1>1 DEF ScanSound, IsChild, ProcTypes
<1>. QED  BY <1>2, <1>3, <1>4

\* Every step of every process keeps the invariant of the process table.
LEMMA ProcStep == PInv /\ [Next]_vars => PInv'
<1>. SUFFICES ASSUME PInv, [Next]_vars  PROVE PInv'
  OBVIOUS
<1>1. ASSUME UNCHANGED tableVars  PROVE PInv'
  BY <1>1 DEF tableVars, procVars, waitVars, PInv, ProcTypes, BootProcess, PidsBounded,
              FamilyTree, ScanSound, ZombiesDue, Exit, IsChild
<1>2. CASE UNCHANGED vars
  BY <1>1, <1>2 DEF vars, tableVars
<1>3. CASE init_exit
  BY <1>3, ReturnStep
<1>4. ASSUME NEW s \in Slots, fork_no_stack(s)  PROVE PInv'
  <2>1. Min(FreeSlots) \in Slots \ {0} /\ state[Min(FreeSlots)] = "FREE"
    BY <1>4, FirstFreeSlot DEF fork_no_stack
  <2>2. next_pid \in Nat \ {0} /\ stacks \in Nat
    BY DEF PInv, ProcTypes
  <2>. QED  BY <1>4, <2>1, <2>2, EntryFails DEF fork_no_stack
<1>5. ASSUME NEW s \in Slots, fork_no_memory(s)  PROVE PInv'
  <2>1. Min(FreeSlots) \in Slots \ {0} /\ state[Min(FreeSlots)] = "FREE"
    BY <1>5, FirstFreeSlot DEF fork_no_memory
  <2>2. next_pid \in Nat \ {0} /\ stacks \in Nat /\ pid[s] \in Nat
    BY DEF PInv, ProcTypes
  <2>. QED  BY <1>5, <2>1, <2>2, EntryFails DEF fork_no_memory
<1>6. ASSUME NEW s \in Slots, process_fork(s)  PROVE PInv'
  BY <1>6, ForkStep
<1>7. ASSUME NEW s \in Slots, NEW code \in Codes, process_exit(s, code)  PROVE PInv'
  BY <1>7, ExitStep
<1>8. ASSUME NEW s \in Slots, wait_at_once(s)  PROVE PInv'
  <2>. DEFINE c == Min(Zombies(s))
  <2>1. Zombies(s) \in SUBSET Nat /\ Zombies(s) # {}
    BY <1>8, SlotZero DEF wait_at_once, Zombies
  <2>2. c \in Slots /\ Reapable(c, s)
    BY <2>1, MinIsLeast DEF Zombies
  <2>3. /\ state' = [state EXCEPT ![c] = "FREE"] /\ Report(s, c)
        /\ kernel_stack' = [kernel_stack EXCEPT ![c] = 0]
        /\ state[s] = "RUN" /\ pc[s] = "user"
        /\ UNCHANGED <<pid, ppid, exit_code, next_pid, stacks, pc, idx, kids>>
    BY <1>8 DEF wait_at_once, waitVars, Running
  <2>. HIDE DEF c
  <2>4. kernel_stack' \in [Slots -> Nat]
    BY <2>3 DEF PInv, ProcTypes
  <2>. QED  BY <2>2, <2>3, <2>4, ReapStep
<1>9. ASSUME NEW s \in Slots, wait_yield(s) \/ wait_end(s)  PROVE PInv'
  BY <1>9, ScanStep
<1>10. ASSUME NEW s \in Slots, wait_visit(s)  PROVE PInv'
  <2>1. CASE ~Reapable(idx[s], s)
    BY <1>10, <2>1, ScanStep
  <2>2. CASE Reapable(idx[s], s)
    <3>1. idx[s] \in Slots
      BY <1>10, ProcAssumption DEF wait_visit, ScanLimit, Slots, PInv, ProcTypes
    <3>2. /\ state' = [state EXCEPT ![idx[s]] = "FREE"] /\ Report(s, idx[s])
          /\ pc' = [pc EXCEPT ![s] = "reap"] /\ pc[s] = "scan"
          /\ UNCHANGED <<pid, ppid, exit_code, kernel_stack, next_pid, stacks, idx, kids>>
      BY <1>10, <2>2 DEF wait_visit
    <3>3. state[s] = "RUN" /\ pc' # pc /\ kernel_stack' \in [Slots -> Nat]
      BY <3>2 DEF PInv, ScanSound, ProcTypes
    <3>. QED  BY <2>2, <3>1, <3>2, <3>3, ReapStep
  <2>. QED  BY <2>1, <2>2
<1>11. ASSUME NEW s \in Slots, wait_reap(s)  PROVE PInv'
  BY <1>11, ReturnStep
<1>12. ASSUME NEW s \in Slots, NEW n \in Nodes, sys_open(s, n)  PROVE PInv'
  BY <1>1, <1>12 DEF sys_open, tableVars
<1>13. ASSUME NEW s \in Slots, NEW d \in Fds, sys_close(s, d)  PROVE PInv'
  BY <1>1, <1>13 DEF sys_close, tableVars
<1>14. ASSUME NEW s \in Slots, NEW d \in Fds, NEW len \in 1 .. MaxRead, sys_read(s, d, len)
       PROVE PInv'
  BY <1>1, <1>14 DEF sys_read, tableVars
<1>. QED
  BY <1>2, <1>3, <1>4, <1>5, <1>6, <1>7, <1>8, <1>9, <1>10, <1>11, <1>12, <1>13, <1>14 DEF Next

\* After process_initialize there is process 0 and nothing else.
LEMMA ProcInit == Init => PInv
BY ProcAssumption DEF Init, PInv, ProcTypes, BootProcess, PidsBounded, FamilyTree,
                      ScanSound, ZombiesDue, Exit, Slots

\* The invariant of the process table holds under every interleaving.
THEOREM ProcInvariance == Spec => []PInv
BY ProcInit, ProcStep, PTL DEF Spec

\* Distinct pids, and a running, older parent for every process and zombie.
THEOREM FamilyTreeTheorem == Spec => []FamilyTree
<1>1. PInv => FamilyTree  BY DEF PInv
<1>. QED  BY <1>1, ProcInvariance, PTL

\* The zombies are exactly the exits that no wait has reported.
THEOREM ZombiesDueTheorem == Spec => []ZombiesDue
<1>1. PInv => ZombiesDue  BY DEF PInv
<1>. QED  BY <1>1, ProcInvariance, PTL

\* A scan of process_wait that others interrupt never misses every child.
THEOREM EchildTheorem == Spec => []EchildSound
<1>1. PInv => EchildSound
  <2>. SUFFICES ASSUME PInv, NEW s \in Slots, pc[s] = "scan"
                PROVE  Children(s) # {} /\ (idx[s] = MAX_PROCS => kids[s])
    BY DEF EchildSound
  <2>1. PICK c \in Slots : IsChild(c, s) /\ (kids[s] \/ idx[s] <= c)
    BY DEF PInv, ScanSound
  <2>. QED  BY <2>1, ProcAssumption DEF Children, Slots
<1>. QED  BY <1>1, ProcInvariance, PTL

\* A slot in use keeps its pid and is given up only as a zombie, to a wait of its
\* own parent.
THEOREM LifecycleTheorem == Spec => SlotLifecycle
<1>. DEFINE Live(c) ==
       /\ pid'[c] = pid[c]
       /\ state'[c] = "FREE" => state[c] = "ZOMBIE" /\ Exit(c) \in due \ due'
       /\ state[c] = "ZOMBIE" => state'[c] # "RUN"
<1>. DEFINE Lives == \A c \in Slots : state[c] # "FREE" => Live(c)
<1>1. PInv /\ [Next]_vars => [Lives]_vars
  <2>. SUFFICES ASSUME PInv, Next  PROVE Lives
    OBVIOUS
  <2>1. ASSUME state' = state, pid' = pid  PROVE Lives
    BY <2>1
  <2>2. ASSUME NEW s \in Slots, NEW par, NEW stk, NEW st, FreeSlots # {},
               Entry(Min(FreeSlots), par, stk, st)
        PROVE  Lives
    <3>1. Min(FreeSlots) \in Slots \ {0} /\ state[Min(FreeSlots)] = "FREE"
      BY <2>2, FirstFreeSlot
    <3>2. \A c \in Slots : c # Min(FreeSlots) => pid'[c] = pid[c] /\ state'[c] = state[c]
      BY <2>2 DEF Entry, PInv, ProcTypes
    <3>. QED  BY <3>1, <3>2
  <2>3. ASSUME NEW s \in Slots, NEW z \in Slots, Reapable(z, s), Report(s, z),
               state' = [state EXCEPT ![z] = "FREE"], pid' = pid
        PROVE  Lives
    <3>1. \A c \in Slots : c # z => state'[c] = state[c]
      BY <2>3 DEF PInv, ProcTypes
    <3>2. state[z] = "ZOMBIE" /\ pid[s] = ppid[z] /\ state'[z] = "FREE"
      BY <2>3 DEF Reapable, IsChild, PInv, ProcTypes
    <3>3. Exit(z) \in due \ due'
      BY <2>3, <3>2 DEF Report, Exit, PInv, ZombiesDue
    <3>. QED  BY <3>1, <3>2, <3>3, <2>3
  <2>4. CASE init_exit
    BY <2>1, <2>4 DEF init_exit, procVars
  <2>5. ASSUME NEW s \in Slots, fork_no_stack(s) \/ fork_no_memory(s) \/ process_fork(s)
        PROVE  Lives
    BY <2>2, <2>5 DEF fork_no_stack, fork_no_memory, process_fork
  <2>6. ASSUME NEW s \in Slots, NEW code \in Codes, process_exit(s, code)  PROVE Lives
    <3>1. state' = [state EXCEPT ![s] = "ZOMBIE"] /\ pid' = pid /\ state[s] = "RUN"
      BY <2>6 DEF process_exit, Running
    <3>. QED  BY <3>1 DEF PInv, ProcTypes
  <2>7. ASSUME NEW s \in Slots, wait_at_once(s)  PROVE Lives
    <3>1. Zombies(s) \in SUBSET Nat /\ Zombies(s) # {}
      BY <2>7, SlotZero DEF wait_at_once, Zombies
    <3>2. Min(Zombies(s)) \in Slots /\ Reapable(Min(Zombies(s)), s)
      BY <3>1, MinIsLeast DEF Zombies
    <3>. QED  BY <2>3, <2>7, <3>2 DEF wait_at_once, Running
  <2>8. ASSUME NEW s \in Slots, wait_visit(s)  PROVE Lives
    <3>1. CASE Reapable(idx[s], s)
      <4>1. idx[s] \in Slots
        BY <2>8, ProcAssumption DEF wait_visit, ScanLimit, Slots, PInv, ProcTypes
      <4>2. state[s] = "RUN" /\ pc[s] = "scan"
        BY <2>8 DEF wait_visit, PInv, ScanSound
      <4>. QED  BY <2>3, <2>8, <3>1, <4>1, <4>2 DEF wait_visit
    <3>2. CASE ~Reapable(idx[s], s)
      BY <2>1, <2>8, <3>2 DEF wait_visit
    <3>. QED  BY <3>1, <3>2
  <2>9. ASSUME NEW s \in Slots, wait_yield(s) \/ wait_reap(s) \/ wait_end(s)  PROVE Lives
    BY <2>1, <2>9 DEF wait_yield, wait_reap, wait_end, procVars
  <2>10. ASSUME NEW s \in Slots, NEW n \in Nodes, sys_open(s, n)  PROVE Lives
    BY <2>1, <2>10 DEF sys_open, procVars
  <2>11. ASSUME NEW s \in Slots, NEW d \in Fds, sys_close(s, d)  PROVE Lives
    BY <2>1, <2>11 DEF sys_close, procVars
  <2>12. ASSUME NEW s \in Slots, NEW d \in Fds, NEW len \in 1 .. MaxRead, sys_read(s, d, len)
         PROVE  Lives
    BY <2>1, <2>12 DEF sys_read, procVars
  <2>. HIDE DEF Lives
  <2>. QED  BY <2>4, <2>5, <2>6, <2>7, <2>8, <2>9, <2>10, <2>11, <2>12 DEF Next
<1>. QED  BY <1>1, ProcInvariance, PTL DEF SlotLifecycle, Spec

-----------------------------------------------------------------------------
(* The open files. *)

FInv == FileTypes /\ RefcountExact /\ FilesClean

-----------------------------------------------------------------------------
\* The references to a file are finitely many, so they can be counted.
LEMMA RefsFinite ==
  ASSUME NEW f
  PROVE  /\ IsFiniteSet(Refs(f)) /\ Cardinality(Refs(f)) \in Nat
         /\ \A s \in Slots : IsFiniteSet(Uses(s, f)) /\ Cardinality(Uses(s, f)) \in Nat
<1>1. IsFiniteSet(Slots) /\ IsFiniteSet(Fds)
  BY FS_Interval, ProcAssumption DEF Slots, Fds
<1>2. IsFiniteSet(Slots \X Fds)
  BY <1>1, FS_Product
<1>3. IsFiniteSet(Refs(f))
  BY <1>2, FS_Subset DEF Refs
<1>4. \A s \in Slots : IsFiniteSet(Uses(s, f))
  BY <1>1, FS_Subset DEF Uses
<1>. QED  BY <1>3, <1>4, FS_CardinalityType

\* The descriptors one process contributes to the references of a file.
LEMMA RowCard ==
  ASSUME NEW s, NEW U, IsFiniteSet(U)
  PROVE  IsFiniteSet({s} \X U) /\ Cardinality({s} \X U) = Cardinality(U)
<1>1. IsFiniteSet({s}) /\ Cardinality({s}) = 1
  BY FS_Singleton
<1>2. IsFiniteSet({s} \X U) /\ Cardinality({s} \X U) = 1 * Cardinality(U)
  BY <1>1, FS_Product
<1>3. Cardinality(U) \in Nat
  BY FS_CardinalityType
<1>. QED  BY <1>2, <1>3

-----------------------------------------------------------------------------
\* Steps that move no descriptor: no process with a descriptor stops running.
LEMMA FilesUnchanged ==
  ASSUME FInv, UNCHANGED <<fds, fileVars>>,
         \A s \in Slots : state[s] = "RUN" => state'[s] = "RUN"
  PROVE  FInv'
BY DEF FInv, fileVars, FileTypes, RefcountExact, FilesClean, Refs

\* A failed fork clears the descriptors of a free slot, which has none.
LEMMA ClearFree ==
  ASSUME FInv, NEW c \in Slots, state[c] # "RUN",
         fds' = [fds EXCEPT ![c] = [d \in Fds |-> NULL]]
  PROVE  fds' = fds
<1>1. \A d \in Fds : fds[c][d] = NULL
  BY DEF FInv, FilesClean
<1>2. fds[c] = [d \in Fds |-> NULL]
  BY <1>1 DEF FInv, FileTypes
<1>. QED  BY <1>2 DEF FInv, FileTypes

\* fork: each descriptor of the parent adds one reference, on the child's row.
LEMMA ForkFiles ==
  ASSUME PInv, FInv, NEW s \in Slots, process_fork(s)
  PROVE  FInv'
<1>. USE DEF FInv
<1>. DEFINE c == Min(FreeSlots)
<1>1. c \in Slots /\ state[c] = "FREE"
  BY FirstFreeSlot DEF process_fork
<1>2. /\ fds' = [fds EXCEPT ![c] = fds[s]]
      /\ refcount' = [f \in Files |-> refcount[f] + Cardinality(Uses(s, f))]
      /\ UNCHANGED <<node, offset>> /\ state[s] = "RUN"
      /\ state' = [state EXCEPT ![c] = "RUN"]
  BY DEF process_fork, ForkRefcount, Running, Entry
<1>. HIDE DEF c
<1>3. FileTypes'
  <2>1. fds' \in [Slots -> [Fds -> Files \cup {NULL}]]
    BY <1>2 DEF FileTypes
  <2>2. refcount' \in [Files -> Nat]
    <3>1. \A f \in Files : Cardinality(Uses(s, f)) \in Nat /\ refcount[f] \in Nat
      BY RefsFinite DEF FileTypes
    <3>2. \A f \in Files : refcount[f] + Cardinality(Uses(s, f)) \in Nat
      BY <3>1
    <3>. QED  BY <3>2, <1>2
  <2>. QED  BY <2>1, <2>2, <1>2 DEF FileTypes
<1>4. \A d \in Fds : fds[c][d] = NULL
  BY <1>1 DEF FilesClean
<1>5. \A t \in Slots : t # c => fds'[t] = fds[t]
  BY <1>2 DEF FileTypes
<1>6. fds'[c] = fds[s]
  BY <1>1, <1>2 DEF FileTypes
<1>7. ASSUME NEW f \in Files  PROVE refcount'[f] = Cardinality(Refs(f)')
  <2>. DEFINE row == {c} \X Uses(s, f)
  <2>1. f # NULL
    BY DEF Files, NULL
  <2>2. Refs(f)' = Refs(f) \cup row
    <3>1. ASSUME NEW r \in Slots \X Fds
          PROVE  fds'[r[1]][r[2]] = f <=> r \in Refs(f) \cup row
      <4>1. CASE r[1] = c
        <5>1. r \in row <=> fds[s][r[2]] = f
          BY <4>1 DEF Uses
        <5>2. r \notin Refs(f)
          BY <4>1, <1>4, <2>1 DEF Refs
        <5>. QED  BY <5>1, <5>2, <4>1, <1>6
      <4>2. CASE r[1] # c
        <5>1. r \notin row
          BY <4>2
        <5>2. r \in Refs(f) <=> fds[r[1]][r[2]] = f
          BY DEF Refs
        <5>. QED  BY <5>1, <5>2, <4>2, <1>5
      <4>. QED  BY <4>1, <4>2
    <3>2. Refs(f) \cup row \subseteq Slots \X Fds
      BY <1>1 DEF Refs, Uses
    <3>. QED  BY <3>1, <3>2 DEF Refs
  <2>3. Refs(f) \cap row = {}
    BY <1>4, <2>1 DEF Refs
  <2>4. IsFiniteSet(Refs(f)) /\ IsFiniteSet(row) /\ Cardinality(row) = Cardinality(Uses(s, f))
    BY RefsFinite, RowCard
  <2>5. Cardinality(Refs(f) \cup row)
          = Cardinality(Refs(f)) + Cardinality(row) - Cardinality(Refs(f) \cap row)
    BY <2>4, FS_Union
  <2>6. Cardinality(Refs(f) \cap row) = 0
    BY <2>3, FS_EmptySet
  <2>7. Cardinality(Refs(f)) \in Nat /\ Cardinality(Uses(s, f)) \in Nat
    BY RefsFinite
  <2>. HIDE DEF row
  <2>8. Cardinality(Refs(f)') = Cardinality(Refs(f)) + Cardinality(Uses(s, f))
    BY <2>2, <2>4, <2>5, <2>6, <2>7
  <2>. QED  BY <2>8, <1>2 DEF RefcountExact
<1>8. FilesClean'
  <2>1. ASSUME NEW f \in Files
        PROVE  IF refcount'[f] = 0 THEN node'[f] = NULL /\ offset'[f] = 0
                                   ELSE node'[f] # NULL /\ offset'[f] <= Length[node'[f]]
    <3>1. Uses(s, f) # {} => refcount[f] # 0
      <4>1. ASSUME NEW d \in Uses(s, f), refcount[f] = 0  PROVE FALSE
        <5>1. <<s, d>> \in Refs(f)
          BY DEF Refs, Uses
        <5>2. Refs(f) = {}
          BY <4>1, RefsFinite, FS_EmptySet DEF RefcountExact
        <5>. QED  BY <5>1, <5>2
      <4>. QED  BY <4>1
    <3>2. Uses(s, f) = {} => Cardinality(Uses(s, f)) = 0
      BY FS_EmptySet
    <3>3. refcount[f] \in Nat /\ Cardinality(Uses(s, f)) \in Nat
      BY RefsFinite DEF FileTypes
    <3>4. refcount'[f] = 0 <=> refcount[f] = 0
      BY <3>1, <3>2, <3>3, <1>2
    <3>. QED  BY <3>4, <1>2 DEF FilesClean
  <2>2. ASSUME NEW t \in Slots, NEW d \in Fds, fds'[t][d] # NULL  PROVE state'[t] = "RUN"
    BY <2>2, <1>1, <1>2, <1>5 DEF FilesClean, PInv, ProcTypes
  <2>. QED  BY <2>1, <2>2 DEF FilesClean
<1>. QED  BY <1>3, <1>7, <1>8 DEF RefcountExact

-----------------------------------------------------------------------------
\* open_file_release, uses[f] times on each f: if the references shrink by as
\* much, the counts stay exact and the files nobody refers to come out clean.
LEMMA ReleaseStep ==
  ASSUME FInv, NEW uses \in [Files -> Nat], Release(uses),
         fds' \in [Slots -> [Fds -> Files \cup {NULL}]],
         \A f \in Files : Cardinality(Refs(f)') = Cardinality(Refs(f)) - uses[f]
                          /\ Cardinality(Refs(f)') \in Nat,
         \A s \in Slots, d \in Fds : fds'[s][d] # NULL => state'[s] = "RUN"
  PROVE  FInv'
<1>. USE DEF FInv
<1>. DEFINE gone == {f \in Files : uses[f] > 0 /\ refcount[f] <= uses[f]}
<1>1. \A f \in Files : refcount[f] \in Nat /\ uses[f] \in Nat /\ uses[f] <= refcount[f]
  BY DEF FileTypes, RefcountExact
<1>2. /\ refcount' = [f \in Files |-> IF f \in gone THEN 0 ELSE refcount[f] - uses[f]]
      /\ node' = [f \in Files |-> IF f \in gone THEN NULL ELSE node[f]]
      /\ offset' = [f \in Files |-> IF f \in gone THEN 0 ELSE offset[f]]
  BY DEF Release
<1>3. \A f \in Files : f \in gone <=> uses[f] > 0 /\ refcount[f] <= uses[f]
  OBVIOUS
<1>. HIDE DEF gone
<1>4. \A f \in Files : refcount'[f] = refcount[f] - uses[f] /\ refcount'[f] \in Nat
  BY <1>1, <1>2, <1>3
<1>5. refcount' \in [Files -> Nat]
  BY <1>2, <1>4
<1>6. FileTypes'
  BY <1>2, <1>5 DEF FileTypes
<1>7. RefcountExact'
  BY <1>4 DEF RefcountExact
<1>8. ASSUME NEW f \in Files
      PROVE  IF refcount'[f] = 0 THEN node'[f] = NULL /\ offset'[f] = 0
                                 ELSE node'[f] # NULL /\ offset'[f] <= Length[node'[f]]
  <2>1. CASE f \in gone
    <3>1. refcount'[f] = 0 /\ node'[f] = NULL /\ offset'[f] = 0
      BY <2>1, <1>2
    <3>. QED  BY <3>1
  <2>2. CASE f \notin gone
    <3>1. node'[f] = node[f] /\ offset'[f] = offset[f]
      BY <2>2, <1>2
    <3>2. refcount'[f] = 0 <=> refcount[f] = 0
      BY <2>2, <1>1, <1>3, <1>4
    <3>. QED  BY <3>1, <3>2 DEF FilesClean
  <2>. QED  BY <2>1, <2>2
<1>9. FilesClean'
  BY <1>8 DEF FilesClean
<1>. QED  BY <1>6, <1>7, <1>9

\* Taking a subset away from the references.
LEMMA RefsLess ==
  ASSUME NEW f, NEW row \in SUBSET Refs(f), Refs(f)' = Refs(f) \ row
  PROVE  Cardinality(Refs(f)') = Cardinality(Refs(f)) - Cardinality(row)
         /\ Cardinality(Refs(f)') \in Nat
<1>1. IsFiniteSet(Refs(f))
  BY RefsFinite
<1>2. Refs(f) \cap row = row
  OBVIOUS
<1>3. /\ IsFiniteSet(Refs(f) \ row)
      /\ Cardinality(Refs(f) \ row) = Cardinality(Refs(f)) - Cardinality(Refs(f) \cap row)
  BY <1>1, FS_Difference
<1>4. Cardinality(Refs(f) \ row) \in Nat
  BY <1>3, FS_CardinalityType
<1>. QED  BY <1>2, <1>3, <1>4

\* exit releases every descriptor of the process.
LEMMA ExitFiles ==
  ASSUME PInv, FInv, NEW s \in Slots, NEW code \in Codes, process_exit(s, code)
  PROVE  FInv'
<1>. DEFINE uses == [f \in Files |-> Cardinality(Uses(s, f))]
<1>1. /\ Release(uses)
      /\ fds' = [fds EXCEPT ![s] = [d \in Fds |-> NULL]]
      /\ state' = [state EXCEPT ![s] = "ZOMBIE"]
  BY DEF process_exit
<1>2. uses \in [Files -> Nat]
  BY RefsFinite
<1>3. fds' \in [Slots -> [Fds -> Files \cup {NULL}]]
  BY <1>1 DEF FInv, FileTypes
<1>4. /\ \A t \in Slots : t # s => fds'[t] = fds[t]
      /\ \A d \in Fds : fds'[s][d] = NULL
  BY <1>1 DEF FInv, FileTypes
<1>5. ASSUME NEW f \in Files
      PROVE  Cardinality(Refs(f)') = Cardinality(Refs(f)) - uses[f]
             /\ Cardinality(Refs(f)') \in Nat
  <2>. DEFINE row == {s} \X Uses(s, f)
  <2>1. f # NULL
    BY DEF Files, NULL
  <2>2. row \subseteq Refs(f)
    BY DEF Refs, Uses
  <2>3. ASSUME NEW r \in Slots \X Fds
        PROVE  fds'[r[1]][r[2]] = f <=> r \in Refs(f) /\ r \notin row
    <3>1. CASE r[1] = s
      <4>1. r \in row <=> fds[r[1]][r[2]] = f
        BY <3>1 DEF Uses
      <4>2. r \in Refs(f) <=> fds[r[1]][r[2]] = f
        BY DEF Refs
      <4>. QED  BY <4>1, <4>2, <3>1, <1>4, <2>1
    <3>2. CASE r[1] # s
      <4>1. r \notin row
        BY <3>2
      <4>. QED  BY <4>1, <3>2, <1>4 DEF Refs
    <3>. QED  BY <3>1, <3>2
  <2>4. Refs(f)' = Refs(f) \ row
    <3>. HIDE DEF row
    <3>. QED  BY <2>3 DEF Refs
  <2>5. Cardinality(row) = Cardinality(Uses(s, f))
    BY RefsFinite, RowCard
  <2>. HIDE DEF row
  <2>6. Cardinality(Refs(f)') = Cardinality(Refs(f)) - Cardinality(row)
        /\ Cardinality(Refs(f)') \in Nat
    BY <2>2, <2>4, RefsLess
  <2>. QED  BY <2>5, <2>6
<1>6. ASSUME NEW t \in Slots, NEW d \in Fds, fds'[t][d] # NULL  PROVE state'[t] = "RUN"
  BY <1>6, <1>1, <1>4 DEF FInv, FilesClean, PInv, ProcTypes
<1>. HIDE DEF uses
<1>. QED  BY <1>1, <1>2, <1>3, <1>5, <1>6, ReleaseStep

\* close releases the one reference it takes away.
LEMMA CloseFiles ==
  ASSUME PInv, FInv, NEW s \in Slots, NEW e \in Fds, sys_close(s, e)
  PROVE  FInv'
<1>. DEFINE uses == [f \in Files |-> IF f = fds[s][e] THEN 1 ELSE 0]
<1>1. /\ Release(uses) /\ fds[s][e] # NULL
      /\ fds' = [fds EXCEPT ![s][e] = NULL]
      /\ state' = state
  BY DEF sys_close, procVars
<1>2. uses \in [Files -> Nat]
  OBVIOUS
<1>3. fds' \in [Slots -> [Fds -> Files \cup {NULL}]]
  BY <1>1 DEF FInv, FileTypes
<1>4. \A t \in Slots, d \in Fds :
        fds'[t][d] = IF t = s /\ d = e THEN NULL ELSE fds[t][d]
  BY <1>1 DEF FInv, FileTypes
<1>5. ASSUME NEW f \in Files
      PROVE  Cardinality(Refs(f)') = Cardinality(Refs(f)) - uses[f]
             /\ Cardinality(Refs(f)') \in Nat
  <2>1. f # NULL
    BY DEF Files, NULL
  <2>2. CASE f = fds[s][e]
    <3>. DEFINE row == {<<s, e>>}
    <3>1. row \subseteq Refs(f)
      BY <2>2 DEF Refs
    <3>2. Refs(f)' = Refs(f) \ row
      BY <1>4, <2>1 DEF Refs
    <3>3. Cardinality(row) = 1
      BY FS_Singleton
    <3>4. uses[f] = 1
      BY <2>2
    <3>. HIDE DEF row
    <3>5. Cardinality(Refs(f)') = Cardinality(Refs(f)) - Cardinality(row)
          /\ Cardinality(Refs(f)') \in Nat
      BY <3>1, <3>2, RefsLess
    <3>. QED  BY <3>3, <3>4, <3>5
  <2>3. CASE f # fds[s][e]
    <3>1. Refs(f)' = Refs(f)
      BY <1>4, <2>1, <2>3 DEF Refs
    <3>2. Cardinality(Refs(f)) \in Nat
      BY RefsFinite
    <3>3. uses[f] = 0
      BY <2>3
    <3>. QED  BY <3>1, <3>2, <3>3
  <2>. QED  BY <2>2, <2>3
<1>6. ASSUME NEW t \in Slots, NEW d \in Fds, fds'[t][d] # NULL  PROVE state'[t] = "RUN"
  BY <1>6, <1>1, <1>4 DEF FInv, FilesClean
<1>. HIDE DEF uses
<1>. QED  BY <1>1, <1>2, <1>3, <1>5, <1>6, ReleaseStep

\* open takes a descriptor that points nowhere and a file nobody refers to.
LEMMA OpenFiles ==
  ASSUME PInv, FInv, NEW s \in Slots, NEW n \in Nodes, sys_open(s, n)
  PROVE  FInv'
<1>. USE DEF FInv
<1>. DEFINE f == Min(FreeFiles)
            e == Min(FreeFds(s))
<1>1. f \in Files /\ refcount[f] = 0
  <2>1. FreeFiles \in SUBSET Nat /\ FreeFiles # {}
    BY DEF sys_open, FreeFiles, Files
  <2>. QED  BY <2>1, MinIsLeast DEF FreeFiles
<1>2. e \in Fds /\ fds[s][e] = NULL
  <2>1. FreeFds(s) \in SUBSET Nat /\ FreeFds(s) # {}
    BY DEF sys_open, FreeFds, Fds
  <2>. QED  BY <2>1, MinIsLeast DEF FreeFds
<1>3. /\ node' = [node EXCEPT ![f] = n] /\ offset' = [offset EXCEPT ![f] = 0]
      /\ refcount' = [refcount EXCEPT ![f] = 1] /\ fds' = [fds EXCEPT ![s][e] = f]
      /\ state' = state /\ state[s] = "RUN"
  BY DEF sys_open, procVars, Running
<1>. HIDE DEF f, e
<1>4. FileTypes'
  BY <1>1, <1>2, <1>3 DEF FileTypes
<1>5. \A t \in Slots, d \in Fds : fds'[t][d] = IF t = s /\ d = e THEN f ELSE fds[t][d]
  BY <1>2, <1>3 DEF FileTypes
<1>6. ASSUME NEW g \in Files  PROVE refcount'[g] = Cardinality(Refs(g)')
  <2>1. g # NULL
    BY DEF Files, NULL
  <2>2. CASE g = f
    <3>1. Refs(f) = {}
      BY <1>1, RefsFinite, FS_EmptySet DEF RefcountExact
    <3>2. Refs(g)' = {<<s, e>>}
      BY <3>1, <2>2, <1>2, <1>5 DEF Refs
    <3>3. refcount'[g] = 1
      BY <2>2, <1>1, <1>3 DEF FileTypes
    <3>. QED  BY <3>2, <3>3, FS_Singleton
  <2>3. CASE g # f
    <3>1. Refs(g)' = Refs(g)
      BY <2>1, <2>3, <1>2, <1>5 DEF Refs
    <3>2. refcount'[g] = refcount[g]
      BY <2>3, <1>3 DEF FileTypes
    <3>. QED  BY <3>1, <3>2 DEF RefcountExact
  <2>. QED  BY <2>2, <2>3
<1>7. FilesClean'
  <2>1. ASSUME NEW g \in Files
        PROVE  IF refcount'[g] = 0 THEN node'[g] = NULL /\ offset'[g] = 0
                                   ELSE node'[g] # NULL /\ offset'[g] <= Length[node'[g]]
    <3>1. CASE g = f
      <4>1. refcount'[g] = 1 /\ node'[g] = n /\ offset'[g] = 0
        BY <3>1, <1>1, <1>3 DEF FileTypes
      <4>2. n # NULL /\ Length[n] \in Nat
        BY ProcAssumption DEF NULL
      <4>. QED  BY <4>1, <4>2
    <3>2. CASE g # f
      <4>1. refcount'[g] = refcount[g] /\ node'[g] = node[g] /\ offset'[g] = offset[g]
        BY <3>2, <1>3 DEF FileTypes
      <4>. QED  BY <4>1 DEF FilesClean
    <3>. QED  BY <3>1, <3>2
  <2>2. ASSUME NEW t \in Slots, NEW d \in Fds, fds'[t][d] # NULL  PROVE state'[t] = "RUN"
    BY <2>2, <1>3, <1>5 DEF FilesClean
  <2>. QED  BY <2>1, <2>2 DEF FilesClean
<1>. QED  BY <1>4, <1>6, <1>7 DEF RefcountExact

\* read never moves the shared offset past the end of the file.
LEMMA ReadFiles ==
  ASSUME PInv, FInv, NEW s \in Slots, NEW e \in Fds, NEW len \in 1 .. MaxRead, sys_read(s, e, len)
  PROVE  FInv'
<1>. USE DEF FInv
<1>. DEFINE f == fds[s][e]
<1>1. f \in Files
  BY DEF sys_read, FileTypes
<1>2. /\ offset' = [offset EXCEPT ![f] = @ + Got(f, len)]
      /\ UNCHANGED <<state, fds, node, refcount>>
  BY DEF sys_read, procVars
<1>3. refcount[f] # 0
  <2>1. <<s, e>> \in Refs(f)
    BY DEF Refs
  <2>2. refcount[f] = Cardinality(Refs(f))
    BY <1>1 DEF RefcountExact
  <2>. HIDE DEF f
  <2>. QED  BY <2>1, <2>2, RefsFinite, FS_EmptySet
<1>. HIDE DEF f
<1>4. node[f] \in Nodes /\ offset[f] \in Nat /\ offset[f] <= Length[node[f]]
      /\ Length[node[f]] \in Nat /\ len \in Nat
  BY <1>1, <1>3, ProcAssumption DEF FilesClean, FileTypes
<1>5. offset[f] + Got(f, len) \in Nat /\ offset[f] + Got(f, len) <= Length[node[f]]
  BY <1>4 DEF Got
<1>6. /\ offset' \in [Files -> Nat] /\ offset'[f] <= Length[node[f]]
      /\ \A g \in Files : g # f => offset'[g] = offset[g]
  BY <1>1, <1>2, <1>5 DEF FileTypes
<1>7. FileTypes'
  BY <1>2, <1>6 DEF FileTypes
<1>8. RefcountExact'
  BY <1>2 DEF RefcountExact, Refs
<1>9. FilesClean'
  BY <1>1, <1>2, <1>3, <1>6 DEF FilesClean
<1>. QED  BY <1>7, <1>8, <1>9

-----------------------------------------------------------------------------
\* Every system call keeps the counts exact and the free files clean.
LEMMA FileStep == PInv /\ FInv /\ [Next]_vars => FInv'
<1>. SUFFICES ASSUME PInv, FInv, [Next]_vars  PROVE FInv'
  OBVIOUS
<1>1. ASSUME UNCHANGED <<fds, fileVars>>, state' = state  PROVE FInv'
  BY <1>1, FilesUnchanged
<1>2. ASSUME NEW s \in Slots, NEW z \in Slots, Reapable(z, s),
             state' = [state EXCEPT ![z] = "FREE"], UNCHANGED <<fds, fileVars>>
      PROVE  FInv'
  <2>1. state[z] = "ZOMBIE"
    BY <1>2 DEF Reapable
  <2>2. \A t \in Slots : state[t] = "RUN" => state'[t] = "RUN"
    BY <2>1, <1>2 DEF PInv, ProcTypes
  <2>. QED  BY <1>2, <2>2, FilesUnchanged
<1>3. CASE UNCHANGED vars
  BY <1>1, <1>3 DEF vars, procVars
<1>4. CASE init_exit
  BY <1>1, <1>4 DEF init_exit, procVars
<1>5. ASSUME NEW s \in Slots, fork_no_stack(s) \/ fork_no_memory(s)  PROVE FInv'
  <2>. DEFINE c == Min(FreeSlots)
  <2>1. c \in Slots /\ state[c] = "FREE"
    BY <1>5, FirstFreeSlot DEF fork_no_stack, fork_no_memory
  <2>2. /\ fds' = [fds EXCEPT ![c] = [d \in Fds |-> NULL]] /\ UNCHANGED fileVars
        /\ state' = [state EXCEPT ![c] = "FREE"]
    BY <1>5 DEF fork_no_stack, fork_no_memory, Entry
  <2>. HIDE DEF c
  <2>3. fds' = fds
    BY <2>1, <2>2, ClearFree
  <2>4. state' = state
    BY <2>1, <2>2 DEF PInv, ProcTypes
  <2>. QED  BY <2>2, <2>3, <2>4, <1>1
<1>6. ASSUME NEW s \in Slots, process_fork(s)  PROVE FInv'
  BY <1>6, ForkFiles
<1>7. ASSUME NEW s \in Slots, NEW code \in Codes, process_exit(s, code)  PROVE FInv'
  BY <1>7, ExitFiles
<1>8. ASSUME NEW s \in Slots, wait_at_once(s)  PROVE FInv'
  <2>1. Zombies(s) \in SUBSET Nat /\ Zombies(s) # {}
    BY <1>8, SlotZero DEF wait_at_once, Zombies
  <2>2. Min(Zombies(s)) \in Slots /\ Reapable(Min(Zombies(s)), s)
    BY <2>1, MinIsLeast DEF Zombies
  <2>. QED  BY <1>2, <1>8, <2>2 DEF wait_at_once
<1>9. ASSUME NEW s \in Slots, wait_visit(s)  PROVE FInv'
  <2>1. idx[s] \in Slots
    BY <1>9, ProcAssumption DEF wait_visit, ScanLimit, Slots, PInv, ProcTypes
  <2>2. CASE Reapable(idx[s], s)
    BY <1>2, <1>9, <2>1, <2>2 DEF wait_visit
  <2>3. CASE ~Reapable(idx[s], s)
    BY <1>1, <1>9, <2>3 DEF wait_visit
  <2>. QED  BY <2>2, <2>3
<1>10. ASSUME NEW s \in Slots, wait_yield(s) \/ wait_reap(s) \/ wait_end(s)  PROVE FInv'
  BY <1>1, <1>10 DEF wait_yield, wait_reap, wait_end, procVars
<1>11. ASSUME NEW s \in Slots, NEW n \in Nodes, sys_open(s, n)  PROVE FInv'
  BY <1>11, OpenFiles
<1>12. ASSUME NEW s \in Slots, NEW d \in Fds, sys_close(s, d)  PROVE FInv'
  BY <1>12, CloseFiles
<1>13. ASSUME NEW s \in Slots, NEW d \in Fds, NEW len \in 1 .. MaxRead, sys_read(s, d, len)
       PROVE FInv'
  BY <1>13, ReadFiles
<1>. QED
  BY <1>3, <1>4, <1>5, <1>6, <1>7, <1>8, <1>9, <1>10, <1>11, <1>12, <1>13 DEF Next

\* After process_initialize nothing is open.
LEMMA FileInit == Init => FInv
<1>. SUFFICES ASSUME Init  PROVE FInv
  OBVIOUS
<1>1. FileTypes /\ FilesClean
  BY DEF Init, FileTypes, FilesClean
<1>2. ASSUME NEW f \in Files  PROVE refcount[f] = Cardinality(Refs(f))
  <2>1. f # NULL
    BY DEF Files, NULL
  <2>2. Refs(f) = {}
    BY <2>1 DEF Init, Refs
  <2>. QED  BY <2>2, FS_EmptySet DEF Init
<1>. QED  BY <1>1, <1>2 DEF FInv, RefcountExact

\* The invariant of the open-file table holds with that of the process table,
\* which says that a free slot stays out of the way until fork takes it.
THEOREM FileInvariance == Spec => [](PInv /\ FInv)
BY ProcInit, ProcStep, FileInit, FileStep, PTL DEF Spec

\* refcount is the number of descriptors that point to the open file.
THEOREM RefcountTheorem == Spec => []RefcountExact
<1>1. PInv /\ FInv => RefcountExact  BY DEF FInv
<1>. QED  BY <1>1, FileInvariance, PTL

\* A free open file is clean, a used one is read inside its file, and dead
\* processes hold no descriptor.
THEOREM FilesCleanTheorem == Spec => []FilesClean
<1>1. PInv /\ FInv => FilesClean  BY DEF FInv
<1>. QED  BY <1>1, FileInvariance, PTL

\* The types of both tables; that read adds a number to an offset rests on
\* FilesClean and RefcountExact, so TypeOK is not inductive by itself.
THEOREM TypeTheorem == Spec => []TypeOK
<1>1. PInv /\ FInv => TypeOK  BY DEF PInv, FInv, TypeOK
<1>. QED  BY <1>1, FileInvariance, PTL
=============================================================================
