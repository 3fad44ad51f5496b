--------------------------------- MODULE Vm ---------------------------------
(***************************************************************************)
(* Address spaces: the page directories and page tables of paging.c, and   *)
(* the work that fork, execve, exit and sbrk do on them (process.c, elf.c, *)
(* syscall.c, kernel.c).                                                   *)
(*                                                                         *)
(* All of it runs with interrupts off, one call at a time, but a call      *)
(* makes many allocations and each of them can be the one that fails.  So  *)
(* a call is a sequence of steps, one for each page it handles, and op     *)
(* says where it is:                                                       *)
(*   user     no call in progress                                          *)
(*   load     elf_load into dir; boot_stack, stack   the user stack        *)
(*   copy, install   the two phases of fork                                *)
(*   grow     the loop of sbrk                                             *)
(* A directory and a table are both ENTRIES long, so page v is entry       *)
(* v % ENTRIES of the table in entry v \div ENTRIES of the directory.      *)
(* Entry 0 of every directory is first_table, the identity map of the      *)
(* kernel; the user part is all the rest, up to USER_LIMIT, and above it   *)
(* the kernel's heap, which all directories share.  pmm_alloc_frame hands  *)
(* out the lowest free frame, which module Pmm shows, and 0 when there is  *)
(* none.                                                                   *)
(***************************************************************************)
EXTENDS Integers, FiniteSets, FiniteSetsExt

CONSTANTS TotalFrames, ENTRIES, MAX_PROCS, MAX_COPY_PAGES,
          PAGE_SIZE,      \* in bytes
          AddressTop,     \* 2^32
          USER_BRK_LIMIT, \* the address sbrk may not pass
          StackPages,     \* USER_STACK_PAGES pages below USER_STACK_TOP
          Images,         \* the initrd's programs, functions from pages to contents
          Increments,     \* arguments of sbrk
          Lengths,        \* of the buffers and strings given to system calls
          Values          \* what a page can hold; 0 is a page of zeros

Frames      == 0 .. TotalFrames - 1
Entries     == 0 .. ENTRIES - 1
Procs       == 0 .. MAX_PROCS - 1
UserPages   == ENTRIES .. ENTRIES * ENTRIES - 1
Pages       == 0 .. ENTRIES * ENTRIES - 1
USER_LIMIT  == PAGE_SIZE * ENTRIES * ENTRIES     \* what lies above is the kernel's
Absent      == -1

\* The kernel fills the identity map; its frames are reserved at boot.
Reserved    == Entries
kernel_dir  == 1
first_table == 2

ASSUME VmAssumption ==
  /\ TotalFrames \in Nat /\ ENTRIES \in Nat /\ ENTRIES > 2 /\ TotalFrames > ENTRIES
  /\ MAX_PROCS \in Nat \ {0} /\ MAX_COPY_PAGES \in Nat /\ PAGE_SIZE \in Nat \ {0}
  /\ StackPages \subseteq UserPages /\ StackPages # {}
  /\ USER_BRK_LIMIT \in Nat /\ AddressTop \in Nat /\ USER_LIMIT < AddressTop
  /\ \A v \in StackPages : USER_BRK_LIMIT <= PAGE_SIZE * v
  /\ 0 \in Values /\ Values \subseteq Nat /\ Increments \subseteq Int
  /\ Lengths \subseteq 0 .. AddressTop - 1
  /\ \A img \in Images : /\ DOMAIN img \subseteq UserPages \ StackPages /\ DOMAIN img # {}
                         /\ \A v \in DOMAIN img : /\ img[v] \in Values
                                                /\ PAGE_SIZE * (v + 1) <= USER_BRK_LIMIT

VARIABLES
  used,                 \* the frames set in frame_bitmap
  table,                \* the frames that are directories or tables, by entry
  data,                 \* the frames that are user pages
  scratch,              \* the table behind TMP_VIRT and TMP2_VIRT, made on first use
  live, page_dir, brk,  \* of proc_table
  base,                 \* the break exec set, kept to state HeapBacked
  op, cur, child, dir,  \* the call in progress, its process, fork's child, the new directory
  todo,                 \* the pages its loop has not reached
  copied,               \* copy_list: the frame that holds the copy of a page
  image, goal           \* the program being loaded, the break sbrk wants

memVars  == <<used, table, data, scratch>>
procVars == <<live, page_dir, brk, base>>
callVars == <<op, cur, child, dir, todo, copied, image, goal>>
vars     == <<memVars, procVars, callVars>>

-----------------------------------------------------------------------------
(* paging.c on a bitmap u: what the next pmm_alloc_frame returns and leaves. *)
Free(u)  == Frames \ u
Frame(u) == IF Free(u) = {} THEN 0 ELSE Min(Free(u))
Taken(u) == u \cup {Frame(u)}

Zeroed == [e \in Entries |-> Absent]

HasTable(D, v) == table[D][v \div ENTRIES] # Absent
Mapped(D, v) == HasTable(D, v) /\ table[table[D][v \div ENTRIES]][v % ENTRIES] # Absent
Phys(D, v) == table[table[D][v \div ENTRIES]][v % ENTRIES]
MappedUser(D) == {v \in UserPages : Mapped(D, v)}

\* paging_map: a missing table is allocated, and the answer is not looked at.
paging_map(D, v, f, u) ==
  IF HasTable(D, v)
  THEN /\ table' = [table EXCEPT ![table[D][v \div ENTRIES]][v % ENTRIES] = f]
       /\ used' = u
  ELSE /\ table' = [table EXCEPT ![D][v \div ENTRIES] = Frame(u),
                                 ![Frame(u)] = [Zeroed EXCEPT ![v % ENTRIES] = f]]
       /\ used' = Taken(u)

\* paging_new_directory, into frame Frame(used); the scratch slot's own table is
\* made by the first call.
paging_new_directory ==
  LET u == Taken(used)
  IN  /\ table' = [table EXCEPT ![Frame(used)] = [Zeroed EXCEPT ![0] = first_table]]
      /\ scratch' = IF scratch = Absent THEN Frame(u) ELSE scratch
      /\ used' = IF scratch = Absent THEN Taken(u) ELSE u
      /\ dir' = Frame(used)

\* What paging_free_directory frees: the user pages, their tables, the directory.
\* The kernel directory is static and is never passed to it.
KeepsTables(D) == {D} \cup {Phys(D, v) : v \in MappedUser(D)}     \* (mutant: tables not freed)
Owned(D) ==
  {D} \cup {table[D][d] : d \in {e \in Entries \ {0} : table[D][e] # Absent}}
      \cup {Phys(D, v) : v \in MappedUser(D)}

\* Frames given back.  Nothing reads a free frame: whoever takes it zeroes it, or
\* fills it, or (the user stack) takes it with whatever it holds.
Freed(S) ==
  /\ used' = used \ S
  /\ table' = [f \in Frames |-> IF f \in S THEN Zeroed ELSE table[f]]
  /\ data' = [f \in Frames |-> IF f \in S THEN 0 ELSE data[f]]

-----------------------------------------------------------------------------
NoCopies == [v \in UserPages |-> Absent]
NoImage  == [v \in {} |-> 0]

\* The end of a call.
Return ==
  /\ op' = "user" /\ cur' = 0 /\ child' = 0 /\ dir' = 0
  /\ todo' = {} /\ copied' = NoCopies /\ image' = NoImage /\ goal' = 0

\* kernel_main after process_initialize: the boot directory maps the kernel only.
Init ==
  /\ used = Reserved
  /\ table = [f \in Frames |->
       IF f = kernel_dir THEN [Zeroed EXCEPT ![0] = first_table]
       ELSE IF f = first_table THEN [e \in Entries |-> e] ELSE Zeroed]
  /\ data = [f \in Frames |-> 0]
  /\ scratch = Absent
  /\ live = [p \in Procs |-> p = 0]
  /\ page_dir = [p \in Procs |-> kernel_dir]
  /\ brk = [p \in Procs |-> 0] /\ base = [p \in Procs |-> 0]
  /\ op = "load" /\ cur = 0 /\ child = 0 /\ dir = kernel_dir
  /\ image \in Images /\ todo = DOMAIN image
  /\ copied = NoCopies /\ goal = 0

Booting == op = "load" /\ dir = kernel_dir

\* elf_load, one page.  Without a frame boot panics and execve fails with
\* -ENOEXEC, giving back the new directory and what it holds.  The segments of an
\* image share no page: a page of two of them would be mapped twice, and its first
\* frame lost.
elf_load ==
  /\ op = "load" /\ todo # {} /\ Free(used) # {}
  /\ LET v == Min(todo)
     IN  /\ paging_map(dir, v, Frame(used), Taken(used))
         /\ data' = [data EXCEPT ![Frame(used)] = image[v]]
         /\ todo' = todo \ {v}
  /\ UNCHANGED <<scratch, procVars, op, cur, child, dir, copied, image, goal>>

\* load_program's process_set_brk, then map_user_stack.
ImageEnd(img) == PAGE_SIZE * (Max(DOMAIN img) + 1)
SetBrk ==
  /\ brk' = [brk EXCEPT ![cur] = ImageEnd(image)]
  /\ base' = [base EXCEPT ![cur] = ImageEnd(image)]
  /\ todo' = StackPages

load_program ==
  /\ Booting /\ todo = {}
  /\ SetBrk
  /\ op' = "boot_stack"
  /\ UNCHANGED <<memVars, live, page_dir, cur, child, dir, copied, image, goal>>

MapStack(v) ==
  /\ paging_map(dir, v, Frame(used), Taken(used))
  /\ \E x \in Values : data' = [data EXCEPT ![Frame(used)] = x]
  /\ IF todo = {v} THEN Return
     ELSE todo' = todo \ {v} /\ UNCHANGED <<op, cur, child, dir, copied, image, goal>>
  /\ UNCHANGED <<scratch, procVars>>

map_user_stack == op = "boot_stack" /\ Free(used) # {} /\ MapStack(Min(todo))

-----------------------------------------------------------------------------
(***************************************************************************)
(* execve.  Without a frame for the directory it fails, and so does fork:  *)
(* no step here.  On the way paging_new_directory, which does not look at  *)
(* the answer, has written a directory into frame 0: a reserved frame,     *)
(* whose contents are not kept here and which no program of Spec reaches.  *)
(***************************************************************************)
process_execve(p, img) ==
  /\ op = "user" /\ live[p] /\ Free(used) # {}
  /\ paging_new_directory
  /\ op' = "load" /\ cur' = p /\ image' = img /\ todo' = DOMAIN img
  /\ UNCHANGED <<data, procVars, child, copied, goal>>

\* A bad header, found before the first page, or no frame for a page.
exec_fails ==
  /\ op = "load" /\ ~Booting /\ todo # {}
  /\ todo = DOMAIN image \/ Free(used) = {}
  /\ Freed(Owned(dir))
  /\ Return
  /\ UNCHANGED <<scratch, procVars>>

exec_commit ==
  /\ op = "load" /\ ~Booting /\ todo = {}
  /\ page_dir' = [page_dir EXCEPT ![cur] = dir]
  /\ Freed(IF page_dir[cur] = kernel_dir THEN {} ELSE Owned(page_dir[cur]))
  /\ SetBrk
  /\ op' = "stack"
  /\ UNCHANGED <<scratch, live, cur, child, dir, copied, image, goal>>

\* The answer of pmm_alloc_frame is not looked at.
exec_stack == op = "stack" /\ MapStack(Max(todo))

-----------------------------------------------------------------------------
(***************************************************************************)
(* fork: copy every user page while the parent's directory is loaded, then *)
(* install the copies in the child's.  The child exists for the others     *)
(* once the call returns.                                                  *)
(***************************************************************************)
FreeSlots == {c \in Procs \ {0} : ~live[c]}

process_fork(p) ==
  /\ op = "user" /\ live[p] /\ FreeSlots # {} /\ Free(used) # {}
  /\ paging_new_directory
  /\ op' = "copy" /\ cur' = p /\ child' = Min(FreeSlots)
  /\ todo' = MappedUser(page_dir[p])
  /\ UNCHANGED <<data, procVars, copied, image, goal>>

Copies == {v \in UserPages : copied[v] # Absent}

SharesFrame(v) == [copied EXCEPT ![v] = Phys(page_dir[cur], v)]   \* (mutant: no copy made)
CopyTo(v) == [copied EXCEPT ![v] = Frame(used)]

fork_copy ==
  /\ op = "copy" /\ todo # {} /\ Free(used) # {} /\ Cardinality(Copies) < MAX_COPY_PAGES
  /\ LET v == Min(todo)
     IN  /\ copied' = CopyTo(v)
         /\ data' = [data EXCEPT ![Frame(used)] = data[Phys(page_dir[cur], v)]]
         /\ todo' = todo \ {v}
  /\ used' = Taken(used)
  /\ UNCHANGED <<table, scratch, procVars, op, cur, child, dir, image, goal>>

fork_fails ==
  /\ op = "copy" /\ todo # {}
  /\ Free(used) = {} \/ Cardinality(Copies) >= MAX_COPY_PAGES
  /\ Freed({copied[v] : v \in Copies} \cup Owned(dir))
  /\ Return
  /\ UNCHANGED <<scratch, procVars>>

fork_copied ==
  /\ op = "copy" /\ todo = {}
  /\ op' = "install" /\ todo' = Copies
  /\ UNCHANGED <<memVars, procVars, cur, child, dir, copied, image, goal>>

fork_install ==
  /\ op = "install" /\ todo # {}
  /\ LET v == Min(todo)
     IN  paging_map(dir, v, copied[v], used) /\ todo' = todo \ {v}
  /\ UNCHANGED <<data, scratch, procVars, op, cur, child, dir, copied, image, goal>>

fork_returns ==
  /\ op = "install" /\ todo = {}
  /\ live' = [live EXCEPT ![child] = TRUE]
  /\ page_dir' = [page_dir EXCEPT ![child] = dir]
  /\ brk' = [brk EXCEPT ![child] = brk[cur]]
  /\ base' = [base EXCEPT ![child] = base[cur]]
  /\ Return
  /\ UNCHANGED memVars

-----------------------------------------------------------------------------
(***************************************************************************)
(* exit leaves the directory and frees it; sbrk moves the break by inc.    *)
(***************************************************************************)
process_exit(p) ==
  /\ op = "user" /\ live[p] /\ p # 0
  /\ Freed(IF page_dir[p] = kernel_dir THEN {} ELSE Owned(page_dir[p]))
  /\ live' = [live EXCEPT ![p] = FALSE]
  /\ page_dir' = [page_dir EXCEPT ![p] = kernel_dir]
  /\ brk' = [brk EXCEPT ![p] = 0] /\ base' = [base EXCEPT ![p] = 0]
  /\ UNCHANGED <<scratch, callVars>>

Want(p, inc) == (brk[p] + inc) % AddressTop

\* The pages that growing from old to want has to map.
FromNextPage(p, old, want) ==            \* (mutant: starts above the break's page)
  {v \in Pages : v > old \div PAGE_SIZE /\ v * PAGE_SIZE < want /\ ~Mapped(page_dir[p], v)}
ToMap(p, old, want) ==
  {v \in Pages : v >= old \div PAGE_SIZE /\ v * PAGE_SIZE < want /\ ~Mapped(page_dir[p], v)}

NoLimit(old, want) == want >= old        \* (mutant: the limit is not checked)
InLimit(old, want) == want >= old /\ want <= USER_BRK_LIMIT

sbrk_grow(p, inc) ==
  /\ op = "user" /\ live[p] /\ inc > 0 /\ InLimit(brk[p], Want(p, inc))
  /\ op' = "grow" /\ cur' = p /\ goal' = Want(p, inc)
  /\ todo' = ToMap(p, brk[p], Want(p, inc))
  /\ UNCHANGED <<memVars, procVars, child, dir, copied, image>>

sbrk_page ==
  /\ op = "grow" /\ todo # {} /\ Free(used) # {}
  /\ LET v == Min(todo)
     IN  paging_map(page_dir[cur], v, Frame(used), Taken(used)) /\ todo' = todo \ {v}
  /\ data' = [data EXCEPT ![Frame(used)] = 0]
  /\ UNCHANGED <<scratch, procVars, op, cur, child, dir, copied, image, goal>>

\* -ENOMEM: the pages mapped so far stay, the break does not move.
sbrk_fails ==
  /\ op = "grow" /\ todo # {} /\ Free(used) = {}
  /\ Return
  /\ UNCHANGED <<memVars, procVars>>

sbrk_grown ==
  /\ op = "grow" /\ todo = {}
  /\ brk' = [brk EXCEPT ![cur] = goal]
  /\ Return
  /\ UNCHANGED <<memVars, live, page_dir, base>>

\* The pages that lie entirely above the break want.
Dead(p, old, want) ==
  {v \in Pages : v * PAGE_SIZE >= want /\ v * PAGE_SIZE < old /\ Mapped(page_dir[p], v)}

sbrk_shrink(p, inc) ==
  /\ op = "user" /\ live[p] /\ inc < 0
  /\ Want(p, inc) <= brk[p]
  /\ LET D == page_dir[p]
         dead == Dead(p, brk[p], Want(p, inc))
         gone == {Phys(D, v) : v \in dead}
     IN  /\ used' = used \ gone
         /\ data' = [f \in Frames |-> IF f \in gone THEN 0 ELSE data[f]]
         /\ table' = [T \in Frames |-> [t \in Entries |->
              IF \E v \in dead : table[D][v \div ENTRIES] = T /\ v % ENTRIES = t
              THEN Absent ELSE table[T][t]]]
  /\ brk' = [brk EXCEPT ![p] = Want(p, inc)]
  /\ UNCHANGED <<scratch, live, page_dir, base, callVars>>

\* A store of the program into one of its pages.
user_write(p, v, x) ==
  /\ op = "user" /\ live[p] /\ Mapped(page_dir[p], v)
  /\ data' = [data EXCEPT ![Phys(page_dir[p], v)] = x]
  /\ UNCHANGED <<used, table, scratch, procVars, callVars>>

-----------------------------------------------------------------------------
(***************************************************************************)
(* What a system call checks of a pointer before it uses it, in 32 bits.   *)
(***************************************************************************)
paging_is_user(D, v) == v \in UserPages /\ Mapped(D, v)

RangeUnwrapped(D, addr, len) ==        \* (mutant: addr + len < addr is not tested)
  \/ len = 0
  \/ LET end == (addr + len) % AddressTop
     IN  /\ addr < USER_LIMIT /\ end <= USER_LIMIT
         /\ \A v \in Pages : addr \div PAGE_SIZE <= v /\ v * PAGE_SIZE < end => paging_is_user(D, v)
user_range_ok(D, addr, len) ==
  \/ len = 0
  \/ LET end == (addr + len) % AddressTop
     IN  /\ addr < USER_LIMIT /\ end >= addr /\ end <= USER_LIMIT
         /\ \A v \in Pages : addr \div PAGE_SIZE <= v /\ v * PAGE_SIZE < end => paging_is_user(D, v)

\* s[i], every byte of a page being its content.
Byte(D, a) == data[Phys(D, a \div PAGE_SIZE)]

\* A byte is read only when it, and all before it, have been found readable.
user_string_ok(D, s, max) ==
  \E n \in 0 .. max - 1 :
     /\ \A i \in 0 .. n : user_range_ok(D, (s + i) % AddressTop, 1)
     /\ Byte(D, (s + n) % AddressTop) = 0

-----------------------------------------------------------------------------
\* n frames are left, apart from the table that page v of directory D may need:
\* no allocation that goes unchecked fails.
Backed(D, v, n) == Cardinality(Free(used)) >= n + (IF HasTable(D, v) THEN 0 ELSE 1)

Safe ==
  \/ elf_load /\ Backed(dir, Min(todo), 1)
  \/ load_program \/ (map_user_stack /\ Backed(dir, Min(todo), 1))
  \/ exec_fails \/ exec_commit
  \/ exec_stack /\ Backed(dir, Max(todo), 1)
  \/ fork_copy \/ fork_fails \/ fork_copied \/ fork_returns
  \/ fork_install /\ Backed(dir, Min(todo), 0)
  \/ sbrk_page /\ Backed(page_dir[cur], Min(todo), 1)
  \/ sbrk_fails \/ sbrk_grown
  \/ \E p \in Procs :
       \/ (process_fork(p) \/ \E img \in Images : process_execve(p, img))
          /\ Cardinality(Free(used)) >= (IF scratch = Absent THEN 2 ELSE 1)
       \/ process_exit(p)
       \/ \E inc \in Increments :
            sbrk_grow(p, inc) \/ (sbrk_shrink(p, inc) /\ Want(p, inc) >= ENTRIES * PAGE_SIZE)
       \/ \E v \in UserPages, x \in Values : user_write(p, v, x)

\* With the allocations that are not checked ...
Unchecked ==
  \/ elf_load \/ exec_stack \/ fork_install \/ sbrk_page
  \/ \E p \in Procs : process_fork(p) \/ \E img \in Images : process_execve(p, img)
\* ... and with a break that goes down into the identity map.
LowBreak == \E p \in Procs, inc \in Increments : sbrk_shrink(p, inc)

Spec     == Init /\ [][Safe]_vars
OomSpec  == Init /\ [][Safe \/ Unchecked]_vars
SbrkSpec == Init /\ [][Safe \/ LowBreak]_vars

-----------------------------------------------------------------------------
TypeOK ==
  /\ used \subseteq Frames
  /\ table \in [Frames -> [Entries -> Frames \cup {Absent}]]
  /\ data \in [Frames -> Values]
  /\ scratch \in Frames \cup {Absent}
  /\ live \in [Procs -> BOOLEAN] /\ page_dir \in [Procs -> Frames]
  /\ brk \in [Procs -> 0 .. USER_BRK_LIMIT] /\ base \in [Procs -> 0 .. USER_BRK_LIMIT]
  /\ op \in {"user", "load", "boot_stack", "stack", "copy", "install", "grow"}
  /\ cur \in Procs /\ child \in Procs /\ dir \in Frames
  /\ todo \subseteq UserPages /\ copied \in [UserPages -> Frames \cup {Absent}]
  /\ image \in Images \cup {NoImage} /\ goal \in 0 .. USER_BRK_LIMIT

\* The places that hold a frame: a directory of a process or of the call in
\* progress, a table in a directory, a page in a table, a copy not yet installed,
\* the scratch table.
NewDir == op \in {"load", "copy", "install"} /\ dir # kernel_dir
Dirs == {page_dir[p] : p \in {q \in Procs : live[q]}} \cup {kernel_dir}
        \cup (IF NewDir THEN {dir} ELSE {})
TablePlaces == {r \in Dirs \X (Entries \ {0}) : table[r[1]][r[2]] # Absent}
PagePlaces == {r \in {table[q[1]][q[2]] : q \in TablePlaces} \X Entries :
                 table[r[1]][r[2]] # Absent}
Places ==
  {<<"dir", p>> : p \in {q \in Procs : live[q] /\ page_dir[q] # kernel_dir}}
  \cup (IF NewDir THEN {<<"new">>} ELSE {})
  \cup {<<"table", r>> : r \in TablePlaces}
  \cup {<<"page", r>> : r \in PagePlaces}
  \cup {<<"copy", v>> : v \in IF op = "install" THEN todo ELSE Copies}
  \cup (IF scratch = Absent THEN {} ELSE {<<"scratch">>})

FrameAt(r) ==
  CASE r[1] = "dir"  -> page_dir[r[2]]
    [] r[1] = "new"  -> dir
    [] r[1] = "copy" -> copied[r[2]]
    [] r[1] = "scratch" -> scratch
    [] OTHER -> table[r[2][1]][r[2][2]]

\* A frame in use that is not the kernel's has exactly one place, at every step of
\* every call, the failing ones included: no frame leaks, none is shared by two
\* address spaces, and none is free while something still points to it.
FramesExact ==
  /\ \A r, s \in Places : FrameAt(r) = FrameAt(s) => r = s
  /\ used = Reserved \cup {FrameAt(r) : r \in Places}
  /\ \A r \in Places : FrameAt(r) \notin Reserved

\* Between the end of its image and its break every page of a process is mapped,
\* after failed and partial growth and after any shrinking too.
HeapBacked ==
  op = "user" => \A p \in Procs : live[p] =>
    \A v \in UserPages :
      base[p] <= v * PAGE_SIZE /\ v * PAGE_SIZE < brk[p] => Mapped(page_dir[p], v)

\* What process p finds in its pages.
View(p) == [v \in UserPages |->
  IF live[p] /\ ~(Booting /\ p = 0) /\ Mapped(page_dir[p], v)
  THEN data[Phys(page_dir[p], v)] ELSE -1]

\* A pointer is accepted exactly if every byte behind it is a byte of the caller's
\* own pages: ranges that wrap around the address space, end at the limit, or
\* start or end in an unmapped page are told apart, and a string passes exactly if
\* it ends before the first byte that is not the caller's.
Own(D, a) == a < USER_LIMIT /\ paging_is_user(D, a \div PAGE_SIZE)
PointersChecked ==
  op = "user" => \A p \in Procs : live[p] =>
    LET D == page_dir[p]
    IN  \A addr \in 0 .. AddressTop - 1, len \in Lengths :
          /\ user_range_ok(D, addr, len) <=> \A i \in 0 .. len - 1 : Own(D, addr + i)
          /\ user_string_ok(D, addr, len) <=>
               \E n \in 0 .. len - 1 : /\ \A i \in 0 .. n : Own(D, addr + i)
                                       /\ View(p)[(addr + n) \div PAGE_SIZE] = 0

\* The tables implement private memory: a step changes the pages of one process
\* at most, fork copies, sbrk adds pages of zeros, and a call that fails changes
\* nothing but the pages a partial growth leaves.
Memory == INSTANCE UserMemory WITH
  Pages <- UserPages, view <- [p \in Procs |-> View(p)]
MemorySpec == Memory!Spec

\* pmm.c, pass 3 of pmm_initialize: "reserve what must never be handed out".  No
\* reserved frame becomes a table or a page of a process, or is freed.
NeverHandedOut ==
  Reserved \subseteq used /\ \A r \in Places : FrameAt(r) \notin Reserved

\* paging.c: "Entry 0 is the shared kernel identity map - never free it".
IdentityKept == \A e \in Entries : table[first_table][e] = e /\ e \in used
=============================================================================
