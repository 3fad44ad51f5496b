------------------------------ MODULE VmProofs ------------------------------
(***************************************************************************)
(* Address spaces, for any number of frames, processes and programs and    *)
(* any size of the tables: who owns which frame, at every step of fork,    *)
(* execve, exit and sbrk, and what is mapped.                              *)
(***************************************************************************)
EXTENDS Vm, NatMin, FiniteSetTheorems

(***************************************************************************)
(* The trees below a set Ds of directories, in tables tb: their tables,    *)
(* their pages, and the frame page v of directory D is in.                 *)
(***************************************************************************)
DirOf(v) == v \div ENTRIES
EntOf(v) == v % ENTRIES
User == Entries \ {0}

Tables(tb, Ds) == {T \in Frames : \E D \in Ds, d \in User : tb[D][d] = T}
PagesOf(tb, Ds) == {f \in Frames : \E T \in Tables(tb, Ds), e \in Entries : tb[T][e] = f}
PageAt(tb, D, v) ==
  IF tb[D][DirOf(v)] = Absent THEN Absent ELSE tb[tb[D][DirOf(v)]][EntOf(v)]
MapsIn(tb, D) == {v \in UserPages : PageAt(tb, D, v) # Absent}

\* What is found in the pages of directory D, with contents dt of the frames.
SeenIn(tb, dt, D) ==
  [v \in UserPages |-> IF PageAt(tb, D, v) = Absent THEN -1 ELSE dt[PageAt(tb, D, v)]]

\* No frame is in two places of the trees, or plays two parts in them.
Forest(tb, Ds) ==
  /\ tb \in [Frames -> [Entries -> Frames \cup {Absent}]] /\ Ds \subseteq Frames
  /\ \A D1, D2 \in Ds, d1, d2 \in User :
       tb[D1][d1] = tb[D2][d2] /\ tb[D1][d1] # Absent => D1 = D2 /\ d1 = d2
  /\ \A T1, T2 \in Tables(tb, Ds), e1, e2 \in Entries :
       tb[T1][e1] = tb[T2][e2] /\ tb[T1][e1] # Absent => T1 = T2 /\ e1 = e2
  /\ Ds \cap Tables(tb, Ds) = {} /\ Ds \cap PagesOf(tb, Ds) = {}
  /\ Tables(tb, Ds) \cap PagesOf(tb, Ds) = {}

(***************************************************************************)
(* The inductive invariant.                                                *)
(***************************************************************************)
LiveDirs == {page_dir[p] : p \in {q \in Procs : live[q]}}
CopySet == IF op = "install" THEN todo ELSE Copies
CopyFrames == {copied[v] : v \in CopySet}
Scratch == {scratch} \ {Absent}
Tabs == Tables(table, Dirs)
Pgs == PagesOf(table, Dirs)

\* Every directory starts with the kernel's identity map.
Identity ==
  /\ \A D \in Dirs : table[D][0] = first_table
  /\ \A e \in Entries : table[first_table][e] = e

\* The frames in use are the kernel's, the directories, tables and pages, the
\* copies that fork holds and the scratch table, and no frame is two of these.
Parts ==
  /\ used = Reserved \cup Dirs \cup Tabs \cup Pgs \cup CopyFrames \cup Scratch
  /\ Forest(table, Dirs)
  /\ Dirs \cap Reserved = {kernel_dir} /\ Tabs \cap Reserved = {} /\ Pgs \cap Reserved = {}
  /\ CopyFrames \subseteq Frames
  /\ CopyFrames \cap (Reserved \cup Dirs \cup Tabs \cup Pgs) = {}
  /\ Scratch \cap (Reserved \cup Dirs \cup Tabs \cup Pgs \cup CopyFrames) = {}
  /\ \A v, w \in CopySet : copied[v] = copied[w] => v = w
  /\ \A p, q \in Procs : live[p] /\ live[q] /\ page_dir[p] = page_dir[q] => p = q
  /\ NewDir => dir \notin LiveDirs

Maps(D) == MapsIn(table, D)
Seen(D) == SeenIn(table, data, D)

\* Where a call is: the pages its loop has still to handle are not mapped yet.
CallOK ==
  /\ op \notin {"copy", "install"} => copied = NoCopies
  /\ op # "user" /\ op # "boot_stack" => live[cur]
  /\ op = "load" => /\ image \in Images /\ todo \subseteq DOMAIN image
                    /\ Maps(dir) = (DOMAIN image) \ todo
                    /\ dir = kernel_dir => page_dir[cur] = kernel_dir
  /\ op \in {"boot_stack", "stack"} =>
       /\ todo # {} /\ todo \subseteq StackPages /\ Maps(dir) \cap todo = {}
       /\ op = "boot_stack" => dir = kernel_dir
       /\ op = "stack" => dir = page_dir[cur]
  /\ op \in {"copy", "install"} =>
       /\ child # 0 /\ ~live[child] /\ dir # kernel_dir
  /\ op = "copy" => /\ Maps(page_dir[cur]) = todo \cup Copies /\ todo \cap Copies = {}
                    /\ Maps(dir) = {}
  /\ op = "install" => /\ Maps(page_dir[cur]) = Copies /\ todo \subseteq Copies
                       /\ Maps(dir) = Copies \ todo
  /\ op = "grow" => /\ todo \cap (Maps(page_dir[cur]) \cup StackPages) = {}
                    /\ \A v \in UserPages : brk[cur] <= v * PAGE_SIZE /\ v * PAGE_SIZE < goal =>
                         v \in todo \cup Maps(page_dir[cur])

\* What HeapBacked says, in the middle of a call too.
Heap ==
  \A p \in Procs, v \in UserPages :
    live[p] /\ base[p] <= v * PAGE_SIZE /\ v * PAGE_SIZE < brk[p] => v \in Maps(page_dir[p])

VInv == TypeOK /\ Identity /\ Parts /\ CallOK /\ Heap

-----------------------------------------------------------------------------
(* Numbers: frames, entries and pages. *)

LEMMA Constants ==
  /\ Entries \subseteq Frames /\ Absent \notin Frames /\ 0 \in Entries
  /\ kernel_dir \in User /\ first_table \in User /\ kernel_dir # first_table
  /\ User \subseteq Entries /\ Zeroed \in [Entries -> Frames \cup {Absent}]
  /\ \A e \in Entries : Zeroed[e] = Absent
  /\ ENTRIES \in Nat \ {0} /\ PAGE_SIZE \in Nat \ {0}
<1>1. /\ Entries \subseteq Frames /\ Absent \notin Frames /\ 0 \in Entries
      /\ kernel_dir \in User /\ first_table \in User /\ kernel_dir # first_table
      /\ User \subseteq Entries
  BY VmAssumption DEF Entries, Frames, Absent, User, kernel_dir, first_table
<1>2. Zeroed \in [Entries -> Frames \cup {Absent}] /\ \A e \in Entries : Zeroed[e] = Absent
  BY DEF Zeroed
<1>. QED  BY <1>1, <1>2, VmAssumption

\* A user page has its entry of a table that is not the kernel's.
LEMMA PageEntry ==
  ASSUME NEW v \in UserPages
  PROVE  DirOf(v) \in User /\ EntOf(v) \in Entries
<1>1. ENTRIES \in Nat \ {0} /\ v \in Nat /\ v >= ENTRIES * 1 /\ v < ENTRIES * ENTRIES
  BY VmAssumption DEF UserPages
<1>2. PICK q \in Nat, r \in 0 .. ENTRIES - 1 : v \div ENTRIES = q /\ v % ENTRIES = r
  BY <1>1, DivMod
<1>3. 1 <= v \div ENTRIES
  BY <1>1, DivLess
<1>4. v \div ENTRIES < ENTRIES
  BY <1>1, DivLess
<1>. QED  BY <1>1, <1>2, <1>3, <1>4 DEF DirOf, EntOf, User, Entries

\* A page of the identity map is an entry of the first table.
LEMMA LowPage ==
  ASSUME NEW v \in Pages, v \notin UserPages
  PROVE  DirOf(v) = 0 /\ EntOf(v) = v /\ v \in Entries
<1>1. ENTRIES \in Nat \ {0} /\ v \in 0 .. ENTRIES - 1
  BY VmAssumption DEF UserPages, Pages
<1>2. v = ENTRIES * 0 + v
  BY <1>1
<1>3. (ENTRIES * 0 + v) \div ENTRIES = 0 /\ (ENTRIES * 0 + v) % ENTRIES = v
  BY <1>1, DivUnique
<1>. QED  BY <1>1, <1>2, <1>3 DEF DirOf, EntOf, Entries

\* Every entry of a user table is a page ...
LEMMA EntryPage ==
  ASSUME NEW d \in User, NEW e \in Entries
  PROVE  \E v \in UserPages : DirOf(v) = d /\ EntOf(v) = e
<1>. DEFINE v == ENTRIES * d + e
<1>1. ENTRIES \in Nat \ {0} /\ d \in Nat /\ e \in 0 .. ENTRIES - 1 /\ 1 <= d /\ d + 1 <= ENTRIES
  BY VmAssumption DEF User, Entries
<1>2. DirOf(v) = d /\ EntOf(v) = e
  BY <1>1, DivUnique DEF DirOf, EntOf
<1>3. v \in Int /\ v >= ENTRIES
  <2>1. ENTRIES * 1 <= ENTRIES * d
    BY <1>1, MulLess
  <2>. QED  BY <1>1, <2>1
<1>4. v <= ENTRIES * ENTRIES - 1
  <2>1. ENTRIES * (d + 1) <= ENTRIES * ENTRIES
    BY <1>1, MulLess
  <2>. QED  BY <1>1, <2>1
<1>5. v \in UserPages
  BY <1>1, <1>3, <1>4 DEF UserPages
<1>. QED  BY <1>2, <1>5

\* ... and of no other page.
LEMMA PageUnique ==
  ASSUME NEW v \in Pages, NEW w \in Pages, DirOf(v) = DirOf(w), EntOf(v) = EntOf(w)
  PROVE  v = w
<1>1. ENTRIES \in Nat \ {0} /\ v \in Nat /\ w \in Nat
  BY VmAssumption DEF Pages
<1>2. PICK q \in Nat, r \in 0 .. ENTRIES - 1 :
        v \div ENTRIES = q /\ v % ENTRIES = r /\ v = ENTRIES * q + r
  BY <1>1, DivMod
<1>3. PICK q2 \in Nat, r2 \in 0 .. ENTRIES - 1 :
        w \div ENTRIES = q2 /\ w % ENTRIES = r2 /\ w = ENTRIES * q2 + r2
  BY <1>1, DivMod
<1>4. q = q2 /\ r = r2
  BY <1>2, <1>3 DEF DirOf, EntOf
<1>. QED  BY <1>2, <1>3, <1>4

LEMMA UserIsPage == UserPages \subseteq Pages /\ UserPages \subseteq Nat
BY VmAssumption DEF UserPages, Pages

-----------------------------------------------------------------------------
(* What the operations of paging.c do to the trees. *)

\* A page goes into a table that is there.
LEMMA MapOld ==
  ASSUME NEW tb, NEW Ds, Forest(tb, Ds), NEW D \in Ds, NEW d \in User, NEW e \in Entries,
         NEW f \in Frames, f \notin Ds, f \notin Tables(tb, Ds), f \notin PagesOf(tb, Ds),
         NEW T, T = tb[D][d], T # Absent, tb[T][e] = Absent,
         NEW tb2 \in [Frames -> [Entries -> Frames \cup {Absent}]],
         \A X \in Frames \ {T} : tb2[X] = tb[X],
         \A x \in Entries : tb2[T][x] = IF x = e THEN f ELSE tb[T][x]
  PROVE  /\ Forest(tb2, Ds) /\ Tables(tb2, Ds) = Tables(tb, Ds)
         /\ PagesOf(tb2, Ds) = PagesOf(tb, Ds) \cup {f} /\ T \in Tables(tb, Ds)
         /\ \A X \in Ds, w \in UserPages :
              PageAt(tb2, X, w) = IF X = D /\ DirOf(w) = d /\ EntOf(w) = e THEN f
                                  ELSE PageAt(tb, X, w)
<1>0. Absent \notin Frames /\ User \subseteq Entries
  BY Constants
<1>1. PICK Ts : Ts = Tables(tb, Ds)
  OBVIOUS
<1>2. PICK Ps : Ps = PagesOf(tb, Ds)
  OBVIOUS
<1>3. /\ tb \in [Frames -> [Entries -> Frames \cup {Absent}]] /\ Ds \subseteq Frames
      /\ Ds \cap Ts = {} /\ Ds \cap Ps = {} /\ Ts \cap Ps = {} /\ Ts \subseteq Frames
  BY <1>1, <1>2 DEF Forest, Tables
<1>4. T \in Frames /\ T \in Ts /\ T \notin Ds
  BY <1>0, <1>1, <1>3 DEF Tables
<1>5. Tables(tb2, Ds) = Ts
  <2>1. \A X \in Ds : tb2[X] = tb[X]
    BY <1>3, <1>4
  <2>. QED  BY <1>1, <2>1 DEF Tables
<1>6. \A X \in Ts, x \in Entries : tb2[X][x] = IF X = T /\ x = e THEN f ELSE tb[X][x]
  BY <1>3, <1>4
<1>7. PagesOf(tb2, Ds) = Ps \cup {f}
  <2>1. \A g \in Frames : (\E X \in Ts, x \in Entries : tb2[X][x] = g) <=>
                          g = f \/ \E X \in Ts, x \in Entries : tb[X][x] = g
    BY <1>0, <1>4, <1>6
  <2>. QED  BY <1>1, <1>2, <1>5, <2>1 DEF PagesOf
<1>8. \A T1, T2 \in Ts, e1, e2 \in Entries :
        tb2[T1][e1] = tb2[T2][e2] /\ tb2[T1][e1] # Absent => T1 = T2 /\ e1 = e2
  <2>1. \A X \in Ts, x \in Entries : tb[X][x] # f
    BY <1>1 DEF PagesOf
  <2>2. \A T1, T2 \in Ts, e1, e2 \in Entries :
          tb[T1][e1] = tb[T2][e2] /\ tb[T1][e1] # Absent => T1 = T2 /\ e1 = e2
    BY <1>1 DEF Forest
  <2>. QED  BY <1>6, <2>1, <2>2
<1>9. \A D1, D2 \in Ds, d1, d2 \in User :
        tb2[D1][d1] = tb2[D2][d2] /\ tb2[D1][d1] # Absent => D1 = D2 /\ d1 = d2
  BY <1>3, <1>4 DEF Forest
<1>10. Forest(tb2, Ds)
  BY <1>3, <1>5, <1>7, <1>8, <1>9, <1>1, <1>2 DEF Forest
<1>11. ASSUME NEW X \in Ds, NEW w \in UserPages
      PROVE  PageAt(tb2, X, w) = IF X = D /\ DirOf(w) = d /\ EntOf(w) = e THEN f
                                 ELSE PageAt(tb, X, w)
  <2>1. DirOf(w) \in User /\ EntOf(w) \in Entries
    BY PageEntry
  <2>2. tb2[X] = tb[X] /\ X \in Frames
    BY <1>3, <1>4
  <2>3. CASE tb[X][DirOf(w)] = Absent
    BY <2>2, <2>3 DEF PageAt
  <2>4. CASE tb[X][DirOf(w)] = T
    <3>1. X = D /\ DirOf(w) = d
      BY <2>1, <2>4 DEF Forest
    <3>. QED  BY <2>1, <2>2, <2>4, <3>1 DEF PageAt
  <2>5. CASE tb[X][DirOf(w)] # Absent /\ tb[X][DirOf(w)] # T
    <3>1. tb[X][DirOf(w)] \in Frames
      BY <1>0, <1>3, <2>1, <2>2, <2>5
    <3>. QED  BY <2>1, <2>2, <2>5, <3>1 DEF PageAt
  <2>. QED  BY <2>3, <2>4, <2>5
<1>. QED  BY <1>1, <1>2, <1>4, <1>5, <1>7, <1>10, <1>11

\* A page goes into a new table g.
LEMMA MapNew ==
  ASSUME NEW tb, NEW Ds, Forest(tb, Ds), NEW D \in Ds, NEW d \in User, NEW e \in Entries,
         NEW f \in Frames, f \notin Ds, f \notin Tables(tb, Ds), f \notin PagesOf(tb, Ds),
         NEW g \in Frames, g \notin Ds, g \notin Tables(tb, Ds), g \notin PagesOf(tb, Ds),
         f # g, tb[D][d] = Absent,
         NEW tb2 \in [Frames -> [Entries -> Frames \cup {Absent}]],
         \A X \in Frames \ {D, g} : tb2[X] = tb[X],
         \A x \in Entries : tb2[D][x] = IF x = d THEN g ELSE tb[D][x],
         \A x \in Entries : tb2[g][x] = IF x = e THEN f ELSE Absent
  PROVE  /\ Forest(tb2, Ds) /\ Tables(tb2, Ds) = Tables(tb, Ds) \cup {g}
         /\ PagesOf(tb2, Ds) = PagesOf(tb, Ds) \cup {f}
         /\ \A X \in Ds, w \in UserPages :
              PageAt(tb2, X, w) = IF X = D /\ DirOf(w) = d /\ EntOf(w) = e THEN f
                                  ELSE PageAt(tb, X, w)
<1>0. Absent \notin Frames /\ User \subseteq Entries
  BY Constants
<1>1. PICK Ts : Ts = Tables(tb, Ds)
  OBVIOUS
<1>2. PICK Ps : Ps = PagesOf(tb, Ds)
  OBVIOUS
<1>3. /\ tb \in [Frames -> [Entries -> Frames \cup {Absent}]] /\ Ds \subseteq Frames
      /\ Ds \cap Ts = {} /\ Ds \cap Ps = {} /\ Ts \cap Ps = {} /\ Ts \subseteq Frames
  BY <1>1, <1>2 DEF Forest, Tables
<1>4. \A X \in Ds, x \in User : tb2[X][x] = IF X = D /\ x = d THEN g ELSE tb[X][x]
  BY <1>0, <1>3
<1>5. Tables(tb2, Ds) = Ts \cup {g}
  <2>2. \A T \in Frames : (\E X \in Ds, x \in User : tb2[X][x] = T) <=>
                          T = g \/ \E X \in Ds, x \in User : tb[X][x] = T
    <3>1. tb2[D][d] = g
      BY <1>4
    <3>2. \A X \in Ds, x \in User : tb[X][x] \in Frames => tb2[X][x] = tb[X][x]
      BY <1>0, <1>4
    <3>. QED  BY <1>4, <3>1, <3>2
  <2>. QED  BY <1>1, <2>2 DEF Tables
<1>6. \A X \in Ts, x \in Entries : tb2[X][x] = tb[X][x]
  BY <1>1, <1>3
<1>7. PagesOf(tb2, Ds) = Ps \cup {f}
  <2>1. \A p \in Frames : (\E X \in Ts \cup {g}, x \in Entries : tb2[X][x] = p) <=>
                          p = f \/ \E X \in Ts, x \in Entries : tb[X][x] = p
    BY <1>0, <1>6
  <2>2. PagesOf(tb2, Ds) = {p \in Frames : \E X \in Ts \cup {g}, x \in Entries : tb2[X][x] = p}
    BY <1>5 DEF PagesOf
  <2>3. Ps = {p \in Frames : \E X \in Ts, x \in Entries : tb[X][x] = p}
    BY <1>1, <1>2 DEF PagesOf
  <2>. QED  BY <2>1, <2>2, <2>3
<1>8. \A T1, T2 \in Ts \cup {g}, e1, e2 \in Entries :
        tb2[T1][e1] = tb2[T2][e2] /\ tb2[T1][e1] # Absent => T1 = T2 /\ e1 = e2
  <2>1. \A X \in Ts, x \in Entries : tb[X][x] # f
    BY <1>1 DEF PagesOf
  <2>2. \A T1, T2 \in Ts, e1, e2 \in Entries :
          tb[T1][e1] = tb[T2][e2] /\ tb[T1][e1] # Absent => T1 = T2 /\ e1 = e2
    BY <1>1 DEF Forest
  <2>. QED  BY <1>6, <2>1, <2>2
<1>9. \A D1, D2 \in Ds, d1, d2 \in User :
        tb2[D1][d1] = tb2[D2][d2] /\ tb2[D1][d1] # Absent => D1 = D2 /\ d1 = d2
  <2>1. \A X \in Ds, x \in User : tb[X][x] # g
    BY DEF Tables
  <2>2. \A D1, D2 \in Ds, d1, d2 \in User :
          tb[D1][d1] = tb[D2][d2] /\ tb[D1][d1] # Absent => D1 = D2 /\ d1 = d2
    BY DEF Forest
  <2>. QED  BY <1>4, <2>1, <2>2
<1>10. Forest(tb2, Ds)
  <2>1. /\ Ds \cap Tables(tb2, Ds) = {} /\ Ds \cap PagesOf(tb2, Ds) = {}
        /\ Tables(tb2, Ds) \cap PagesOf(tb2, Ds) = {}
    BY <1>1, <1>2, <1>3, <1>5, <1>7
  <2>. QED  BY <1>3, <1>5, <1>8, <1>9, <2>1 DEF Forest
<1>11. ASSUME NEW X \in Ds, NEW w \in UserPages
       PROVE  PageAt(tb2, X, w) = IF X = D /\ DirOf(w) = d /\ EntOf(w) = e THEN f
                                  ELSE PageAt(tb, X, w)
  <2>1. DirOf(w) \in User /\ EntOf(w) \in Entries
    BY PageEntry
  <2>2. CASE X = D /\ DirOf(w) = d
    BY <1>0, <1>3, <1>4, <2>1, <2>2 DEF PageAt
  <2>3. CASE ~(X = D /\ DirOf(w) = d)
    <3>1. tb2[X][DirOf(w)] = tb[X][DirOf(w)]
      BY <1>4, <2>1, <2>3
    <3>2. tb[X][DirOf(w)] # Absent => tb[X][DirOf(w)] \in Ts
      BY <1>0, <1>1, <1>3, <2>1 DEF Tables
    <3>. QED  BY <1>6, <2>1, <2>3, <3>1, <3>2 DEF PageAt
  <2>. QED  BY <2>2, <2>3
<1>. QED  BY <1>1, <1>2, <1>5, <1>7, <1>10, <1>11

\* A new directory, with nothing in its user part.
AddsTree(tb, Ds, D, tb2, Es) ==
  /\ Forest(tb, Ds) /\ Es = Ds \cup {D}
  /\ D \in Frames /\ D \notin Ds \cup Tables(tb, Ds) \cup PagesOf(tb, Ds)
  /\ tb2 \in [Frames -> [Entries -> Frames \cup {Absent}]]
  /\ \A X \in Frames \ {D} : tb2[X] = tb[X]
  /\ \A x \in User : tb2[D][x] = Absent

LEMMA NewTree ==
  ASSUME NEW tb, NEW Ds, NEW D, NEW tb2, NEW Es, AddsTree(tb, Ds, D, tb2, Es)
  PROVE  /\ Forest(tb2, Es) /\ Tables(tb2, Es) = Tables(tb, Ds)
         /\ PagesOf(tb2, Es) = PagesOf(tb, Ds)
         /\ \A X \in Ds, w \in UserPages : PageAt(tb2, X, w) = PageAt(tb, X, w)
         /\ \A w \in UserPages : PageAt(tb2, D, w) = Absent
<1>0. Absent \notin Frames /\ User \subseteq Entries
  BY Constants
<1>10. /\ Forest(tb, Ds) /\ Es = Ds \cup {D} /\ D \in Frames /\ D \notin Ds
       /\ D \notin Tables(tb, Ds) /\ D \notin PagesOf(tb, Ds)
       /\ tb2 \in [Frames -> [Entries -> Frames \cup {Absent}]]
       /\ \A X \in Frames \ {D} : tb2[X] = tb[X]
       /\ \A x \in User : tb2[D][x] = Absent
  BY DEF AddsTree
<1>. USE <1>10
<1>1. PICK Ts : Ts = Tables(tb, Ds)
  OBVIOUS
<1>2. PICK Ps : Ps = PagesOf(tb, Ds)
  OBVIOUS
<1>3. /\ tb \in [Frames -> [Entries -> Frames \cup {Absent}]] /\ Ds \subseteq Frames
      /\ Ds \cap Ts = {} /\ Ds \cap Ps = {} /\ Ts \cap Ps = {} /\ Ts \subseteq Frames
  BY <1>1, <1>2 DEF Forest, Tables
<1>4. /\ \A X \in Ds : tb2[X] = tb[X]
      /\ \A X \in Ts : tb2[X] = tb[X]
  BY <1>1, <1>3
<1>5. Tables(tb2, Es) = Ts
  BY <1>0, <1>1, <1>4 DEF Tables
<1>6. PagesOf(tb2, Es) = Ps
  <2>1. PagesOf(tb2, Es) = {p \in Frames : \E X \in Ts, x \in Entries : tb2[X][x] = p}
    BY <1>5 DEF PagesOf
  <2>2. Ps = {p \in Frames : \E X \in Ts, x \in Entries : tb[X][x] = p}
    BY <1>1, <1>2 DEF PagesOf
  <2>3. \A X \in Ts, x \in Entries : tb2[X][x] = tb[X][x]
    BY <1>4
  <2>4. \A p \in Frames : (\E X \in Ts, x \in Entries : tb2[X][x] = p) <=>
                          (\E X \in Ts, x \in Entries : tb[X][x] = p)
    BY <2>3
  <2>. QED  BY <2>1, <2>2, <2>4
<1>7. Forest(tb2, Es)
  <2>1. \A D1, D2 \in Es, d1, d2 \in User :
          tb2[D1][d1] = tb2[D2][d2] /\ tb2[D1][d1] # Absent => D1 = D2 /\ d1 = d2
    BY <1>4 DEF Forest
  <2>2. \A T1, T2 \in Ts, e1, e2 \in Entries :
          tb2[T1][e1] = tb2[T2][e2] /\ tb2[T1][e1] # Absent => T1 = T2 /\ e1 = e2
    BY <1>1, <1>4 DEF Forest
  <2>3. Es \cap Ts = {} /\ Es \cap Ps = {}
    BY <1>1, <1>2, <1>3
  <2>. QED  BY <1>3, <1>5, <1>6, <2>1, <2>2, <2>3 DEF Forest
<1>8. ASSUME NEW X \in Ds, NEW w \in UserPages
      PROVE  PageAt(tb2, X, w) = PageAt(tb, X, w)
  <2>1. DirOf(w) \in User
    BY PageEntry
  <2>2. tb[X][DirOf(w)] # Absent => tb[X][DirOf(w)] \in Ts
    BY <1>0, <1>1, <1>3, <2>1 DEF Tables
  <2>. QED  BY <1>4, <2>2 DEF PageAt
<1>9. \A w \in UserPages : PageAt(tb2, D, w) = Absent
  BY PageEntry DEF PageAt
<1>. QED  BY <1>1, <1>2, <1>5, <1>6, <1>7, <1>8, <1>9

\* A directory is freed with all below it, and with frames C that are in no tree.
FreesTree(tb, Ds, D, C, S, tb2, Es) ==
  /\ Forest(tb, Ds) /\ D \in Ds /\ Es = Ds \ {D}
  /\ C \cap (Ds \cup Tables(tb, Ds) \cup PagesOf(tb, Ds)) = {}
  /\ S = {D} \cup Tables(tb, {D}) \cup PagesOf(tb, {D}) \cup C
  /\ tb2 \in [Frames -> [Entries -> Frames \cup {Absent}]]
  /\ \A X \in Frames \ S : tb2[X] = tb[X]

LEMMA FreeTree ==
  ASSUME NEW tb, NEW Ds, NEW D, NEW C, NEW S, NEW tb2, NEW Es,
         FreesTree(tb, Ds, D, C, S, tb2, Es)
  PROVE  /\ Forest(tb2, Es) /\ Tables(tb2, Es) = Tables(tb, Ds) \ S
         /\ PagesOf(tb2, Es) = PagesOf(tb, Ds) \ S
         /\ S \cap Ds = {D} /\ S \ C \subseteq Ds \cup Tables(tb, Ds) \cup PagesOf(tb, Ds)
         /\ \A X \in Es, w \in UserPages : PageAt(tb2, X, w) = PageAt(tb, X, w)
<1>0. Absent \notin Frames /\ User \subseteq Entries
  BY Constants
<1>15. /\ Forest(tb, Ds) /\ D \in Ds /\ Es = Ds \ {D}
       /\ C \cap (Ds \cup Tables(tb, Ds) \cup PagesOf(tb, Ds)) = {}
       /\ S = {D} \cup Tables(tb, {D}) \cup PagesOf(tb, {D}) \cup C
       /\ tb2 \in [Frames -> [Entries -> Frames \cup {Absent}]]
       /\ \A X \in Frames \ S : tb2[X] = tb[X]
  BY DEF FreesTree
<1>. USE <1>15
<1>1. PICK Ts : Ts = Tables(tb, Ds)
  OBVIOUS
<1>2. PICK Ps : Ps = PagesOf(tb, Ds)
  OBVIOUS
<1>3. /\ tb \in [Frames -> [Entries -> Frames \cup {Absent}]] /\ Ds \subseteq Frames
      /\ Ds \cap Ts = {} /\ Ds \cap Ps = {} /\ Ts \cap Ps = {} /\ Ts \subseteq Frames
  BY <1>1, <1>2 DEF Forest, Tables
<1>4. PICK Td : Td = Tables(tb, {D})
  OBVIOUS
<1>5. PICK Pd : Pd = PagesOf(tb, {D})
  OBVIOUS
<1>6. Td = {T \in Frames : \E d \in User : tb[D][d] = T} /\ Td \subseteq Ts
  BY <1>1, <1>4 DEF Tables
<1>7. /\ Pd = {f \in Frames : \E T \in Td, e \in Entries : tb[T][e] = f}
      /\ Ps = {f \in Frames : \E T \in Ts, e \in Entries : tb[T][e] = f}
      /\ Pd \subseteq Ps
  <2>1. Pd = {f \in Frames : \E T \in Td, e \in Entries : tb[T][e] = f}
    BY <1>4, <1>5 DEF PagesOf
  <2>2. Ps = {f \in Frames : \E T \in Ts, e \in Entries : tb[T][e] = f}
    BY <1>1, <1>2 DEF PagesOf
  <2>. QED  BY <1>6, <2>1, <2>2
<1>8. S = {D} \cup Td \cup Pd \cup C /\ C \cap (Ds \cup Ts \cup Ps) = {}
  BY <1>1, <1>2, <1>4, <1>5
<1>9. S \cap Ds = {D} /\ S \cap Ts = Td /\ S \cap Ps = Pd
  <2>1. Td \subseteq Ts /\ Pd \subseteq Ps /\ D \in Ds
    BY <1>6, <1>7
  <2>. QED  BY <1>3, <1>8, <2>1
<1>10. /\ \A X \in Es : tb2[X] = tb[X]
       /\ \A X \in Ts \ Td : tb2[X] = tb[X]
  BY <1>3, <1>9
<1>11. Tables(tb2, Es) = Ts \ Td
  <2>1. Tables(tb2, Es) = {T \in Frames : \E X \in Es, d \in User : tb[X][d] = T}
    BY <1>10 DEF Tables
  <2>2. ASSUME NEW X \in Es, NEW d \in User, tb[X][d] \in Frames
        PROVE  tb[X][d] \notin Td
    BY <1>0, <1>6, <2>2 DEF Forest
  <2>3. \A T \in Ts \ Td : \E X \in Es, d \in User : tb[X][d] = T
    BY <1>1, <1>6 DEF Tables
  <2>4. \A T \in Frames : (\E X \in Es, d \in User : tb[X][d] = T) => T \in Ts
    BY <1>1 DEF Tables
  <2>5. Tables(tb2, Es) \subseteq Ts \ Td
    <3>. SUFFICES ASSUME NEW T \in Tables(tb2, Es)  PROVE T \in Ts \ Td
      OBVIOUS
    <3>1. PICK X \in Es, d \in User : tb[X][d] = T
      BY <2>1
    <3>2. T \in Frames
      BY <2>1
    <3>. QED  BY <2>2, <2>4, <3>1, <3>2
  <2>6. Ts \ Td \subseteq Tables(tb2, Es)
    BY <1>3, <2>1, <2>3
  <2>. QED  BY <2>5, <2>6
<1>12. PagesOf(tb2, Es) = Ps \ Pd
  <2>1. PagesOf(tb2, Es) = {f \in Frames : \E X \in Ts \ Td, x \in Entries : tb[X][x] = f}
    <3>1. PagesOf(tb2, Es) = {f \in Frames : \E X \in Ts \ Td, x \in Entries : tb2[X][x] = f}
      BY <1>11 DEF PagesOf
    <3>. QED  BY <1>10, <3>1
  <2>2. ASSUME NEW X \in Ts \ Td, NEW x \in Entries, tb[X][x] \in Frames
        PROVE  tb[X][x] \notin Pd
    <3>1. \A T \in Td, y \in Entries : tb[X][x] = tb[T][y] => X = T
      <4>1. \A T1, T2 \in Ts, e1, e2 \in Entries :
              tb[T1][e1] = tb[T2][e2] /\ tb[T1][e1] # Absent => T1 = T2 /\ e1 = e2
        BY <1>1 DEF Forest
      <4>. QED  BY <1>0, <1>6, <2>2, <4>1
    <3>2. \A T \in Td, y \in Entries : tb[T][y] # tb[X][x]
      BY <3>1
    <3>. QED  BY <1>7, <3>2
  <2>3. \A f \in Ps \ Pd : \E X \in Ts \ Td, x \in Entries : tb[X][x] = f
    BY <1>7
  <2>4. PagesOf(tb2, Es) \subseteq Ps \ Pd
    <3>. SUFFICES ASSUME NEW f \in PagesOf(tb2, Es)  PROVE f \in Ps \ Pd
      OBVIOUS
    <3>1. PICK X \in Ts \ Td, x \in Entries : tb[X][x] = f
      BY <2>1
    <3>2. f \in Frames
      BY <2>1
    <3>. QED  BY <1>7, <2>2, <3>1, <3>2
  <2>5. Ps \ Pd \subseteq PagesOf(tb2, Es)
    BY <1>7, <2>1, <2>3
  <2>. QED  BY <2>4, <2>5
<1>13. Forest(tb2, Es)
  <2>1. \A D1, D2 \in Es, d1, d2 \in User :
          tb2[D1][d1] = tb2[D2][d2] /\ tb2[D1][d1] # Absent => D1 = D2 /\ d1 = d2
    BY <1>10 DEF Forest
  <2>2. \A T1, T2 \in Ts \ Td, e1, e2 \in Entries :
          tb2[T1][e1] = tb2[T2][e2] /\ tb2[T1][e1] # Absent => T1 = T2 /\ e1 = e2
    BY <1>1, <1>10 DEF Forest
  <2>. QED  BY <1>3, <1>11, <1>12, <2>1, <2>2 DEF Forest
<1>14. ASSUME NEW X \in Es, NEW w \in UserPages
       PROVE  PageAt(tb2, X, w) = PageAt(tb, X, w)
  <2>1. DirOf(w) \in User
    BY PageEntry
  <2>2. tb[X][DirOf(w)] # Absent => tb[X][DirOf(w)] \in Ts \ Td
    <3>1. tb[X][DirOf(w)] # Absent => tb[X][DirOf(w)] \in Ts
      BY <1>0, <1>1, <1>3, <2>1 DEF Tables
    <3>2. tb[X][DirOf(w)] # Absent => tb[X][DirOf(w)] \notin Td
      BY <1>6, <2>1 DEF Forest
    <3>. QED  BY <3>1, <3>2
  <2>. QED  BY <1>10, <2>2 DEF PageAt
<1>. QED
  <2>1. Ts \ Td = Ts \ S /\ Ps \ Pd = Ps \ S
    BY <1>9
  <2>. QED  BY <1>1, <1>2, <1>6, <1>7, <1>8, <1>9, <1>11, <1>12, <1>13, <1>14, <2>1

\* Pages K of a directory are unmapped.
Unmaps(tb, Ds, D, K, tb2) ==
  /\ Forest(tb, Ds) /\ D \in Ds /\ K \subseteq UserPages
  /\ \A v \in K : PageAt(tb, D, v) # Absent
  /\ tb2 \in [Frames -> [Entries -> Frames \cup {Absent}]]
  /\ \A X \in Frames, x \in Entries :
       tb2[X][x] = IF \E v \in K : tb[D][DirOf(v)] = X /\ EntOf(v) = x THEN Absent
                   ELSE tb[X][x]

LEMMA UnmapPages ==
  ASSUME NEW tb, NEW Ds, NEW D, NEW K, NEW tb2, Unmaps(tb, Ds, D, K, tb2)
  PROVE  /\ Forest(tb2, Ds) /\ Tables(tb2, Ds) = Tables(tb, Ds)
         /\ PagesOf(tb2, Ds) = PagesOf(tb, Ds) \ {PageAt(tb, D, v) : v \in K}
         /\ \A v \in K : PageAt(tb, D, v) \in PagesOf(tb, Ds)
         /\ \A X \in Frames \ Tables(tb, Ds), x \in Entries : tb2[X][x] = tb[X][x]
         /\ \A X \in Ds, w \in UserPages :
              PageAt(tb2, X, w) = IF X = D /\ w \in K THEN Absent ELSE PageAt(tb, X, w)
<1>0. Absent \notin Frames /\ User \subseteq Entries /\ UserPages \subseteq Pages
  BY Constants, UserIsPage
<1>11. /\ Forest(tb, Ds) /\ D \in Ds /\ K \subseteq UserPages
       /\ \A v \in K : PageAt(tb, D, v) # Absent
       /\ tb2 \in [Frames -> [Entries -> Frames \cup {Absent}]]
       /\ \A X \in Frames, x \in Entries :
            tb2[X][x] = IF \E v \in K : tb[D][DirOf(v)] = X /\ EntOf(v) = x THEN Absent
                        ELSE tb[X][x]
  BY DEF Unmaps
<1>. USE <1>11
<1>1. PICK Ts : Ts = Tables(tb, Ds)
  OBVIOUS
<1>2. PICK Ps : Ps = PagesOf(tb, Ds)
  OBVIOUS
<1>3. /\ tb \in [Frames -> [Entries -> Frames \cup {Absent}]] /\ Ds \subseteq Frames
      /\ Ds \cap Ts = {} /\ Ds \cap Ps = {} /\ Ts \cap Ps = {} /\ Ts \subseteq Frames
      /\ Ps = {f \in Frames : \E T \in Ts, e \in Entries : tb[T][e] = f}
  BY <1>1, <1>2 DEF Forest, Tables, PagesOf
<1>4. ASSUME NEW v \in K
      PROVE  /\ DirOf(v) \in User /\ EntOf(v) \in Entries /\ tb[D][DirOf(v)] \in Ts
             /\ PageAt(tb, D, v) = tb[tb[D][DirOf(v)]][EntOf(v)] /\ PageAt(tb, D, v) \in Ps
  <2>1. DirOf(v) \in User /\ EntOf(v) \in Entries
    BY PageEntry
  <2>2. tb[D][DirOf(v)] # Absent
    BY DEF PageAt
  <2>3. tb[D][DirOf(v)] \in Ts
    BY <1>0, <1>1, <1>3, <2>1, <2>2 DEF Tables
  <2>4. PageAt(tb, D, v) = tb[tb[D][DirOf(v)]][EntOf(v)]
    BY <2>2 DEF PageAt
  <2>. QED  BY <1>3, <2>1, <2>3, <2>4
<1>5. \A X \in Frames \ Ts, x \in Entries : tb2[X][x] = tb[X][x]
  BY <1>4
<1>6. Tables(tb2, Ds) = Ts
  <2>1. \A X \in Ds, d \in User : tb2[X][d] = tb[X][d]
    BY <1>0, <1>3, <1>5
  <2>. QED  BY <1>1, <2>1 DEF Tables
<1>7. \A X \in Ts, x \in Entries : tb2[X][x] # Absent => tb2[X][x] = tb[X][x]
  BY <1>3
<1>8. PagesOf(tb2, Ds) = Ps \ {PageAt(tb, D, v) : v \in K}
  <2>1. PagesOf(tb2, Ds) = {f \in Frames : \E X \in Ts, x \in Entries : tb2[X][x] = f}
    BY <1>6 DEF PagesOf
  <2>2. ASSUME NEW X \in Ts, NEW x \in Entries, tb2[X][x] \in Frames, NEW v \in K
        PROVE  tb2[X][x] # PageAt(tb, D, v)
    <3>1. tb2[X][x] = tb[X][x] /\ ~(tb[D][DirOf(v)] = X /\ EntOf(v) = x)
      BY <1>0, <1>3, <2>2
    <3>2. tb[tb[D][DirOf(v)]][EntOf(v)] # Absent /\ tb[D][DirOf(v)] \in Ts /\ EntOf(v) \in Entries
      BY <1>4
    <3>3. tb[X][x] # tb[tb[D][DirOf(v)]][EntOf(v)]
      BY <1>1, <3>1, <3>2 DEF Forest
    <3>. QED  BY <1>4, <3>1, <3>3
  <2>3. ASSUME NEW f \in Ps, \A v \in K : f # PageAt(tb, D, v)
        PROVE  \E X \in Ts, x \in Entries : tb2[X][x] = f
    <3>1. PICK X \in Ts, x \in Entries : tb[X][x] = f
      BY <1>3
    <3>2. tb2[X][x] = f
      BY <1>3, <1>4, <2>3, <3>1
    <3>. QED  BY <3>2
  <2>4. \A f \in Frames, X \in Ts, x \in Entries : tb2[X][x] = f => f \in Ps
    BY <1>0, <1>3, <1>7
  <2>. QED  BY <1>3, <2>1, <2>2, <2>3, <2>4
<1>9. Forest(tb2, Ds)
  <2>1. \A D1, D2 \in Ds, d1, d2 \in User :
          tb2[D1][d1] = tb2[D2][d2] /\ tb2[D1][d1] # Absent => D1 = D2 /\ d1 = d2
    <3>1. \A X \in Ds, d \in User : tb2[X][d] = tb[X][d]
      BY <1>0, <1>3, <1>5
    <3>. QED  BY <3>1 DEF Forest
  <2>2. \A T1, T2 \in Ts, e1, e2 \in Entries :
          tb2[T1][e1] = tb2[T2][e2] /\ tb2[T1][e1] # Absent => T1 = T2 /\ e1 = e2
    BY <1>1, <1>7 DEF Forest
  <2>. QED  BY <1>3, <1>6, <1>8, <2>1, <2>2 DEF Forest
<1>10. ASSUME NEW X \in Ds, NEW w \in UserPages
       PROVE  PageAt(tb2, X, w) = IF X = D /\ w \in K THEN Absent ELSE PageAt(tb, X, w)
  <2>1. DirOf(w) \in User /\ EntOf(w) \in Entries
    BY PageEntry
  <2>2. tb2[X][DirOf(w)] = tb[X][DirOf(w)]
    BY <1>0, <1>3, <1>5, <2>1
  <2>3. CASE tb[X][DirOf(w)] = Absent
    BY <2>2, <2>3 DEF PageAt
  <2>4. CASE tb[X][DirOf(w)] # Absent
    <3>. DEFINE T == tb[X][DirOf(w)]
    <3>1. T \in Ts /\ T \in Frames
      BY <1>0, <1>1, <1>3, <2>1, <2>4 DEF Tables
    <3>2. \A v \in K : tb[D][DirOf(v)] = T /\ EntOf(v) = EntOf(w) => X = D /\ v = w
      <4>. SUFFICES ASSUME NEW v \in K, tb[D][DirOf(v)] = T, EntOf(v) = EntOf(w)
                    PROVE  X = D /\ v = w
        OBVIOUS
      <4>1. X = D /\ DirOf(v) = DirOf(w)
        BY <1>4, <2>1, <2>4 DEF Forest
      <4>. QED  BY <1>0, <4>1, PageUnique
    <3>3. tb2[T][EntOf(w)] = IF X = D /\ w \in K THEN Absent ELSE tb[T][EntOf(w)]
      BY <2>1, <3>1, <3>2
    <3>. QED  BY <2>2, <2>4, <3>3 DEF PageAt
  <2>. QED  BY <2>3, <2>4
<1>. QED  BY <1>1, <1>2, <1>4, <1>5, <1>6, <1>8, <1>9, <1>10

-----------------------------------------------------------------------------
(* The operators of Vm in these terms. *)

LEMMA MappedIs ==
  /\ \A D, v : Mapped(D, v) <=> PageAt(table, D, v) # Absent
  /\ \A D, v : Mapped(D, v) => Phys(D, v) = PageAt(table, D, v)
  /\ \A D : MappedUser(D) = Maps(D)
BY DEF Mapped, HasTable, Phys, MappedUser, Maps, MapsIn, PageAt, DirOf, EntOf

LEMMA OwnedIs ==
  ASSUME TypeOK, NEW D \in Frames
  PROVE  Owned(D) = {D} \cup Tables(table, {D}) \cup PagesOf(table, {D})
<1>0. Absent \notin Frames /\ User \subseteq Entries /\ User = Entries \ {0}
  BY Constants DEF User
<1>1. table \in [Frames -> [Entries -> Frames \cup {Absent}]]
  BY DEF TypeOK
<1>2. {table[D][d] : d \in {e \in Entries \ {0} : table[D][e] # Absent}} = Tables(table, {D})
  BY <1>0, <1>1 DEF Tables
<1>3. {Phys(D, v) : v \in MappedUser(D)} = PagesOf(table, {D})
  <2>1. ASSUME NEW v \in MappedUser(D)  PROVE Phys(D, v) \in PagesOf(table, {D})
    <3>1. v \in UserPages /\ DirOf(v) \in User /\ EntOf(v) \in Entries
      BY PageEntry DEF MappedUser
    <3>2. table[D][DirOf(v)] # Absent /\ Phys(D, v) = table[table[D][DirOf(v)]][EntOf(v)]
          /\ Phys(D, v) # Absent
      BY DEF MappedUser, Mapped, HasTable, Phys, DirOf, EntOf
    <3>3. table[D][DirOf(v)] \in Tables(table, {D})
      BY <1>0, <1>1, <3>1, <3>2 DEF Tables
    <3>4. Phys(D, v) \in Frames
      BY <1>0, <1>1, <3>1, <3>2
    <3>. QED  BY <3>1, <3>2, <3>3, <3>4 DEF PagesOf
  <2>2. ASSUME NEW f \in PagesOf(table, {D})  PROVE \E v \in MappedUser(D) : Phys(D, v) = f
    <3>1. PICK T \in Tables(table, {D}), e \in Entries : table[T][e] = f
      BY DEF PagesOf
    <3>2. PICK d \in User : table[D][d] = T
      BY DEF Tables
    <3>3. PICK v \in UserPages : DirOf(v) = d /\ EntOf(v) = e
      BY EntryPage
    <3>4. T # Absent /\ f # Absent
      BY <1>0 DEF Tables, PagesOf
    <3>5. v \in MappedUser(D) /\ Phys(D, v) = f
      BY <3>1, <3>2, <3>3, <3>4 DEF MappedUser, Mapped, HasTable, Phys, DirOf, EntOf
    <3>. QED  BY <3>5
  <2>. QED  BY <2>1, <2>2
<1>. QED  BY <1>2, <1>3 DEF Owned

\* pmm_alloc_frame returns a free frame if there is one.
LEMMA FrameFree ==
  ASSUME NEW u, Free(u) # {}
  PROVE  Frame(u) \in Frames /\ Frame(u) \notin u
<1>1. Free(u) \in SUBSET Nat
  BY VmAssumption DEF Free, Frames
<1>2. Min(Free(u)) \in Free(u)
  BY <1>1, MinIsLeast
<1>. QED  BY <1>2 DEF Frame, Free

\* Two frames serve two requests.
LEMMA Enough ==
  ASSUME NEW u, NEW n \in Nat, Cardinality(Free(u)) >= n
  PROVE  /\ n >= 1 => Free(u) # {}
         /\ n >= 2 => Free(Taken(u)) # {}
<1>1. IsFiniteSet(Free(u))
  <2>1. IsFiniteSet(Frames)
    BY FS_Interval, VmAssumption DEF Frames
  <2>2. Free(u) \subseteq Frames
    BY DEF Free
  <2>. QED  BY <2>1, <2>2, FS_Subset
<1>2. n >= 1 => Free(u) # {}
  BY FS_EmptySet
<1>3. ASSUME n >= 2  PROVE Free(Taken(u)) # {}
  <2>1. Frame(u) \in Free(u)
    BY <1>2, <1>3, FrameFree DEF Free
  <2>2. Free(Taken(u)) = Free(u) \ {Frame(u)}
    BY DEF Free, Taken
  <2>3. Cardinality(Free(Taken(u))) = Cardinality(Free(u)) - 1
    BY <1>1, <2>1, <2>2, FS_RemoveElement
  <2>4. Cardinality(Free(u)) \in Nat
    BY <1>1, FS_CardinalityType
  <2>. QED  BY <1>3, <2>3, <2>4, FS_EmptySet
<1>. QED  BY <1>2, <1>3

\* paging_map with a frame f that is in no tree: it becomes a page, and a free
\* frame may become a table.
LEMMA MapState ==
  ASSUME TypeOK, Identity, Parts, NEW D \in Dirs, NEW v \in UserPages, v \notin Maps(D),
         NEW f \in Frames, f \notin Dirs \cup Tabs \cup Pgs,
         NEW u, used \subseteq u, f \in u, HasTable(D, v) \/ Free(u) # {},
         paging_map(D, v, f, u)
  PROVE  /\ Forest(table', Dirs) /\ PagesOf(table', Dirs) = Pgs \cup {f}
         /\ \E G \in SUBSET Frames :
              G \cap u = {} /\ Tables(table', Dirs) = Tabs \cup G /\ used' = u \cup G
         /\ \A X \in Dirs : table'[X][0] = first_table
         /\ \A e \in Entries : table'[first_table][e] = e
         /\ \A X \in Dirs, w \in UserPages :
              PageAt(table', X, w) = IF X = D /\ w = v THEN f ELSE PageAt(table, X, w)
<1>. DEFINE d == DirOf(v)
            e == EntOf(v)
<1>0. /\ Absent \notin Frames /\ User \subseteq Entries /\ UserPages \subseteq Pages
      /\ 0 \in Entries /\ 0 \notin User /\ first_table \in Frames /\ kernel_dir # first_table
      /\ first_table \in Reserved
      /\ Zeroed \in [Entries -> Frames \cup {Absent}] /\ \A x \in Entries : Zeroed[x] = Absent
  BY Constants, UserIsPage DEF User, Reserved
<1>1. d \in User /\ e \in Entries
  BY PageEntry
<1>2. /\ table \in [Frames -> [Entries -> Frames \cup {Absent}]] /\ Dirs \subseteq Frames
      /\ D \in Frames
  BY DEF Parts, Forest
<1>3. Forest(table, Dirs) /\ used = Reserved \cup Dirs \cup Tabs \cup Pgs \cup CopyFrames \cup Scratch
      /\ first_table \notin Dirs /\ first_table \notin Tabs /\ first_table \in u
  BY <1>0 DEF Parts
<1>4. PageAt(table, D, v) = Absent
  BY DEF Maps, MapsIn
<1>5. \A w \in UserPages : DirOf(w) = d /\ EntOf(w) = e => w = v
  BY <1>0, PageUnique
<1>6. CASE HasTable(D, v)
  <2>. DEFINE T == table[D][d]
  <2>1. T # Absent /\ table[T][e] = Absent
    BY <1>4, <1>6 DEF HasTable, PageAt, DirOf, EntOf
  <2>2. T \in Frames /\ T \in Tabs
    BY <1>0, <1>1, <1>2, <2>1 DEF Tabs, Tables
  <2>3. table' = [table EXCEPT ![T][e] = f] /\ used' = u
    BY <1>6 DEF paging_map, DirOf, EntOf
  <2>4. /\ table' \in [Frames -> [Entries -> Frames \cup {Absent}]]
        /\ \A X \in Frames \ {T} : table'[X] = table[X]
        /\ \A x \in Entries : table'[T][x] = IF x = e THEN f ELSE table[T][x]
    BY <1>1, <1>2, <2>2, <2>3
  <2>. HIDE DEF d, e
  <2>5. /\ Forest(table', Dirs) /\ Tables(table', Dirs) = Tabs
        /\ PagesOf(table', Dirs) = Pgs \cup {f}
        /\ \A X \in Dirs, w \in UserPages :
             PageAt(table', X, w) = IF X = D /\ DirOf(w) = d /\ EntOf(w) = e THEN f
                                    ELSE PageAt(table, X, w)
    BY <1>1, <1>3, <2>1, <2>4, MapOld DEF Tabs, Pgs
  <2>6. /\ \A X \in Dirs : table'[X][0] = first_table
        /\ \A x \in Entries : table'[first_table][x] = x
    <3>1. T \notin Dirs /\ T # first_table
      BY <1>3, <2>2 DEF Forest, Tabs
    <3>. QED  BY <1>0, <1>2, <2>4, <3>1 DEF Identity
  <2>7. {} \in SUBSET Frames /\ {} \cap u = {} /\ Tables(table', Dirs) = Tabs \cup {} /\ used' = u \cup {}
    BY <2>3, <2>5
  <2>8. \A X \in Dirs, w \in UserPages :
          PageAt(table', X, w) = IF X = D /\ w = v THEN f ELSE PageAt(table, X, w)
    BY <1>5, <2>5 DEF d, e
  <2>. QED  BY <2>5, <2>6, <2>7, <2>8
<1>7. CASE ~HasTable(D, v)
  <2>. DEFINE g == Frame(u)
  <2>1. table[D][d] = Absent
    BY <1>7 DEF HasTable, DirOf
  <2>2. g \in Frames /\ g \notin u
    BY <1>7, FrameFree
  <2>3. table' = [table EXCEPT ![D][d] = g, ![g] = [Zeroed EXCEPT ![e] = f]] /\ used' = u \cup {g}
    BY <1>7 DEF paging_map, DirOf, EntOf, Taken
  <2>. HIDE DEF d, e, g
  <2>4. g \notin Dirs /\ g \notin Tabs /\ g \notin Pgs /\ f # g /\ D # g /\ g # first_table
    BY <1>3, <2>2
  <2>5. /\ table' \in [Frames -> [Entries -> Frames \cup {Absent}]]
        /\ \A X \in Frames \ {D, g} : table'[X] = table[X]
        /\ \A x \in Entries : table'[D][x] = IF x = d THEN g ELSE table[D][x]
        /\ \A x \in Entries : table'[g][x] = IF x = e THEN f ELSE Absent
    BY <1>0, <1>1, <1>2, <2>2, <2>3, <2>4
  <2>6. /\ Forest(table', Dirs) /\ Tables(table', Dirs) = Tabs \cup {g}
        /\ PagesOf(table', Dirs) = Pgs \cup {f}
        /\ \A X \in Dirs, w \in UserPages :
             PageAt(table', X, w) = IF X = D /\ DirOf(w) = d /\ EntOf(w) = e THEN f
                                    ELSE PageAt(table, X, w)
    BY <1>1, <1>3, <2>1, <2>2, <2>4, <2>5, MapNew DEF Tabs, Pgs
  <2>7. /\ \A X \in Dirs : table'[X][0] = first_table
        /\ \A x \in Entries : table'[first_table][x] = x
    <3>1. 0 # d /\ D # first_table
      BY <1>0, <1>1, <1>3
    <3>. QED  BY <1>0, <1>2, <2>4, <2>5, <3>1 DEF Identity
  <2>8. {g} \in SUBSET Frames /\ {g} \cap u = {}
    BY <2>2
  <2>9. \A X \in Dirs, w \in UserPages :
          PageAt(table', X, w) = IF X = D /\ w = v THEN f ELSE PageAt(table, X, w)
    BY <1>5, <2>6 DEF d, e
  <2>. QED  BY <2>3, <2>6, <2>7, <2>8, <2>9
<1>. QED  BY <1>6, <1>7

\* The same with a new frame, outside fork.
LEMMA MapFresh ==
  ASSUME TypeOK, Identity, Parts, NEW D \in Dirs, NEW v \in UserPages, v \notin Maps(D),
         paging_map(D, v, Frame(used), Taken(used)), Free(used) # {}, Backed(D, v, 1),
         UNCHANGED <<scratch, live, page_dir>>, CopySet = {}, CopySet' = {},
         NewDir' = NewDir, NewDir => dir' = dir
  PROVE  /\ Identity' /\ Parts' /\ Dirs' = Dirs
         /\ used' \subseteq Frames /\ table' \in [Frames -> [Entries -> Frames \cup {Absent}]]
         /\ Frame(used) \in Frames
         /\ \A X \in Dirs, w \in UserPages :
              PageAt(table', X, w) = IF X = D /\ w = v THEN Frame(used) ELSE PageAt(table, X, w)
         /\ \A X \in Dirs : MapsIn(table', X) = IF X = D THEN Maps(X) \cup {v} ELSE Maps(X)
<1>. DEFINE f == Frame(used)
            u == Taken(used)
<1>0. Absent \notin Frames /\ Reserved \subseteq Frames
  BY Constants DEF Reserved
<1>1. f \in Frames /\ f \notin used /\ u = used \cup {f} /\ used \subseteq Frames
  BY FrameFree DEF Taken, TypeOK
<1>2. HasTable(D, v) \/ Free(u) # {}
  <2>1. ~HasTable(D, v) => Cardinality(Free(used)) >= 2
    BY DEF Backed
  <2>. QED  BY <2>1, Enough
<1>3. CopyFrames = {} /\ CopyFrames' = {}
  BY DEF CopyFrames
<1>4. /\ used = Reserved \cup Dirs \cup Tabs \cup Pgs \cup Scratch
      /\ Scratch \cap (Reserved \cup Dirs \cup Tabs \cup Pgs) = {}
      /\ Tabs \cap Reserved = {} /\ Pgs \cap Reserved = {} /\ Dirs \cap Reserved = {kernel_dir}
  BY <1>3 DEF Parts
<1>5. Dirs' = Dirs /\ LiveDirs' = LiveDirs /\ Scratch' = Scratch
  BY DEF Dirs, LiveDirs, Scratch
<1>. HIDE DEF f, u
<1>6. /\ Forest(table', Dirs) /\ PagesOf(table', Dirs) = Pgs \cup {f}
      /\ \E G \in SUBSET Frames :
           G \cap u = {} /\ Tables(table', Dirs) = Tabs \cup G /\ used' = u \cup G
      /\ \A X \in Dirs : table'[X][0] = first_table
      /\ \A e \in Entries : table'[first_table][e] = e
      /\ \A X \in Dirs, w \in UserPages :
           PageAt(table', X, w) = IF X = D /\ w = v THEN f ELSE PageAt(table, X, w)
  <2>1. f \notin Dirs \cup Tabs \cup Pgs /\ used \subseteq u /\ f \in u
    BY <1>1, <1>4
  <2>2. paging_map(D, v, f, u)
    BY DEF f, u
  <2>. QED  BY <1>1, <1>2, <2>1, <2>2, MapState
<1>7. PICK G \in SUBSET Frames :
        G \cap u = {} /\ Tables(table', Dirs) = Tabs \cup G /\ used' = u \cup G
  BY <1>6
<1>8. Tabs' = Tabs \cup G /\ Pgs' = Pgs \cup {f}
  BY <1>5, <1>6, <1>7 DEF Tabs, Pgs
<1>9. Identity'
  BY <1>5, <1>6 DEF Identity
<1>10. Parts'
  <2>1. used' = Reserved \cup Dirs' \cup Tabs' \cup Pgs' \cup CopyFrames' \cup Scratch'
    BY <1>1, <1>3, <1>4, <1>5, <1>7, <1>8
  <2>2. Tabs' \cap Reserved = {} /\ Pgs' \cap Reserved = {} /\ Dirs' \cap Reserved = {kernel_dir}
    BY <1>1, <1>4, <1>5, <1>7, <1>8
  <2>3. Scratch' \cap (Reserved \cup Dirs' \cup Tabs' \cup Pgs' \cup CopyFrames') = {}
    BY <1>1, <1>3, <1>4, <1>5, <1>7, <1>8
  <2>4. \A p, q \in Procs : live'[p] /\ live'[q] /\ page_dir'[p] = page_dir'[q] => p = q
    BY DEF Parts
  <2>5. NewDir' => dir' \notin LiveDirs'
    BY <1>5 DEF Parts
  <2>. QED  BY <1>3, <1>5, <1>6, <2>1, <2>2, <2>3, <2>4, <2>5 DEF Parts
<1>11. \A X \in Dirs : MapsIn(table', X) = IF X = D THEN Maps(X) \cup {v} ELSE Maps(X)
  BY <1>0, <1>1, <1>6 DEF Maps, MapsIn
<1>12. table' \in [Frames -> [Entries -> Frames \cup {Absent}]]
  BY <1>6 DEF Forest
<1>13. used' \subseteq Frames
  BY <1>1, <1>7
<1>14. f = Frame(used)
  BY DEF f
<1>. QED  BY <1>1, <1>5, <1>6, <1>9, <1>10, <1>11, <1>12, <1>13, <1>14

\* A page that is mapped is one of the pages, and of no other directory.
LEMMA PageIn ==
  ASSUME Parts, NEW X \in Dirs, NEW w \in UserPages, PageAt(table, X, w) # Absent
  PROVE  /\ PageAt(table, X, w) \in Pgs /\ PageAt(table, X, w) \in Frames
         /\ \A Y \in Dirs, z \in UserPages :
              PageAt(table, Y, z) = PageAt(table, X, w) => Y = X /\ z = w
<1>0. /\ table \in [Frames -> [Entries -> Frames \cup {Absent}]] /\ Dirs \subseteq Frames
      /\ Absent \notin Frames /\ User \subseteq Entries /\ UserPages \subseteq Pages
  BY Constants, UserIsPage DEF Parts, Forest
<1>1. ASSUME NEW Y \in Dirs, NEW z \in UserPages, PageAt(table, Y, z) # Absent
      PROVE  /\ DirOf(z) \in User /\ EntOf(z) \in Entries
             /\ table[Y][DirOf(z)] \in Tabs /\ table[Y][DirOf(z)] # Absent
             /\ PageAt(table, Y, z) = table[table[Y][DirOf(z)]][EntOf(z)]
  <2>1. DirOf(z) \in User /\ EntOf(z) \in Entries
    BY PageEntry
  <2>2. table[Y][DirOf(z)] # Absent
    BY <1>1 DEF PageAt
  <2>3. table[Y][DirOf(z)] \in Tabs
    BY <1>0, <2>1, <2>2 DEF Tabs, Tables
  <2>. QED  BY <2>1, <2>2, <2>3 DEF PageAt
<1>8. ASSUME NEW D1 \in Dirs, NEW D2 \in Dirs, NEW d1 \in User, NEW d2 \in User,
             table[D1][d1] = table[D2][d2], table[D1][d1] # Absent
      PROVE  D1 = D2 /\ d1 = d2
  BY <1>8 DEF Parts, Forest
<1>9. ASSUME NEW T1 \in Tabs, NEW T2 \in Tabs, NEW e1 \in Entries, NEW e2 \in Entries,
             table[T1][e1] = table[T2][e2], table[T1][e1] # Absent
      PROVE  T1 = T2 /\ e1 = e2
  BY <1>9 DEF Parts, Forest, Tabs
<1>2. PICK T : T = table[X][DirOf(w)]
  OBVIOUS
<1>3. T \in Tabs /\ EntOf(w) \in Entries /\ PageAt(table, X, w) = table[T][EntOf(w)]
      /\ DirOf(w) \in User /\ T # Absent
  BY <1>1, <1>2
<1>4. T \in Frames
  BY <1>3 DEF Tabs, Tables
<1>5. PageAt(table, X, w) \in Frames
  BY <1>0, <1>3, <1>4
<1>6. PageAt(table, X, w) \in Pgs
  BY <1>3, <1>5 DEF Pgs, PagesOf, Tabs
<1>7. ASSUME NEW Y \in Dirs, NEW z \in UserPages, PageAt(table, Y, z) = PageAt(table, X, w)
      PROVE  Y = X /\ z = w
  <2>1. PICK U : U = table[Y][DirOf(z)]
    OBVIOUS
  <2>2. U \in Tabs /\ EntOf(z) \in Entries /\ PageAt(table, Y, z) = table[U][EntOf(z)]
        /\ DirOf(z) \in User /\ U # Absent
    BY <1>1, <1>7, <2>1
  <2>3. U = T /\ EntOf(z) = EntOf(w)
    <3>1. table[U][EntOf(z)] = table[T][EntOf(w)] /\ table[U][EntOf(z)] # Absent
      BY <1>3, <1>7, <2>2
    <3>. QED  BY <1>3, <1>9, <2>2, <3>1
  <2>4. Y = X /\ DirOf(z) = DirOf(w)
    <3>1. table[Y][DirOf(z)] = table[X][DirOf(w)] /\ table[Y][DirOf(z)] # Absent
      BY <1>2, <2>1, <2>2, <2>3
    <3>. QED  BY <1>3, <1>8, <2>2, <3>1
  <2>. QED  BY <1>0, <2>3, <2>4, PageUnique
<1>. QED  BY <1>5, <1>6, <1>7

\* What paging_map changes of what is found in the pages.
LEMMA MapSeen ==
  ASSUME Parts, NEW D \in Dirs, NEW v \in UserPages, NEW f \in Frames, f \notin Pgs, NEW x,
         data'[f] = x, \A g \in Frames \ {f} : data'[g] = data[g],
         \A X \in Dirs, w \in UserPages :
           PageAt(table', X, w) = IF X = D /\ w = v THEN f ELSE PageAt(table, X, w)
  PROVE  \A X \in Dirs : SeenIn(table', data', X) =
                           IF X = D THEN [Seen(X) EXCEPT ![v] = x] ELSE Seen(X)
<1>1. f # Absent
  BY Constants
<1>2. ASSUME NEW X \in Dirs, NEW w \in UserPages
      PROVE  SeenIn(table', data', X)[w] = IF X = D /\ w = v THEN x ELSE Seen(X)[w]
  <2>1. CASE X = D /\ w = v
    BY <1>1, <2>1 DEF SeenIn
  <2>2. CASE ~(X = D /\ w = v)
    <3>1. PageAt(table', X, w) = PageAt(table, X, w)
      BY <2>2
    <3>2. PageAt(table, X, w) # Absent => data'[PageAt(table, X, w)] = data[PageAt(table, X, w)]
      BY PageIn
    <3>. QED  BY <2>2, <3>1, <3>2 DEF Seen, SeenIn
  <2>. QED  BY <2>1, <2>2
<1>3. ASSUME NEW X \in Dirs
      PROVE  SeenIn(table', data', X) = IF X = D THEN [Seen(X) EXCEPT ![v] = x] ELSE Seen(X)
  <2>1. /\ SeenIn(table', data', X) = [w \in UserPages |-> SeenIn(table', data', X)[w]]
        /\ Seen(X) = [w \in UserPages |-> Seen(X)[w]]
    BY DEF Seen, SeenIn
  <2>. QED  BY <1>2, <2>1
<1>. QED  BY <1>3

\* A directory whose pages stay where and what they are.
LEMMA SameSeen ==
  ASSUME NEW X,
         \A w \in UserPages : PageAt(table', X, w) = PageAt(table, X, w),
         \A w \in UserPages : PageAt(table, X, w) # Absent =>
                                data'[PageAt(table, X, w)] = data[PageAt(table, X, w)]
  PROVE  SeenIn(table', data', X) = Seen(X)
BY DEF Seen, SeenIn

-----------------------------------------------------------------------------
(* The steps. *)

LEMMA Copyless ==
  /\ op # "install" /\ copied = NoCopies => CopySet = {}
  /\ op' # "install" /\ copied' = NoCopies => CopySet' = {}
BY DEF CopySet, Copies, NoCopies

\* The first page of a loop is one of its pages.
LEMMA First ==
  ASSUME TypeOK, todo # {}
  PROVE  Min(todo) \in todo /\ Min(todo) \in UserPages
BY UserIsPage, MinIsLeast DEF TypeOK

\* The directory a call works on is one of the directories.
LEMMA CallDir ==
  ASSUME TypeOK, CallOK
  PROVE  /\ op \in {"load", "boot_stack", "stack", "copy", "install"} => dir \in Dirs
         /\ \A p \in Procs : live[p] => page_dir[p] \in Dirs
         /\ op \in {"load", "stack", "copy", "install", "grow"} => page_dir[cur] \in Dirs
BY DEF Dirs, NewDir, CallOK, TypeOK

LEMMA ElfLoad ==
  ASSUME VInv, elf_load, Backed(dir, Min(todo), 1)
  PROVE  /\ VInv'
         /\ \A X \in Dirs : SeenIn(table', data', X) =
              IF X = dir THEN [Seen(X) EXCEPT ![Min(todo)] = image[Min(todo)]] ELSE Seen(X)
<1>. DEFINE v == Min(todo)
<1>0. TypeOK /\ Identity /\ Parts /\ CallOK /\ Heap
  BY DEF VInv
<1>1. op = "load" /\ todo # {} /\ Free(used) # {} /\ UNCHANGED <<scratch, live, page_dir, brk, base>>
      /\ UNCHANGED <<op, cur, child, dir, copied, image, goal>>
  BY DEF elf_load, procVars
<1>2. paging_map(dir, v, Frame(used), Taken(used)) /\ todo' = todo \ {v}
      /\ data' = [data EXCEPT ![Frame(used)] = image[v]]
  BY DEF elf_load
<1>3. v \in todo /\ v \in UserPages
  BY <1>0, <1>1, First
<1>4. image \in Images /\ todo \subseteq DOMAIN image /\ Maps(dir) = (DOMAIN image) \ todo
  BY <1>0, <1>1 DEF CallOK
<1>5. dir \in Dirs /\ v \notin Maps(dir)
  BY <1>0, <1>1, <1>3, <1>4, CallDir
<1>6. CopySet = {} /\ CopySet' = {}
  BY <1>0, <1>1, Copyless DEF CallOK
<1>7. NewDir' = NewDir
  BY <1>1 DEF NewDir
<1>8. /\ Identity' /\ Parts' /\ Dirs' = Dirs /\ Frame(used) \in Frames
      /\ used' \subseteq Frames /\ table' \in [Frames -> [Entries -> Frames \cup {Absent}]]
      /\ \A X \in Dirs : MapsIn(table', X) = IF X = dir THEN Maps(X) \cup {v} ELSE Maps(X)
      /\ \A X \in Dirs, w \in UserPages :
           PageAt(table', X, w) = IF X = dir /\ w = v THEN Frame(used) ELSE PageAt(table, X, w)
  <2>. HIDE DEF v
  <2>1. Backed(dir, v, 1)
    BY DEF v
  <2>. QED  BY <1>0, <1>1, <1>2, <1>3, <1>5, <1>6, <1>7, <2>1, MapFresh
<1>. HIDE DEF v
<1>9. TypeOK'
  <2>1. image[v] \in Values
    BY <1>3, <1>4, VmAssumption
  <2>2. data' \in [Frames -> Values]
    BY <1>0, <1>2, <1>8, <2>1 DEF TypeOK
  <2>. QED  BY <1>0, <1>1, <1>2, <1>8, <2>2 DEF TypeOK
<1>10. CallOK'
  <2>1. Maps(dir)' = (DOMAIN image) \ todo'
    BY <1>1, <1>2, <1>3, <1>4, <1>5, <1>8 DEF Maps
  <2>. QED  BY <1>0, <1>1, <1>2, <1>4, <2>1 DEF CallOK
<1>11. Heap'
  <2>1. \A p \in Procs : live[p] => Maps(page_dir[p]) \subseteq Maps(page_dir[p])'
    BY <1>0, <1>1, <1>8, CallDir DEF Maps
  <2>. QED  BY <1>0, <1>1, <2>1 DEF Heap
<1>12. \A X \in Dirs : SeenIn(table', data', X) =
         IF X = dir THEN [Seen(X) EXCEPT ![v] = image[v]] ELSE Seen(X)
  <2>1. Frame(used) \in Frames /\ Frame(used) \notin Pgs
    BY <1>0, <1>1, FrameFree DEF Parts
  <2>2. data'[Frame(used)] = image[v] /\ \A g \in Frames \ {Frame(used)} : data'[g] = data[g]
    BY <1>0, <1>2, <2>1 DEF TypeOK
  <2>. QED  BY <1>0, <1>3, <1>8, <1>5, <2>1, <2>2, MapSeen
<1>. QED  BY <1>8, <1>9, <1>10, <1>11, <1>12 DEF VInv, v

\* After the end of a call no call is in progress.
LEMMA Returned ==
  ASSUME Return
  PROVE  /\ op' \in {"user", "load", "boot_stack", "stack", "copy", "install", "grow"}
         /\ cur' \in Procs /\ child' \in Procs /\ dir' \in Frames
         /\ todo' \subseteq UserPages /\ copied' \in [UserPages -> Frames \cup {Absent}]
         /\ image' \in Images \cup {NoImage} /\ goal' \in 0 .. USER_BRK_LIMIT
         /\ CallOK' /\ ~NewDir' /\ CopySet' = {} /\ op' = "user"
<1>1. 0 \in Procs /\ 0 \in Frames /\ 0 \in 0 .. USER_BRK_LIMIT
  BY VmAssumption DEF Procs, Frames
<1>2. copied' \in [UserPages -> Frames \cup {Absent}]
  BY DEF Return, NoCopies
<1>3. CallOK' /\ ~NewDir'
  BY DEF Return, CallOK, NewDir
<1>4. CopySet' = {}
  BY Copyless DEF Return
<1>. QED  BY <1>1, <1>2, <1>3, <1>4 DEF Return

LEMMA StackStep ==
  ASSUME VInv, op \in {"boot_stack", "stack"}, NEW v \in todo, MapStack(v), Backed(dir, v, 1)
  PROVE  /\ VInv'
         /\ \E x \in Values : \A X \in Dirs : SeenIn(table', data', X) =
              IF X = dir THEN [Seen(X) EXCEPT ![v] = x] ELSE Seen(X)
<1>0. TypeOK /\ Identity /\ Parts /\ CallOK /\ Heap
  BY DEF VInv
<1>1. UNCHANGED <<scratch, live, page_dir, brk, base>>
      /\ paging_map(dir, v, Frame(used), Taken(used))
  BY DEF MapStack, procVars
<1>2. \/ todo = {v} /\ Return
      \/ todo # {v} /\ todo' = todo \ {v} /\ UNCHANGED <<op, cur, child, dir, copied, image, goal>>
  BY DEF MapStack
<1>3. v \in UserPages /\ dir \in Dirs /\ v \notin Maps(dir)
  BY <1>0, CallDir DEF TypeOK, CallOK
<1>4. Free(used) # {}
  <2>1. Cardinality(Free(used)) >= 1 \/ Cardinality(Free(used)) >= 2
    BY DEF Backed
  <2>. QED  BY <2>1, Enough
<1>5. CopySet = {} /\ CopySet' = {}
  BY <1>0, <1>2, Copyless, Returned DEF CallOK
<1>6. NewDir = FALSE /\ NewDir' = FALSE
  BY <1>2, Returned DEF NewDir
<1>7. /\ Identity' /\ Parts' /\ Dirs' = Dirs /\ Frame(used) \in Frames
      /\ used' \subseteq Frames /\ table' \in [Frames -> [Entries -> Frames \cup {Absent}]]
      /\ \A X \in Dirs : MapsIn(table', X) = IF X = dir THEN Maps(X) \cup {v} ELSE Maps(X)
      /\ \A X \in Dirs, w \in UserPages :
           PageAt(table', X, w) = IF X = dir /\ w = v THEN Frame(used) ELSE PageAt(table, X, w)
  BY <1>0, <1>1, <1>3, <1>4, <1>5, <1>6, MapFresh
<1>8. TypeOK'
  <2>1. PICK x \in Values : data' = [data EXCEPT ![Frame(used)] = x]
    BY DEF MapStack
  <2>2. data' \in [Frames -> Values]
    BY <1>0, <1>7, <2>1 DEF TypeOK
  <2>3. CASE Return
    BY <1>0, <1>1, <1>7, <2>2, <2>3, Returned DEF TypeOK
  <2>4. CASE todo' = todo \ {v} /\ UNCHANGED <<op, cur, child, dir, copied, image, goal>>
    BY <1>0, <1>1, <1>7, <2>2, <2>4 DEF TypeOK
  <2>. QED  BY <1>2, <2>3, <2>4
<1>9. CallOK'
  <2>1. CASE Return
    BY <2>1, Returned
  <2>2. CASE todo # {v} /\ todo' = todo \ {v} /\ UNCHANGED <<op, cur, child, dir, copied, image, goal>>
    <3>1. Maps(dir)' \cap todo' = {}
      BY <1>0, <1>3, <1>7, <2>2 DEF Maps, CallOK
    <3>2. todo' # {} /\ todo' \subseteq StackPages
      BY <1>0, <2>2 DEF CallOK
    <3>. QED  BY <1>0, <1>1, <2>2, <3>1, <3>2 DEF CallOK
  <2>. QED  BY <1>2, <2>1, <2>2
<1>10. Heap'
  <2>1. \A p \in Procs : live[p] => Maps(page_dir[p]) \subseteq Maps(page_dir[p])'
    BY <1>0, <1>1, <1>7, CallDir DEF Maps
  <2>. QED  BY <1>0, <1>1, <2>1 DEF Heap
<1>11. PICK x \in Values : data' = [data EXCEPT ![Frame(used)] = x]
  BY DEF MapStack
<1>12. \A X \in Dirs : SeenIn(table', data', X) =
         IF X = dir THEN [Seen(X) EXCEPT ![v] = x] ELSE Seen(X)
  <2>1. Frame(used) \in Frames /\ Frame(used) \notin Pgs
    BY <1>0, <1>4, FrameFree DEF Parts
  <2>2. data'[Frame(used)] = x /\ \A g \in Frames \ {Frame(used)} : data'[g] = data[g]
    BY <1>0, <1>11, <2>1 DEF TypeOK
  <2>. QED  BY <1>0, <1>3, <1>7, <2>1, <2>2, MapSeen
<1>. QED  BY <1>7, <1>8, <1>9, <1>10, <1>12 DEF VInv

\* The user stack, at boot and in execve.
LEMMA Stacks ==
  ASSUME VInv, \/ map_user_stack /\ Backed(dir, Min(todo), 1)
               \/ exec_stack /\ Backed(dir, Max(todo), 1)
  PROVE  /\ VInv'
         /\ \E v \in todo, x \in Values : \A X \in Dirs : SeenIn(table', data', X) =
              IF X = dir THEN [Seen(X) EXCEPT ![v] = x] ELSE Seen(X)
<1>1. CASE map_user_stack /\ Backed(dir, Min(todo), 1)
  <2>1. todo # {} /\ op = "boot_stack" /\ MapStack(Min(todo))
    BY <1>1 DEF VInv, CallOK, map_user_stack
  <2>2. Min(todo) \in todo
    BY <2>1, First DEF VInv
  <2>. QED  BY <1>1, <2>1, <2>2, StackStep
<1>2. CASE exec_stack /\ Backed(dir, Max(todo), 1)
  <2>1. todo # {} /\ op = "stack" /\ MapStack(Max(todo)) /\ todo \subseteq UserPages
    BY <1>2 DEF VInv, CallOK, exec_stack, TypeOK
  <2>2. ENTRIES * ENTRIES \in Nat /\ todo \in SUBSET Nat /\ \A y \in todo : y <= ENTRIES * ENTRIES
    BY <2>1, VmAssumption DEF UserPages
  <2>3. Max(todo) \in todo
    BY <2>1, <2>2, MaxIsGreatest
  <2>. QED  BY <1>2, <2>1, <2>3, StackStep
<1>. QED  BY <1>1, <1>2

\* A page of the heap.
LEMMA SbrkPage ==
  ASSUME VInv, sbrk_page, Backed(page_dir[cur], Min(todo), 1)
  PROVE  /\ VInv'
         /\ \A X \in Dirs : SeenIn(table', data', X) =
              IF X = page_dir[cur] THEN [Seen(X) EXCEPT ![Min(todo)] = 0] ELSE Seen(X)
<1>. DEFINE v == Min(todo)
<1>0. TypeOK /\ Identity /\ Parts /\ CallOK /\ Heap
  BY DEF VInv
<1>1. op = "grow" /\ todo # {} /\ Free(used) # {} /\ UNCHANGED <<scratch, live, page_dir, brk, base>>
      /\ UNCHANGED <<op, cur, child, dir, copied, image, goal>>
  BY DEF sbrk_page, procVars
<1>2. paging_map(page_dir[cur], v, Frame(used), Taken(used)) /\ todo' = todo \ {v}
      /\ data' = [data EXCEPT ![Frame(used)] = 0]
  BY DEF sbrk_page
<1>3. v \in todo /\ v \in UserPages
  BY <1>0, <1>1, First
<1>4. PICK D : D = page_dir[cur]
  OBVIOUS
<1>5. D \in Dirs /\ v \notin Maps(D)
  BY <1>0, <1>1, <1>3, <1>4, CallDir DEF CallOK
<1>6. CopySet = {} /\ CopySet' = {}
  BY <1>0, <1>1, Copyless DEF CallOK
<1>7. NewDir' = NewDir
  BY <1>1 DEF NewDir
<1>8. /\ Identity' /\ Parts' /\ Dirs' = Dirs /\ Frame(used) \in Frames
      /\ used' \subseteq Frames /\ table' \in [Frames -> [Entries -> Frames \cup {Absent}]]
      /\ \A X \in Dirs : MapsIn(table', X) = IF X = D THEN Maps(X) \cup {v} ELSE Maps(X)
      /\ \A X \in Dirs, w \in UserPages :
           PageAt(table', X, w) = IF X = D /\ w = v THEN Frame(used) ELSE PageAt(table, X, w)
  <2>1. Backed(D, v, 1) /\ paging_map(D, v, Frame(used), Taken(used))
    BY <1>2, <1>4
  <2>. HIDE DEF v
  <2>. QED  BY <1>0, <1>1, <1>3, <1>5, <1>6, <1>7, <2>1, MapFresh
<1>. HIDE DEF v
<1>9. TypeOK'
  <2>1. data' \in [Frames -> Values]
    BY <1>0, <1>2, <1>8, VmAssumption DEF TypeOK
  <2>. QED  BY <1>0, <1>1, <1>2, <1>8, <2>1 DEF TypeOK
<1>10. CallOK'
  <2>1. Maps(page_dir[cur])' = Maps(page_dir[cur]) \cup {v}
    BY <1>1, <1>4, <1>5, <1>8 DEF Maps
  <2>2. todo' \cap (Maps(page_dir[cur])' \cup StackPages) = {}
    BY <1>0, <1>1, <1>2, <2>1 DEF CallOK
  <2>3. todo' \cup Maps(page_dir[cur])' = todo \cup Maps(page_dir[cur])
    BY <1>2, <1>3, <2>1
  <2>. QED  BY <1>0, <1>1, <2>2, <2>3 DEF CallOK
<1>11. Heap'
  <2>1. \A p \in Procs : live[p] => Maps(page_dir[p]) \subseteq Maps(page_dir[p])'
    BY <1>0, <1>1, <1>8, CallDir DEF Maps
  <2>. QED  BY <1>0, <1>1, <2>1 DEF Heap
<1>12. \A X \in Dirs : SeenIn(table', data', X) =
         IF X = D THEN [Seen(X) EXCEPT ![v] = 0] ELSE Seen(X)
  <2>1. Frame(used) \in Frames /\ Frame(used) \notin Pgs
    BY <1>0, <1>1, FrameFree DEF Parts
  <2>2. data'[Frame(used)] = 0 /\ \A g \in Frames \ {Frame(used)} : data'[g] = data[g]
    BY <1>0, <1>2, <2>1 DEF TypeOK
  <2>. QED  BY <1>0, <1>3, <1>8, <1>5, <2>1, <2>2, MapSeen
<1>. QED  BY <1>4, <1>8, <1>9, <1>10, <1>11, <1>12 DEF VInv, v

\* Steps that leave the frames alone.
LEMMA SameFrames ==
  ASSUME Parts, Identity, UNCHANGED <<used, table, scratch>>, Dirs' = Dirs,
         CopyFrames' = CopyFrames,
         \A v, w \in CopySet' : copied'[v] = copied'[w] => v = w,
         \A p, q \in Procs : live'[p] /\ live'[q] /\ page_dir'[p] = page_dir'[q] => p = q,
         NewDir' => dir' \notin LiveDirs'
  PROVE  Parts' /\ Identity'
<1>1. Tabs' = Tabs /\ Pgs' = Pgs /\ Scratch' = Scratch
  BY DEF Tabs, Pgs, Scratch
<1>. QED  BY <1>1 DEF Parts, Identity

\* ... and the processes.
LEMMA SameParts ==
  ASSUME Parts, Identity, UNCHANGED <<used, table, scratch, live, page_dir>>,
         NewDir' = NewDir, NewDir => dir' = dir, CopySet = {}, CopySet' = {}
  PROVE  Parts' /\ Identity' /\ Dirs' = Dirs
<1>1. Dirs' = Dirs /\ LiveDirs' = LiveDirs
  BY DEF Dirs, LiveDirs
<1>2. CopyFrames' = CopyFrames
  BY DEF CopyFrames
<1>. QED  BY <1>1, <1>2, SameFrames DEF Parts

LEMMA ImageEndType ==
  ASSUME NEW img \in Images
  PROVE  ImageEnd(img) \in 0 .. USER_BRK_LIMIT
<1>1. DOMAIN img \subseteq UserPages /\ DOMAIN img # {}
  BY VmAssumption
<1>2. /\ ENTRIES * ENTRIES \in Nat /\ DOMAIN img \in SUBSET Nat
      /\ \A y \in DOMAIN img : y <= ENTRIES * ENTRIES
  BY <1>1, VmAssumption DEF UserPages
<1>3. Max(DOMAIN img) \in DOMAIN img /\ Max(DOMAIN img) \in Nat
  BY <1>1, <1>2, MaxIsGreatest
<1>4. PAGE_SIZE * (Max(DOMAIN img) + 1) <= USER_BRK_LIMIT
  BY <1>3, VmAssumption
<1>5. PAGE_SIZE * (Max(DOMAIN img) + 1) \in Nat /\ USER_BRK_LIMIT \in Nat
  BY <1>3, VmAssumption
<1>. QED  BY <1>4, <1>5 DEF ImageEnd

LEMMA LoadProgram ==
  ASSUME VInv, load_program
  PROVE  VInv'
<1>0. TypeOK /\ Identity /\ Parts /\ CallOK /\ Heap
  BY DEF VInv
<1>1. /\ op = "load" /\ dir = kernel_dir /\ todo = {} /\ op' = "boot_stack"
      /\ UNCHANGED <<used, table, data, scratch, live, page_dir, cur, child, dir, copied, image, goal>>
      /\ brk' = [brk EXCEPT ![cur] = ImageEnd(image)]
      /\ base' = [base EXCEPT ![cur] = ImageEnd(image)] /\ todo' = StackPages
  BY DEF load_program, Booting, memVars, SetBrk
<1>2. image \in Images /\ Maps(dir) = DOMAIN image
  BY <1>0, <1>1 DEF CallOK
<1>3. CopySet = {} /\ CopySet' = {} /\ NewDir' = NewDir
  BY <1>0, <1>1, Copyless DEF CallOK, NewDir
<1>4. Parts' /\ Identity'
  BY <1>0, <1>1, <1>3, SameParts
<1>5. TypeOK'
  <2>1. brk' \in [Procs -> 0 .. USER_BRK_LIMIT] /\ base' \in [Procs -> 0 .. USER_BRK_LIMIT]
    BY <1>0, <1>1, <1>2, ImageEndType DEF TypeOK
  <2>. QED  BY <1>0, <1>1, <2>1, VmAssumption DEF TypeOK
<1>6. CallOK'
  <2>1. Maps(dir)' = DOMAIN image
    BY <1>1, <1>2 DEF Maps
  <2>2. StackPages # {} /\ StackPages \cap DOMAIN image = {}
    BY <1>2, VmAssumption
  <2>. QED  BY <1>0, <1>1, <2>1, <2>2 DEF CallOK
<1>7. Heap'
  <2>1. ImageEnd(image) \in Int
    BY <1>2, ImageEndType
  <2>2. \A p \in Procs : Maps(page_dir[p])' = Maps(page_dir[p])
    BY <1>1 DEF Maps
  <2>3. \A p \in Procs : p # cur => brk'[p] = brk[p] /\ base'[p] = base[p]
    BY <1>0, <1>1 DEF TypeOK
  <2>4. brk'[cur] = ImageEnd(image) /\ base'[cur] = ImageEnd(image)
    BY <1>0, <1>1 DEF TypeOK
  <2>5. ASSUME NEW p \in Procs, NEW v \in UserPages, live'[p], base'[p] <= v * PAGE_SIZE,
               v * PAGE_SIZE < brk'[p]
        PROVE  v \in Maps(page_dir[p])'
    <3>1. CASE p = cur
      <4>1. v * PAGE_SIZE \in Int
        BY UserIsPage, Constants
      <4>. QED  BY <2>1, <2>4, <2>5, <3>1, <4>1
    <3>2. CASE p # cur
      BY <1>0, <1>1, <2>2, <2>3, <2>5, <3>2 DEF Heap
    <3>. QED  BY <3>1, <3>2
  <2>. QED  BY <2>5 DEF Heap
<1>. QED  BY <1>4, <1>5, <1>6, <1>7 DEF VInv

\* The identity map is mapped in every directory, so that sbrk never maps it.
LEMMA LowMapped ==
  ASSUME Identity, NEW D \in Dirs, NEW v \in Pages, ~Mapped(D, v)
  PROVE  v \in UserPages
<1>1. SUFFICES ASSUME v \notin UserPages  PROVE Mapped(D, v)
  BY <1>1
<1>2. DirOf(v) = 0 /\ EntOf(v) = v /\ v \in Entries
  BY <1>1, LowPage
<1>3. table[D][0] = first_table /\ table[first_table][v] = v
  BY <1>2 DEF Identity
<1>4. v # Absent /\ first_table # Absent
  BY <1>2, Constants
<1>. QED  BY <1>2, <1>3, <1>4 DEF Mapped, HasTable, DirOf, EntOf

LEMMA Addresses == USER_LIMIT \in Nat /\ AddressTop \in Nat \ {0}
<1>1. USER_LIMIT \in Nat
  BY VmAssumption DEF USER_LIMIT
<1>. QED  BY <1>1, VmAssumption

LEMMA SbrkGrow ==
  ASSUME VInv, NEW p \in Procs, NEW inc \in Increments, sbrk_grow(p, inc)
  PROVE  VInv'
<1>0. TypeOK /\ Identity /\ Parts /\ CallOK /\ Heap
  BY DEF VInv
<1>. DEFINE want == Want(p, inc)
<1>1. /\ op = "user" /\ live[p] /\ want >= brk[p] /\ want <= USER_BRK_LIMIT
      /\ op' = "grow" /\ cur' = p /\ goal' = want /\ todo' = ToMap(p, brk[p], want)
      /\ UNCHANGED <<used, table, data, scratch, live, page_dir, brk, base, child, dir, copied, image>>
  BY DEF sbrk_grow, InLimit, memVars, procVars
<1>2. brk[p] \in Nat /\ want \in Nat
  <2>1. brk[p] + inc \in Int /\ AddressTop \in Nat \ {0} /\ brk[p] \in Nat
    BY <1>0, Addresses, VmAssumption DEF TypeOK
  <2>. QED  BY <2>1 DEF Want
<1>. HIDE DEF want
<1>3. page_dir[p] \in Dirs
  BY <1>0, <1>1, CallDir
<1>4. ASSUME NEW v \in todo'
      PROVE  v \in UserPages /\ v \notin StackPages /\ v \notin Maps(page_dir[p])
  <2>1. v \in Pages /\ v * PAGE_SIZE < want /\ ~Mapped(page_dir[p], v)
    BY <1>1 DEF ToMap
  <2>2. v \in UserPages
    BY <1>0, <1>3, <2>1, LowMapped
  <2>3. v \notin StackPages
    <3>1. v * PAGE_SIZE = PAGE_SIZE * v /\ PAGE_SIZE * v \in Int
      BY <2>2, UserIsPage, Constants
    <3>. QED  BY <1>1, <1>2, <2>1, <3>1, VmAssumption
  <2>. QED  BY <2>1, <2>2, <2>3, MappedIs DEF Maps, MapsIn
<1>5. ASSUME NEW v \in UserPages, brk[p] <= v * PAGE_SIZE, v * PAGE_SIZE < want
      PROVE  v \in todo' \cup Maps(page_dir[p])
  <2>1. v \in Pages /\ v \in Nat /\ PAGE_SIZE \in Nat \ {0}
    BY UserIsPage, Constants
  <2>2. brk[p] < PAGE_SIZE * (v + 1)
    BY <1>2, <1>5, <2>1
  <2>3. brk[p] \div PAGE_SIZE < v + 1
    <3>1. v + 1 \in Nat /\ brk[p] \in Nat
      BY <1>2, <2>1
    <3>. QED  BY <2>1, <2>2, <3>1, DivLess
  <2>4. v >= brk[p] \div PAGE_SIZE
    BY <1>2, <2>1, <2>3
  <2>. QED  BY <1>1, <1>5, <2>1, <2>4, MappedIs DEF ToMap, Maps, MapsIn
<1>6. CopySet = {} /\ CopySet' = {} /\ NewDir = FALSE /\ NewDir' = FALSE
  BY <1>0, <1>1, Copyless DEF CallOK, NewDir
<1>7. Parts' /\ Identity'
  BY <1>0, <1>1, <1>6, SameParts
<1>8. TypeOK'
  BY <1>0, <1>1, <1>2, <1>4 DEF TypeOK
<1>9. CallOK'
  <2>1. Maps(page_dir[cur])' = Maps(page_dir[p])
    BY <1>1 DEF Maps
  <2>2. todo' \cap (Maps(page_dir[p]) \cup StackPages) = {}
    BY <1>4
  <2>3. brk'[cur'] = brk[p] /\ live'[cur'] /\ copied' = NoCopies
    BY <1>0, <1>1 DEF CallOK
  <2>. QED  BY <1>1, <1>5, <2>1, <2>2, <2>3 DEF CallOK
<1>10. Heap'
  BY <1>0, <1>1 DEF Heap, Maps
<1>. QED  BY <1>7, <1>8, <1>9, <1>10 DEF VInv

\* sbrk ends, having moved the break or not; a store of the program.
LEMMA SbrkEnds ==
  ASSUME VInv, sbrk_fails \/ sbrk_grown
  PROVE  VInv'
<1>0. TypeOK /\ Identity /\ Parts /\ CallOK /\ Heap
  BY DEF VInv
<1>1. /\ op = "grow" /\ Return /\ UNCHANGED <<used, table, data, scratch, live, page_dir, base>>
      /\ \/ brk' = brk
         \/ todo = {} /\ brk' = [brk EXCEPT ![cur] = goal]
  BY DEF sbrk_fails, sbrk_grown, memVars, procVars
<1>2. CopySet = {} /\ CopySet' = {} /\ NewDir = FALSE /\ NewDir' = FALSE
  BY <1>0, <1>1, Copyless, Returned DEF CallOK, NewDir
<1>3. Parts' /\ Identity'
  BY <1>0, <1>1, <1>2, SameParts
<1>4. TypeOK'
  <2>1. brk' \in [Procs -> 0 .. USER_BRK_LIMIT]
    BY <1>0, <1>1 DEF TypeOK
  <2>. QED  BY <1>0, <1>1, <2>1, Returned DEF TypeOK
<1>5. CallOK'
  BY <1>1, Returned
<1>6. Heap'
  <2>1. ASSUME NEW p \in Procs, NEW v \in UserPages, live[p], base[p] <= v * PAGE_SIZE,
               v * PAGE_SIZE < brk'[p]
        PROVE  v \in Maps(page_dir[p])
    <3>1. CASE v * PAGE_SIZE < brk[p]
      BY <1>0, <2>1, <3>1 DEF Heap
    <3>2. CASE ~(v * PAGE_SIZE < brk[p])
      <4>1. todo = {} /\ brk' = [brk EXCEPT ![cur] = goal]
        BY <1>1, <2>1, <3>2
      <4>2. p = cur /\ v * PAGE_SIZE < goal
        BY <1>0, <2>1, <3>2, <4>1 DEF TypeOK
      <4>3. brk[p] <= v * PAGE_SIZE
        <5>1. v * PAGE_SIZE \in Int /\ brk[p] \in Int
          BY <1>0, UserIsPage, Constants DEF TypeOK
        <5>. QED  BY <3>2, <5>1
      <4>. QED  BY <1>0, <1>1, <4>1, <4>2, <4>3 DEF CallOK
    <3>. QED  BY <3>1, <3>2
  <2>2. \A p \in Procs : Maps(page_dir[p])' = Maps(page_dir[p])
    BY <1>1 DEF Maps
  <2>. QED  BY <1>1, <2>1, <2>2 DEF Heap
<1>. QED  BY <1>3, <1>4, <1>5, <1>6 DEF VInv

LEMMA UserWrite ==
  ASSUME VInv, NEW p \in Procs, NEW v \in UserPages, NEW x \in Values, user_write(p, v, x)
  PROVE  VInv'
<1>1. UNCHANGED <<used, table, scratch, live, page_dir, brk, base, op, cur, child, dir, todo, copied,
                  image, goal>>
  BY DEF user_write, procVars, callVars
<1>2. TypeOK'
  BY <1>1 DEF VInv, TypeOK, user_write
<1>3. UNCHANGED <<Dirs, LiveDirs, NewDir, CopySet, CopyFrames>>
  BY <1>1 DEF Dirs, LiveDirs, NewDir, CopySet, Copies, CopyFrames
<1>4. Identity' /\ Parts'
  BY <1>1, <1>3, SameFrames DEF VInv, Parts
<1>5. CallOK'
  BY <1>1 DEF VInv, CallOK, Copies, Maps
<1>6. Heap'
  BY <1>1 DEF VInv, Heap, Maps
<1>. QED  BY <1>2, <1>4, <1>5, <1>6 DEF VInv

\* The trees gain a directory.
LEMMA NewTrees ==
  ASSUME Forest(table, Dirs), NEW D \in Frames, D \notin Dirs, D \notin Tabs, D \notin Pgs,
         Dirs' = Dirs \cup {D},
         table' \in [Frames -> [Entries -> Frames \cup {Absent}]],
         \A X \in Frames \ {D} : table'[X] = table[X],
         \A x \in User : table'[D][x] = Absent
  PROVE  /\ Forest(table', Dirs') /\ Tables(table', Dirs') = Tabs /\ PagesOf(table', Dirs') = Pgs
         /\ \A X \in Dirs, w \in UserPages : PageAt(table', X, w) = PageAt(table, X, w)
         /\ \A w \in UserPages : PageAt(table', D, w) = Absent
<1>1. /\ Forest(table', Dirs')
      /\ Tables(table', Dirs') = Tables(table, Dirs) /\ PagesOf(table', Dirs') = PagesOf(table, Dirs)
      /\ \A X \in Dirs, w \in UserPages : PageAt(table', X, w) = PageAt(table, X, w)
      /\ \A w \in UserPages : PageAt(table', D, w) = Absent
  <2>1. AddsTree(table, Dirs, D, table', Dirs')
    BY DEF AddsTree, Tabs, Pgs
  <2>. QED  BY <2>1, NewTree
<1>. QED  BY <1>1 DEF Tabs, Pgs

\* paging_new_directory: a tree with nothing in its user part, and the scratch
\* table if there is none yet.
LEMMA NewDirectory ==
  ASSUME TypeOK, Identity, Parts, op = "user", CopySet = {}, CopySet' = {},
         op' \in {"load", "copy"}, UNCHANGED <<live, page_dir>>, paging_new_directory,
         Cardinality(Free(used)) >= (IF scratch = Absent THEN 2 ELSE 1)
  PROVE  /\ Identity' /\ Parts' /\ dir' \in Frames /\ dir' # kernel_dir /\ dir' \notin Dirs
         /\ used' \subseteq Frames /\ table' \in [Frames -> [Entries -> Frames \cup {Absent}]]
         /\ scratch' \in Frames \cup {Absent}
         /\ MapsIn(table', dir') = {}
         /\ \A X \in Dirs, w \in UserPages : PageAt(table', X, w) = PageAt(table, X, w)
         /\ \A X \in Dirs : MapsIn(table', X) = Maps(X)
<1>. DEFINE D == Frame(used)
            u == Taken(used)
            g == Frame(u)
<1>0. /\ Absent \notin Frames /\ Reserved \subseteq Frames /\ 0 \in Entries /\ 0 \notin User
      /\ User \subseteq Entries /\ first_table \in Frames /\ first_table \in Reserved
      /\ kernel_dir \in Reserved
      /\ Zeroed \in [Entries -> Frames \cup {Absent}] /\ \A e \in Entries : Zeroed[e] = Absent
  BY Constants DEF Reserved, User
<1>1. used \subseteq Frames /\ table \in [Frames -> [Entries -> Frames \cup {Absent}]]
      /\ scratch \in Frames \cup {Absent}
  BY DEF TypeOK
<1>2. D \in Frames /\ D \notin used /\ u = used \cup {D}
  <2>1. Free(used) # {}
    BY Enough
  <2>. QED  BY <2>1, FrameFree DEF Taken
<1>3. scratch = Absent => g \in Frames /\ g \notin u
  <2>1. scratch = Absent => Free(u) # {}
    BY Enough
  <2>. QED  BY <2>1, FrameFree
<1>4. /\ table' = [table EXCEPT ![D] = [Zeroed EXCEPT ![0] = first_table]] /\ dir' = D
      /\ scratch' = IF scratch = Absent THEN g ELSE scratch
      /\ used' = IF scratch = Absent THEN u \cup {g} ELSE u
  BY DEF paging_new_directory, Taken
<1>. HIDE DEF D, u, g
<1>5. /\ used = Reserved \cup Dirs \cup Tabs \cup Pgs \cup Scratch /\ CopyFrames = {} /\ CopyFrames' = {}
      /\ Scratch \cap (Reserved \cup Dirs \cup Tabs \cup Pgs) = {} /\ Forest(table, Dirs)
      /\ Tabs \cap Reserved = {} /\ Pgs \cap Reserved = {} /\ Dirs \cap Reserved = {kernel_dir}
  BY DEF Parts, CopyFrames
<1>6. D \notin Dirs /\ D \notin Tabs /\ D \notin Pgs /\ D \notin Reserved /\ D \notin Scratch
  BY <1>2, <1>5
<1>7. /\ table' \in [Frames -> [Entries -> Frames \cup {Absent}]]
      /\ \A X \in Frames \ {D} : table'[X] = table[X]
      /\ \A x \in User : table'[D][x] = Absent
      /\ table'[D][0] = first_table
  BY <1>0, <1>1, <1>2, <1>4
<1>9. dir' = D /\ D # kernel_dir /\ NewDir' /\ ~NewDir
  BY <1>0, <1>4, <1>6 DEF NewDir
<1>10. Dirs' = Dirs \cup {D} /\ LiveDirs' = LiveDirs /\ LiveDirs \subseteq Dirs
  BY <1>9 DEF Dirs, LiveDirs
<1>8. /\ Forest(table', Dirs') /\ Tables(table', Dirs') = Tabs /\ PagesOf(table', Dirs') = Pgs
      /\ \A X \in Dirs, w \in UserPages : PageAt(table', X, w) = PageAt(table, X, w)
      /\ \A w \in UserPages : PageAt(table', D, w) = Absent
  BY <1>2, <1>5, <1>6, <1>7, <1>10, NewTrees
<1>11. Tabs' = Tabs /\ Pgs' = Pgs /\ Forest(table', Dirs')
  BY <1>8 DEF Tabs, Pgs
<1>12. Identity'
  <2>1. \A X \in Dirs : X # D /\ X \in Frames
    BY <1>5, <1>6 DEF Forest
  <2>. QED  BY <1>0, <1>6, <1>7, <1>10, <2>1 DEF Identity
<1>13. /\ used' = Reserved \cup Dirs' \cup Tabs' \cup Pgs' \cup Scratch'
       /\ Scratch' \cap (Reserved \cup Dirs' \cup Tabs' \cup Pgs') = {}
       /\ used' \subseteq Frames /\ scratch' \in Frames \cup {Absent}
  <2>1. CASE scratch = Absent
    <3>1. Scratch = {} /\ Scratch' = {g} /\ used' = u \cup {g} /\ g \in Frames /\ g \notin u
      BY <1>0, <1>3, <1>4, <2>1 DEF Scratch
    <3>2. scratch' = g
      BY <1>4, <2>1
    <3>. QED  BY <1>1, <1>2, <1>5, <1>10, <1>11, <3>1, <3>2
  <2>2. CASE scratch # Absent
    <3>1. Scratch' = Scratch /\ used' = u /\ scratch' = scratch
      BY <1>4, <2>2 DEF Scratch
    <3>. QED  BY <1>1, <1>2, <1>5, <1>6, <1>10, <1>11, <3>1
  <2>. QED  BY <2>1, <2>2
<1>14. Parts'
  <2>1. Dirs' \cap Reserved = {kernel_dir} /\ Tabs' \cap Reserved = {} /\ Pgs' \cap Reserved = {}
    BY <1>5, <1>6, <1>10, <1>11
  <2>2. \A p, q \in Procs : live'[p] /\ live'[q] /\ page_dir'[p] = page_dir'[q] => p = q
    BY DEF Parts
  <2>3. NewDir' => dir' \notin LiveDirs'
    BY <1>6, <1>9, <1>10
  <2>. QED  BY <1>5, <1>11, <1>13, <2>1, <2>2, <2>3 DEF Parts
<1>15. MapsIn(table', D) = {} /\ \A X \in Dirs : MapsIn(table', X) = Maps(X)
  BY <1>8 DEF Maps, MapsIn
<1>. QED  BY <1>2, <1>6, <1>7, <1>8, <1>9, <1>12, <1>13, <1>14, <1>15

\* The start of execve.
LEMMA Execve ==
  ASSUME VInv, NEW p \in Procs, NEW img \in Images, process_execve(p, img),
         Cardinality(Free(used)) >= (IF scratch = Absent THEN 2 ELSE 1)
  PROVE  VInv' /\ \A X \in Dirs : SeenIn(table', data', X) = Seen(X)
<1>0. TypeOK /\ Identity /\ Parts /\ CallOK /\ Heap
  BY DEF VInv
<1>1. /\ op = "user" /\ live[p] /\ paging_new_directory /\ op' = "load" /\ cur' = p
      /\ image' = img /\ todo' = DOMAIN img
      /\ UNCHANGED <<data, live, page_dir, brk, base, child, copied, goal>>
  BY DEF process_execve, procVars
<1>2. CopySet = {} /\ CopySet' = {}
  BY <1>0, <1>1, Copyless DEF CallOK
<1>3. /\ Identity' /\ Parts' /\ dir' \in Frames /\ dir' # kernel_dir /\ dir' \notin Dirs
      /\ used' \subseteq Frames /\ table' \in [Frames -> [Entries -> Frames \cup {Absent}]]
      /\ scratch' \in Frames \cup {Absent} /\ MapsIn(table', dir') = {}
      /\ \A X \in Dirs : MapsIn(table', X) = Maps(X)
      /\ \A X \in Dirs, w \in UserPages : PageAt(table', X, w) = PageAt(table, X, w)
  BY <1>0, <1>1, <1>2, NewDirectory
<1>4. TypeOK'
  <2>1. DOMAIN img \subseteq UserPages
    BY VmAssumption
  <2>. QED  BY <1>0, <1>1, <1>3, <2>1 DEF TypeOK
<1>5. CallOK'
  BY <1>0, <1>1, <1>3 DEF CallOK, Maps
<1>6. Heap'
  BY <1>0, <1>1, <1>3, CallDir DEF Heap, Maps
<1>7. \A X \in Dirs : SeenIn(table', data', X) = Seen(X)
  BY <1>1, <1>3, SameSeen
<1>. QED  BY <1>3, <1>4, <1>5, <1>6, <1>7 DEF VInv

\* The start of fork.
LEMMA Fork ==
  ASSUME VInv, NEW p \in Procs, process_fork(p),
         Cardinality(Free(used)) >= (IF scratch = Absent THEN 2 ELSE 1)
  PROVE  VInv' /\ \A X \in Dirs : SeenIn(table', data', X) = Seen(X)
<1>0. TypeOK /\ Identity /\ Parts /\ CallOK /\ Heap
  BY DEF VInv
<1>1. /\ op = "user" /\ live[p] /\ paging_new_directory /\ op' = "copy" /\ cur' = p
      /\ FreeSlots # {} /\ child' = Min(FreeSlots) /\ todo' = MappedUser(page_dir[p])
      /\ UNCHANGED <<data, live, page_dir, brk, base, copied, image, goal>>
  BY DEF process_fork, procVars
<1>2. copied' = NoCopies /\ Copies' = {} /\ CopySet = {} /\ CopySet' = {}
  BY <1>0, <1>1, Copyless DEF CallOK, Copies, NoCopies
<1>3. /\ Identity' /\ Parts' /\ dir' \in Frames /\ dir' # kernel_dir /\ dir' \notin Dirs
      /\ used' \subseteq Frames /\ table' \in [Frames -> [Entries -> Frames \cup {Absent}]]
      /\ scratch' \in Frames \cup {Absent} /\ MapsIn(table', dir') = {}
      /\ \A X \in Dirs : MapsIn(table', X) = Maps(X)
      /\ \A X \in Dirs, w \in UserPages : PageAt(table', X, w) = PageAt(table, X, w)
  BY <1>0, <1>1, <1>2, NewDirectory
<1>4. child' \in Procs /\ child' # 0 /\ ~live[child']
  <2>1. FreeSlots \in SUBSET Nat
    BY DEF FreeSlots, Procs
  <2>2. child' \in FreeSlots
    BY <1>1, <2>1, MinIsLeast
  <2>. QED  BY <2>2 DEF FreeSlots
<1>5. todo' = Maps(page_dir[p]) /\ todo' \subseteq UserPages /\ page_dir[p] \in Dirs
  BY <1>0, <1>1, MappedIs, CallDir DEF MappedUser
<1>6. TypeOK'
  BY <1>0, <1>1, <1>3, <1>4, <1>5 DEF TypeOK
<1>7. CallOK'
  <2>1. Maps(page_dir[cur])' = todo' /\ Maps(dir)' = {}
    BY <1>1, <1>3, <1>5 DEF Maps
  <2>. QED  BY <1>1, <1>2, <1>3, <1>4, <2>1 DEF CallOK
<1>8. Heap'
  BY <1>0, <1>1, <1>3, CallDir DEF Heap, Maps
<1>9. \A X \in Dirs : SeenIn(table', data', X) = Seen(X)
  BY <1>1, <1>3, SameSeen
<1>. QED  BY <1>3, <1>6, <1>7, <1>8, <1>9 DEF VInv

\* A page is copied.
LEMMA ForkCopy ==
  ASSUME VInv, fork_copy
  PROVE  /\ VInv' /\ \A X \in Dirs : SeenIn(table', data', X) = Seen(X)
         /\ data'[copied'[Min(todo)]] = Seen(page_dir[cur])[Min(todo)]
         /\ Copies' = Copies \cup {Min(todo)}
         /\ \A w \in Copies : copied'[w] = copied[w] /\ data'[copied[w]] = data[copied[w]]
<1>. DEFINE v == Min(todo)
            f == Frame(used)
<1>0. TypeOK /\ Identity /\ Parts /\ CallOK /\ Heap
  BY DEF VInv
<1>1. /\ op = "copy" /\ todo # {} /\ Free(used) # {} /\ copied' = [copied EXCEPT ![v] = f]
      /\ data' = [data EXCEPT ![f] = data[Phys(page_dir[cur], v)]] /\ todo' = todo \ {v}
      /\ used' = used \cup {f}
      /\ UNCHANGED <<table, scratch, live, page_dir, brk, base, op, cur, child, dir, image, goal>>
  BY DEF fork_copy, CopyTo, procVars, Taken
<1>2. v \in todo /\ v \in UserPages /\ f \in Frames /\ f \notin used
  BY <1>0, <1>1, First, FrameFree
<1>3. page_dir[cur] \in Dirs /\ v \in Maps(page_dir[cur])
  BY <1>0, <1>1, <1>2, CallDir DEF CallOK
<1>4. Phys(page_dir[cur], v) \in Frames
  <2>1. /\ DirOf(v) \in User /\ EntOf(v) \in Entries /\ User \subseteq Entries /\ Absent \notin Frames
        /\ table \in [Frames -> [Entries -> Frames \cup {Absent}]] /\ page_dir[cur] \in Frames
    BY <1>0, <1>2, PageEntry, Constants DEF TypeOK
  <2>2. PageAt(table, page_dir[cur], v) # Absent
    BY <1>3 DEF Maps, MapsIn
  <2>3. PageAt(table, page_dir[cur], v) \in Frames
    BY <2>1, <2>2 DEF PageAt
  <2>. QED  BY <2>2, <2>3, MappedIs
<1>. HIDE DEF v, f
<1>5. TypeOK'
  <2>1. data' \in [Frames -> Values]
    BY <1>0, <1>1, <1>2, <1>4 DEF TypeOK
  <2>2. copied' \in [UserPages -> Frames \cup {Absent}] /\ used' \subseteq Frames
    BY <1>0, <1>1, <1>2 DEF TypeOK
  <2>. QED  BY <1>0, <1>1, <2>1, <2>2 DEF TypeOK
<1>6. Copies' = Copies \cup {v} /\ CopySet = Copies /\ CopySet' = Copies' /\ v \notin Copies
      /\ copied'[v] = f /\ \A w \in Copies : copied'[w] = copied[w]
  BY <1>0, <1>1, <1>2, Constants DEF TypeOK, Copies, CopySet, CallOK
<1>7. UNCHANGED <<Dirs, LiveDirs, NewDir, Tabs, Pgs, Scratch>>
  BY <1>1 DEF Dirs, LiveDirs, NewDir, Tabs, Pgs, Scratch
<1>8. CopyFrames' = CopyFrames \cup {f}
  BY <1>6 DEF CopyFrames
<1>9. Parts'
  <2>1. /\ used = Reserved \cup Dirs \cup Tabs \cup Pgs \cup CopyFrames \cup Scratch
        /\ Scratch \cap (Reserved \cup Dirs \cup Tabs \cup Pgs \cup CopyFrames) = {}
        /\ CopyFrames \cap (Reserved \cup Dirs \cup Tabs \cup Pgs) = {} /\ CopyFrames \subseteq Frames
    BY <1>0 DEF Parts
  <2>2. /\ used' = Reserved \cup Dirs' \cup Tabs' \cup Pgs' \cup CopyFrames' \cup Scratch'
        /\ Scratch' \cap (Reserved \cup Dirs' \cup Tabs' \cup Pgs' \cup CopyFrames') = {}
        /\ CopyFrames' \cap (Reserved \cup Dirs' \cup Tabs' \cup Pgs') = {} /\ CopyFrames' \subseteq Frames
    BY <1>1, <1>2, <1>7, <1>8, <2>1
  <2>3. \A w, x \in CopySet' : copied'[w] = copied'[x] => w = x
    <3>1. \A w \in Copies : copied[w] # f
      BY <1>2, <1>6, <2>1 DEF CopyFrames
    <3>2. \A w, x \in Copies : copied[w] = copied[x] => w = x
      BY <1>0, <1>6 DEF Parts
    <3>. QED  BY <1>6, <3>1, <3>2
  <2>. QED  BY <1>0, <1>1, <1>7, <2>2, <2>3 DEF Parts
<1>10. Identity'
  BY <1>0, <1>1, <1>7 DEF Identity
<1>11. CallOK'
  <2>1. Maps(page_dir[cur])' = todo' \cup Copies' /\ todo' \cap Copies' = {} /\ Maps(dir)' = {}
    BY <1>0, <1>1, <1>2, <1>6 DEF CallOK, Maps
  <2>. QED  BY <1>0, <1>1, <2>1 DEF CallOK
<1>12. Heap'
  BY <1>0, <1>1 DEF Heap, Maps
<1>13. \A g \in used : data'[g] = data[g]
  BY <1>0, <1>1, <1>2 DEF TypeOK
<1>14. \A X \in Dirs : SeenIn(table', data', X) = Seen(X)
  <2>1. Pgs \subseteq used
    BY <1>0 DEF Parts
  <2>2. \A X \in Dirs, w \in UserPages : PageAt(table, X, w) # Absent =>
          data'[PageAt(table, X, w)] = data[PageAt(table, X, w)]
    BY <1>0, <1>13, <2>1, PageIn
  <2>. QED  BY <1>1, <2>2, SameSeen
<1>15. data'[f] = Seen(page_dir[cur])[v]
  <2>1. PageAt(table, page_dir[cur], v) # Absent
    BY <1>3 DEF Maps, MapsIn
  <2>2. Phys(page_dir[cur], v) = PageAt(table, page_dir[cur], v)
    BY <2>1, MappedIs
  <2>3. data'[f] = data[Phys(page_dir[cur], v)]
    BY <1>0, <1>1, <1>2 DEF TypeOK
  <2>. QED  BY <1>2, <2>1, <2>2, <2>3 DEF Seen, SeenIn
<1>16. \A w \in Copies : copied[w] \in used
  BY <1>0, <1>6 DEF Parts, CopyFrames
<1>. QED  BY <1>5, <1>6, <1>9, <1>10, <1>11, <1>12, <1>13, <1>14, <1>15, <1>16 DEF VInv, v

\* All pages are copied.
LEMMA ForkCopied ==
  ASSUME VInv, fork_copied
  PROVE  VInv'
<1>0. TypeOK /\ Identity /\ Parts /\ CallOK /\ Heap
  BY DEF VInv
<1>1. /\ op = "copy" /\ todo = {} /\ op' = "install" /\ todo' = Copies
      /\ UNCHANGED <<used, table, data, scratch, live, page_dir, brk, base, cur, child, dir, copied,
                     image, goal>>
  BY DEF fork_copied, memVars, procVars
<1>2. Copies \subseteq UserPages /\ Copies' = Copies /\ CopySet' = CopySet
  BY <1>1 DEF Copies, CopySet
<1>3. UNCHANGED <<Dirs, LiveDirs, NewDir, CopyFrames>>
  BY <1>1, <1>2 DEF Dirs, LiveDirs, NewDir, CopyFrames
<1>4. Identity' /\ Parts'
  BY <1>0, <1>1, <1>2, <1>3, SameFrames DEF Parts
<1>5. TypeOK'
  BY <1>0, <1>1, <1>2 DEF TypeOK
<1>6. CallOK'
  <2>1. Maps(page_dir[cur])' = Copies' /\ Maps(dir)' = {}
    BY <1>0, <1>1, <1>2 DEF CallOK, Maps
  <2>. QED  BY <1>0, <1>1, <1>2, <2>1 DEF CallOK
<1>7. Heap'
  BY <1>0, <1>1 DEF Heap, Maps
<1>. QED  BY <1>4, <1>5, <1>6, <1>7 DEF VInv

\* A copy is installed: its frame becomes a page of the new directory.
LEMMA ForkInstall ==
  ASSUME VInv, fork_install, Backed(dir, Min(todo), 0)
  PROVE  /\ VInv'
         /\ \A X \in Dirs : SeenIn(table', data', X) =
              IF X = dir THEN [Seen(X) EXCEPT ![Min(todo)] = data[copied[Min(todo)]]] ELSE Seen(X)
<1>. DEFINE v == Min(todo)
            f == copied[v]
<1>0. TypeOK /\ Identity /\ Parts /\ CallOK /\ Heap
  BY DEF VInv
<1>1. /\ op = "install" /\ todo # {} /\ paging_map(dir, v, f, used) /\ todo' = todo \ {v}
      /\ UNCHANGED <<data, scratch, live, page_dir, brk, base, op, cur, child, dir, copied, image, goal>>
  BY DEF fork_install, procVars
<1>2. v \in todo /\ v \in UserPages
  BY <1>0, <1>1, First
<1>3. /\ CopySet = todo /\ CopySet' = todo' /\ Copies' = Copies /\ todo \subseteq Copies
      /\ Maps(dir) = Copies \ todo /\ Maps(page_dir[cur]) = Copies
  BY <1>0, <1>1 DEF CopySet, Copies, CallOK
<1>4. dir \in Dirs /\ v \notin Maps(dir)
  BY <1>0, <1>1, <1>2, <1>3, CallDir
<1>5. HasTable(dir, v) \/ Free(used) # {}
  <2>1. ~HasTable(dir, v) => Cardinality(Free(used)) >= 1
    BY DEF Backed
  <2>. QED  BY <2>1, Enough
<1>. HIDE DEF v
<1>6. /\ used = Reserved \cup Dirs \cup Tabs \cup Pgs \cup CopyFrames \cup Scratch
      /\ Scratch \cap (Reserved \cup Dirs \cup Tabs \cup Pgs \cup CopyFrames) = {}
      /\ CopyFrames \cap (Reserved \cup Dirs \cup Tabs \cup Pgs) = {} /\ CopyFrames \subseteq Frames
      /\ Tabs \cap Reserved = {} /\ Pgs \cap Reserved = {} /\ Dirs \cap Reserved = {kernel_dir}
  BY <1>0 DEF Parts
<1>7. f \in CopyFrames
  BY <1>2, <1>3 DEF CopyFrames
<1>8. \A x, y \in todo : copied[x] = copied[y] => x = y
  BY <1>0, <1>3 DEF Parts
<1>9. CopyFrames' = CopyFrames \ {f}
  <2>1. CopyFrames = {copied[x] : x \in todo} /\ CopyFrames' = {copied[x] : x \in todo \ {v}}
    BY <1>1, <1>3 DEF CopyFrames
  <2>. QED  BY <1>2, <1>8, <2>1
<1>. HIDE DEF f
<1>10. /\ Forest(table', Dirs) /\ PagesOf(table', Dirs) = Pgs \cup {f}
       /\ \E G \in SUBSET Frames :
            G \cap used = {} /\ Tables(table', Dirs) = Tabs \cup G /\ used' = used \cup G
       /\ \A X \in Dirs : table'[X][0] = first_table
       /\ \A e \in Entries : table'[first_table][e] = e
       /\ \A X \in Dirs, w \in UserPages :
            PageAt(table', X, w) = IF X = dir /\ w = v THEN f ELSE PageAt(table, X, w)
  <2>1. f \in Frames /\ f \notin Dirs \cup Tabs \cup Pgs /\ used \subseteq used /\ f \in used
    BY <1>6, <1>7
  <2>. QED  BY <1>0, <1>1, <1>2, <1>4, <1>5, <2>1, MapState
<1>11. PICK G \in SUBSET Frames :
         G \cap used = {} /\ Tables(table', Dirs) = Tabs \cup G /\ used' = used \cup G
  BY <1>10
<1>12. UNCHANGED <<Dirs, LiveDirs, NewDir, Scratch>>
  BY <1>1 DEF Dirs, LiveDirs, NewDir, Scratch
<1>13. Tabs' = Tabs \cup G /\ Pgs' = Pgs \cup {f} /\ Forest(table', Dirs')
  BY <1>10, <1>11, <1>12 DEF Tabs, Pgs
<1>14. Identity'
  BY <1>10, <1>12 DEF Identity
<1>15. Parts'
  <2>1. used' = Reserved \cup Dirs' \cup Tabs' \cup Pgs' \cup CopyFrames' \cup Scratch'
    BY <1>6, <1>7, <1>9, <1>11, <1>12, <1>13
  <2>2. /\ Dirs' \cap Reserved = {kernel_dir} /\ Tabs' \cap Reserved = {} /\ Pgs' \cap Reserved = {}
        /\ CopyFrames' \subseteq Frames
    BY <1>6, <1>7, <1>9, <1>11, <1>12, <1>13
  <2>3. CopyFrames' \cap (Reserved \cup Dirs' \cup Tabs' \cup Pgs') = {}
    BY <1>6, <1>9, <1>11, <1>12, <1>13
  <2>4. Scratch' \cap (Reserved \cup Dirs' \cup Tabs' \cup Pgs' \cup CopyFrames') = {}
    BY <1>6, <1>7, <1>9, <1>11, <1>12, <1>13
  <2>5. \A x, y \in CopySet' : copied'[x] = copied'[y] => x = y
    BY <1>1, <1>3, <1>8
  <2>6. /\ \A p, q \in Procs : live'[p] /\ live'[q] /\ page_dir'[p] = page_dir'[q] => p = q
        /\ NewDir' => dir' \notin LiveDirs'
    BY <1>0, <1>1, <1>12 DEF Parts
  <2>. QED  BY <1>13, <2>1, <2>2, <2>3, <2>4, <2>5, <2>6 DEF Parts
<1>16. \A X \in Dirs : MapsIn(table', X) = IF X = dir THEN Maps(X) \cup {v} ELSE Maps(X)
  <2>1. f # Absent
    BY <1>6, <1>7, Constants
  <2>. QED  BY <1>2, <1>10, <2>1 DEF Maps, MapsIn
<1>17. TypeOK'
  <2>1. table' \in [Frames -> [Entries -> Frames \cup {Absent}]]
    BY <1>10 DEF Forest
  <2>2. used' \subseteq Frames
    BY <1>0, <1>11 DEF TypeOK
  <2>. QED  BY <1>0, <1>1, <2>1, <2>2 DEF TypeOK
<1>18. CallOK'
  <2>1. page_dir[cur] # dir /\ page_dir[cur] \in Dirs
    <3>1. live[cur] /\ NewDir /\ cur \in Procs
      BY <1>0, <1>1 DEF CallOK, NewDir, TypeOK
    <3>2. dir \notin LiveDirs
      BY <1>0, <3>1 DEF Parts
    <3>. QED  BY <1>0, <1>1, <3>1, <3>2, CallDir DEF LiveDirs
  <2>2. Maps(page_dir[cur])' = Copies' /\ Maps(dir)' = Copies' \ todo' /\ todo' \subseteq Copies'
    BY <1>1, <1>2, <1>3, <1>4, <1>16, <2>1 DEF Maps
  <2>. QED  BY <1>0, <1>1, <2>2 DEF CallOK
<1>19. Heap'
  <2>1. \A p \in Procs : live[p] => Maps(page_dir[p]) \subseteq Maps(page_dir[p])'
    BY <1>0, <1>1, <1>16, CallDir DEF Maps
  <2>. QED  BY <1>0, <1>1, <2>1 DEF Heap
<1>20. \A X \in Dirs : SeenIn(table', data', X) =
         IF X = dir THEN [Seen(X) EXCEPT ![v] = data[f]] ELSE Seen(X)
  <2>1. f \in Frames /\ f \notin Pgs
    BY <1>6, <1>7
  <2>2. data'[f] = data[f] /\ \A g \in Frames \ {f} : data'[g] = data[g]
    BY <1>1
  <2>. QED  BY <1>0, <1>2, <1>4, <1>10, <2>1, <2>2, MapSeen
<1>. QED  BY <1>14, <1>15, <1>17, <1>18, <1>19, <1>20 DEF VInv, v, f

\* fork returns: the new directory becomes the child's.
LEMMA ForkReturns ==
  ASSUME VInv, fork_returns
  PROVE  VInv'
<1>0. TypeOK /\ Identity /\ Parts /\ CallOK /\ Heap
  BY DEF VInv
<1>1. /\ op = "install" /\ todo = {} /\ Return /\ UNCHANGED <<used, table, data, scratch>>
      /\ live' = [live EXCEPT ![child] = TRUE] /\ page_dir' = [page_dir EXCEPT ![child] = dir]
      /\ brk' = [brk EXCEPT ![child] = brk[cur]] /\ base' = [base EXCEPT ![child] = base[cur]]
  BY DEF fork_returns, memVars
<1>2. /\ ~live[child] /\ live[cur] /\ dir # kernel_dir /\ Maps(page_dir[cur]) = Maps(dir)
      /\ NewDir /\ child \in Procs /\ cur \in Procs /\ dir \in Frames
  BY <1>0, <1>1 DEF CallOK, NewDir, TypeOK
<1>3. dir \notin LiveDirs
  BY <1>0, <1>2 DEF Parts
<1>4. /\ live'[child] /\ page_dir'[child] = dir /\ brk'[child] = brk[cur] /\ base'[child] = base[cur]
      /\ \A p \in Procs \ {child} : /\ live'[p] = live[p] /\ page_dir'[p] = page_dir[p]
                                    /\ brk'[p] = brk[p] /\ base'[p] = base[p]
  BY <1>0, <1>1, <1>2 DEF TypeOK
<1>5. TypeOK'
  <2>1. live' \in [Procs -> BOOLEAN]
    BY <1>0, <1>1 DEF TypeOK
  <2>2. page_dir' \in [Procs -> Frames]
    BY <1>0, <1>1 DEF TypeOK
  <2>3. brk' \in [Procs -> 0 .. USER_BRK_LIMIT] /\ base' \in [Procs -> 0 .. USER_BRK_LIMIT]
    BY <1>0, <1>1 DEF TypeOK
  <2>. QED  BY <1>0, <1>1, <2>1, <2>2, <2>3, Returned DEF TypeOK
<1>6. LiveDirs' = LiveDirs \cup {dir}
  <2>1. \A p \in Procs : live'[p] => page_dir'[p] \in LiveDirs \cup {dir}
    BY <1>4 DEF LiveDirs
  <2>2. \A p \in Procs : live[p] => live'[p] /\ page_dir'[p] = page_dir[p]
    BY <1>2, <1>4
  <2>3. LiveDirs' = {page_dir'[p] : p \in {q \in Procs : live'[q]}}
    BY DEF LiveDirs
  <2>4. LiveDirs \subseteq LiveDirs'
    BY <2>2, <2>3 DEF LiveDirs
  <2>5. dir \in LiveDirs'
    BY <1>2, <1>4, <2>3
  <2>6. LiveDirs' \subseteq LiveDirs \cup {dir}
    BY <2>1, <2>3
  <2>. QED  BY <2>4, <2>5, <2>6
<1>7. Dirs' = Dirs
  <2>1. Dirs = LiveDirs \cup {kernel_dir} \cup {dir}
    BY <1>2 DEF Dirs, LiveDirs
  <2>2. Dirs' = LiveDirs' \cup {kernel_dir}
    BY <1>1, Returned DEF Dirs, LiveDirs
  <2>. QED  BY <1>6, <2>1, <2>2
<1>8. CopySet = {} /\ CopySet' = {} /\ CopyFrames' = CopyFrames
  BY <1>1, Returned DEF CopySet, CopyFrames
<1>9. Identity' /\ Parts'
  <2>1. \A p, q \in Procs : live'[p] /\ live'[q] /\ page_dir'[p] = page_dir'[q] => p = q
    <3>1. \A p \in Procs : live[p] => page_dir[p] # dir
      BY <1>3 DEF LiveDirs
    <3>2. \A p, q \in Procs : live[p] /\ live[q] /\ page_dir[p] = page_dir[q] => p = q
      BY <1>0 DEF Parts
    <3>. QED  BY <1>4, <3>1, <3>2
  <2>2. ~NewDir'
    BY <1>1, Returned
  <2>. QED  BY <1>0, <1>1, <1>7, <1>8, <2>1, <2>2, SameFrames
<1>10. Heap'
  <2>1. ASSUME NEW p \in Procs, NEW v \in UserPages, live'[p], base'[p] <= v * PAGE_SIZE,
               v * PAGE_SIZE < brk'[p]
        PROVE  v \in Maps(page_dir[p])'
    <3>1. CASE p = child
      <4>1. v \in Maps(page_dir[cur])
        BY <1>0, <1>2, <1>4, <2>1, <3>1 DEF Heap
      <4>. QED  BY <1>1, <1>2, <1>4, <3>1, <4>1 DEF Maps
    <3>2. CASE p # child
      BY <1>0, <1>1, <1>4, <2>1, <3>2 DEF Heap, Maps
    <3>. QED  BY <3>1, <3>2
  <2>. QED  BY <2>1 DEF Heap
<1>. QED  BY <1>1, <1>5, <1>9, <1>10, Returned DEF VInv

\* The trees lose a directory.
LEMMA FreeTrees ==
  ASSUME NEW D, NEW C, NEW S, FreesTree(table, Dirs, D, C, S, table', Dirs')
  PROVE  /\ Forest(table', Dirs') /\ Tables(table', Dirs') = Tables(table, Dirs) \ S
         /\ PagesOf(table', Dirs') = PagesOf(table, Dirs) \ S
         /\ S \cap Dirs = {D}
         /\ S \ C \subseteq Dirs \cup Tables(table, Dirs) \cup PagesOf(table, Dirs)
         /\ \A X \in Dirs', w \in UserPages : PageAt(table', X, w) = PageAt(table, X, w)
BY FreeTree

\* PageIn, after the step.
LEMMA PageInNext ==
  ASSUME Parts', NEW X \in Dirs', NEW w \in UserPages, PageAt(table', X, w) # Absent
  PROVE  PageAt(table', X, w) \in Pgs' /\ PageAt(table', X, w) \in Frames
<1>0. /\ table' \in [Frames -> [Entries -> Frames \cup {Absent}]] /\ Dirs' \subseteq Frames
      /\ Absent \notin Frames /\ User \subseteq Entries
  BY Constants DEF Parts, Forest
<1>1. DirOf(w) \in User /\ EntOf(w) \in Entries
  BY PageEntry
<1>2. PICK T : T = table'[X][DirOf(w)]
  OBVIOUS
<1>3. T # Absent /\ PageAt(table', X, w) = table'[T][EntOf(w)]
  BY <1>2 DEF PageAt
<1>4. T \in Frames /\ T \in Tabs'
  BY <1>0, <1>1, <1>2, <1>3 DEF Tabs, Tables
<1>5. PageAt(table', X, w) \in Frames
  BY <1>0, <1>1, <1>3, <1>4
<1>. QED  BY <1>1, <1>3, <1>4, <1>5 DEF Pgs, PagesOf, Tabs

\* A directory and all below it are given back, with the copies of a fork that
\* fails: no frame of another directory goes, and none of these stays in use.
LEMMA FreeState ==
  ASSUME TypeOK, Identity, Parts, NEW D \in Dirs, D # kernel_dir,
         Freed(Owned(D) \cup CopyFrames), scratch' = scratch, Dirs' = Dirs \ {D}, CopySet' = {},
         \A p, q \in Procs : live'[p] /\ live'[q] /\ page_dir'[p] = page_dir'[q] => p = q,
         NewDir' => dir' \notin LiveDirs'
  PROVE  /\ Identity' /\ Parts' /\ used' \subseteq Frames
         /\ table' \in [Frames -> [Entries -> Frames \cup {Absent}]]
         /\ data' \in [Frames -> Values]
         /\ \A X \in Dirs' : MapsIn(table', X) = Maps(X)
         /\ \A X \in Dirs' : SeenIn(table', data', X) = Seen(X)
<1>0. /\ Reserved \subseteq Frames /\ first_table \in Frames /\ first_table \in Reserved
      /\ 0 \in Entries /\ Zeroed \in [Entries -> Frames \cup {Absent}] /\ 0 \in Values
  BY Constants, VmAssumption DEF Reserved
<1>1. /\ used \subseteq Frames /\ table \in [Frames -> [Entries -> Frames \cup {Absent}]]
      /\ data \in [Frames -> Values]
  BY DEF TypeOK
<1>2. /\ used = Reserved \cup Dirs \cup Tabs \cup Pgs \cup CopyFrames \cup Scratch
      /\ Scratch \cap (Reserved \cup Dirs \cup Tabs \cup Pgs \cup CopyFrames) = {}
      /\ CopyFrames \cap (Reserved \cup Dirs \cup Tabs \cup Pgs) = {} /\ CopyFrames \subseteq Frames
      /\ Tabs \cap Reserved = {} /\ Pgs \cap Reserved = {} /\ Dirs \cap Reserved = {kernel_dir}
      /\ Forest(table, Dirs) /\ Dirs \subseteq Frames
  BY DEF Parts, Forest
<1>3. PICK S : S = Owned(D) \cup CopyFrames
  OBVIOUS
<1>4. /\ used' = used \ S
      /\ table' = [f \in Frames |-> IF f \in S THEN Zeroed ELSE table[f]]
      /\ data' = [f \in Frames |-> IF f \in S THEN 0 ELSE data[f]]
  BY <1>3 DEF Freed
<1>5. /\ used' \subseteq Frames
      /\ table' \in [Frames -> [Entries -> Frames \cup {Absent}]]
      /\ data' \in [Frames -> Values]
      /\ \A X \in Frames \ S : table'[X] = table[X]
  BY <1>0, <1>1, <1>4
<1>6. FreesTree(table, Dirs, D, CopyFrames, S, table', Dirs')
  <2>1. S = {D} \cup Tables(table, {D}) \cup PagesOf(table, {D}) \cup CopyFrames
    BY <1>2, <1>3, OwnedIs
  <2>2. CopyFrames \cap (Dirs \cup Tables(table, Dirs) \cup PagesOf(table, Dirs)) = {}
    BY <1>2 DEF Tabs, Pgs
  <2>. QED  BY <1>2, <1>5, <2>1, <2>2 DEF FreesTree
<1>7. /\ Forest(table', Dirs') /\ Tables(table', Dirs') = Tables(table, Dirs) \ S
      /\ PagesOf(table', Dirs') = PagesOf(table, Dirs) \ S
      /\ S \cap Dirs = {D}
      /\ S \ CopyFrames \subseteq Dirs \cup Tables(table, Dirs) \cup PagesOf(table, Dirs)
      /\ \A X \in Dirs', w \in UserPages : PageAt(table', X, w) = PageAt(table, X, w)
  BY <1>6, FreeTrees
<1>8. /\ Tabs' = Tabs \ S /\ Pgs' = Pgs \ S /\ Scratch' = Scratch /\ CopyFrames' = {}
      /\ S \subseteq Dirs \cup Tabs \cup Pgs \cup CopyFrames
  BY <1>7 DEF Tabs, Pgs, Scratch, CopyFrames
<1>9. D \notin Reserved /\ S \cap Reserved = {} /\ S \cap Scratch = {} /\ CopyFrames \subseteq S
  BY <1>2, <1>3, <1>7, <1>8
<1>10. Identity'
  <2>1. \A X \in Dirs' : table'[X] = table[X]
    BY <1>2, <1>5, <1>7
  <2>2. table'[first_table] = table[first_table]
    BY <1>0, <1>5, <1>9
  <2>. QED  BY <2>1, <2>2 DEF Identity
<1>11. Parts'
  <2>1. used' = Reserved \cup Dirs' \cup Tabs' \cup Pgs' \cup CopyFrames' \cup Scratch'
    BY <1>2, <1>4, <1>7, <1>8, <1>9
  <2>2. /\ Tabs' \cap Reserved = {} /\ Pgs' \cap Reserved = {} /\ Dirs' \cap Reserved = {kernel_dir}
        /\ Scratch' \cap (Reserved \cup Dirs' \cup Tabs' \cup Pgs' \cup CopyFrames') = {}
    BY <1>2, <1>8
  <2>. QED  BY <1>7, <1>8, <2>1, <2>2 DEF Parts
<1>12. \A X \in Dirs' : MapsIn(table', X) = Maps(X)
  BY <1>7 DEF Maps, MapsIn
<1>13. ASSUME NEW X \in Dirs'
       PROVE  SeenIn(table', data', X) = Seen(X)
  <2>1. X \in Dirs
    OBVIOUS
  <2>2. ASSUME NEW w \in UserPages, PageAt(table, X, w) # Absent
        PROVE  data'[PageAt(table, X, w)] = data[PageAt(table, X, w)]
    <3>1. PageAt(table', X, w) = PageAt(table, X, w) /\ PageAt(table', X, w) # Absent
      BY <1>7, <2>2
    <3>2. PageAt(table, X, w) \in Pgs' /\ PageAt(table, X, w) \in Frames
      BY <1>11, <3>1, PageInNext
    <3>. QED  BY <1>4, <1>8, <3>2
  <2>. QED  BY <1>7, <2>2, SameSeen
<1>. QED  BY <1>5, <1>10, <1>11, <1>12, <1>13

\* execve or fork runs out of memory: everything it took goes back.
LEMMA NewDirFreed ==
  ASSUME VInv, NewDir, Freed(Owned(dir) \cup CopyFrames), Return, UNCHANGED <<scratch, live, page_dir, brk, base>>
  PROVE  VInv' /\ Dirs' = LiveDirs \cup {kernel_dir} /\ \A X \in Dirs' : SeenIn(table', data', X) = Seen(X)
<1>0. TypeOK /\ Identity /\ Parts /\ CallOK /\ Heap
  BY DEF VInv
<1>1. dir \in Dirs /\ dir # kernel_dir /\ dir \notin LiveDirs
  BY <1>0 DEF NewDir, Dirs, Parts
<1>2. ~NewDir' /\ CopySet' = {} /\ CallOK'
  BY Returned
<1>3. Dirs' = Dirs \ {dir} /\ Dirs' = LiveDirs \cup {kernel_dir}
  <2>1. Dirs = LiveDirs \cup {kernel_dir} \cup {dir}
    BY DEF Dirs, LiveDirs
  <2>2. Dirs' = LiveDirs \cup {kernel_dir}
    BY <1>2 DEF Dirs, LiveDirs
  <2>. QED  BY <1>1, <2>1, <2>2
<1>4. \A p, q \in Procs : live'[p] /\ live'[q] /\ page_dir'[p] = page_dir'[q] => p = q
  BY <1>0 DEF Parts
<1>5. /\ Identity' /\ Parts' /\ used' \subseteq Frames
      /\ table' \in [Frames -> [Entries -> Frames \cup {Absent}]]
      /\ data' \in [Frames -> Values]
      /\ \A X \in Dirs' : MapsIn(table', X) = Maps(X)
      /\ \A X \in Dirs' : SeenIn(table', data', X) = Seen(X)
  BY <1>0, <1>1, <1>2, <1>3, <1>4, FreeState
<1>6. TypeOK'
  BY <1>0, <1>5, Returned DEF TypeOK
<1>7. Heap'
  <2>1. \A p \in Procs : live[p] => Maps(page_dir[p])' = Maps(page_dir[p])
    BY <1>3, <1>5 DEF Maps, LiveDirs
  <2>. QED  BY <1>0, <2>1 DEF Heap
<1>. QED  BY <1>2, <1>3, <1>5, <1>6, <1>7 DEF VInv

LEMMA CallFails ==
  ASSUME VInv, exec_fails \/ fork_fails
  PROVE  VInv' /\ Dirs' = LiveDirs \cup {kernel_dir} /\ \A X \in Dirs' : SeenIn(table', data', X) = Seen(X)
<1>0. TypeOK /\ CallOK
  BY DEF VInv
<1>1. CASE exec_fails
  <2>1. op = "load" /\ NewDir /\ Freed(Owned(dir)) /\ Return /\ UNCHANGED <<scratch, live, page_dir, brk, base>>
    BY <1>1 DEF exec_fails, Booting, NewDir, procVars
  <2>2. CopyFrames = {}
    BY <1>0, <2>1, Copyless DEF CallOK, CopyFrames
  <2>3. Owned(dir) \cup CopyFrames = Owned(dir)
    BY <2>2
  <2>. QED  BY <2>1, <2>3, NewDirFreed
<1>2. CASE fork_fails
  <2>1. op = "copy" /\ Freed({copied[v] : v \in Copies} \cup Owned(dir)) /\ Return
        /\ UNCHANGED <<scratch, live, page_dir, brk, base>>
    BY <1>2 DEF fork_fails, procVars
  <2>2. NewDir
    BY <1>0, <2>1 DEF CallOK, NewDir
  <2>3. {copied[v] : v \in Copies} \cup Owned(dir) = Owned(dir) \cup CopyFrames
    BY <2>1 DEF CopyFrames, CopySet
  <2>. QED  BY <2>1, <2>2, <2>3, NewDirFreed
<1>. QED  BY <1>1, <1>2

\* Nothing is given back: the kernel directory is never freed.
LEMMA NoneFreed ==
  ASSUME TypeOK, Freed({})
  PROVE  used' = used /\ table' = table /\ data' = data
<1>1. used' = used
  BY DEF Freed
<1>2. table' = [f \in Frames |-> table[f]] /\ data' = [f \in Frames |-> data[f]]
  BY DEF Freed
<1>. QED  BY <1>1, <1>2 DEF TypeOK

\* The old directory of a process is given back, unless it is the kernel's.
LEMMA OldFreed ==
  ASSUME TypeOK, Identity, Parts, NEW D \in Dirs, CopyFrames = {}, CopySet' = {}, scratch' = scratch,
         Freed(IF D = kernel_dir THEN {} ELSE Owned(D)),
         Dirs' = (Dirs \ {D}) \cup {kernel_dir}, ~NewDir',
         \A p, q \in Procs : live'[p] /\ live'[q] /\ page_dir'[p] = page_dir'[q] => p = q
  PROVE  /\ Identity' /\ Parts' /\ used' \subseteq Frames
         /\ table' \in [Frames -> [Entries -> Frames \cup {Absent}]]
         /\ data' \in [Frames -> Values]
         /\ \A X \in Dirs' : MapsIn(table', X) = Maps(X)
         /\ \A X \in Dirs' : SeenIn(table', data', X) = Seen(X)
<1>1. CASE D = kernel_dir
  <2>1. used' = used /\ table' = table /\ data' = data
    BY <1>1, NoneFreed
  <2>2. Dirs' = Dirs
    BY <1>1
  <2>3. CopyFrames' = CopyFrames
    BY DEF CopyFrames
  <2>4. Identity' /\ Parts'
    BY <2>1, <2>2, <2>3, SameFrames
  <2>. QED  BY <2>1, <2>4 DEF TypeOK, Maps, Seen
<1>2. CASE D # kernel_dir
  <2>1. Owned(D) \cup CopyFrames = Owned(D) /\ Freed(Owned(D))
    BY <1>2
  <2>2. Dirs' = Dirs \ {D}
    BY <1>2 DEF Dirs
  <2>3. Freed(Owned(D) \cup CopyFrames)
    BY <2>1
  <2>. QED  BY <1>2, <2>2, <2>3, FreeState
<1>. QED  BY <1>1, <1>2

\* execve can no longer fail: the process changes over to the new directory.
LEMMA ExecCommit ==
  ASSUME VInv, exec_commit
  PROVE  VInv' /\ \A X \in Dirs' : SeenIn(table', data', X) = Seen(X)
<1>0. TypeOK /\ Identity /\ Parts /\ CallOK /\ Heap
  BY DEF VInv
<1>1. /\ op = "load" /\ dir # kernel_dir /\ todo = {} /\ op' = "stack"
      /\ page_dir' = [page_dir EXCEPT ![cur] = dir]
      /\ Freed(IF page_dir[cur] = kernel_dir THEN {} ELSE Owned(page_dir[cur]))
      /\ brk' = [brk EXCEPT ![cur] = ImageEnd(image)]
      /\ base' = [base EXCEPT ![cur] = ImageEnd(image)] /\ todo' = StackPages
      /\ UNCHANGED <<scratch, live, cur, child, dir, copied, image, goal>>
  BY DEF exec_commit, Booting, SetBrk
<1>2. /\ image \in Images /\ Maps(dir) = DOMAIN image /\ live[cur] /\ NewDir
      /\ cur \in Procs /\ dir \in Frames
  BY <1>0, <1>1 DEF CallOK, NewDir, TypeOK
<1>3. dir \notin LiveDirs /\ ~NewDir' /\ page_dir[cur] \in LiveDirs
  BY <1>0, <1>1, <1>2 DEF Parts, NewDir, LiveDirs
<1>4. /\ page_dir'[cur] = dir /\ brk'[cur] = ImageEnd(image) /\ base'[cur] = ImageEnd(image)
      /\ \A p \in Procs \ {cur} : page_dir'[p] = page_dir[p] /\ brk'[p] = brk[p] /\ base'[p] = base[p]
  BY <1>0, <1>1, <1>2 DEF TypeOK
<1>5. \A p, q \in Procs : live[p] /\ live[q] /\ page_dir[p] = page_dir[q] => p = q
  BY <1>0 DEF Parts
<1>6. LiveDirs' = (LiveDirs \ {page_dir[cur]}) \cup {dir}
  <2>1. LiveDirs' = {page_dir'[p] : p \in {q \in Procs : live[q]}}
    BY <1>1 DEF LiveDirs
  <2>2. \A p \in Procs : live[p] /\ p # cur => page_dir[p] \in LiveDirs \ {page_dir[cur]}
    BY <1>2, <1>5 DEF LiveDirs
  <2>3. \A X \in LiveDirs \ {page_dir[cur]} : \E p \in Procs : live[p] /\ p # cur /\ page_dir[p] = X
    BY DEF LiveDirs
  <2>4. \A X \in LiveDirs' : X \in (LiveDirs \ {page_dir[cur]}) \cup {dir}
    BY <1>4, <2>1, <2>2
  <2>5. \A X \in LiveDirs \ {page_dir[cur]} : X \in LiveDirs'
    BY <1>4, <2>1, <2>3
  <2>6. dir \in LiveDirs'
    BY <1>2, <1>4, <2>1
  <2>. QED  BY <2>4, <2>5, <2>6
<1>7. Dirs' = (Dirs \ {page_dir[cur]}) \cup {kernel_dir} /\ page_dir[cur] \in Dirs
  <2>1. Dirs = LiveDirs \cup {kernel_dir} \cup {dir}
    BY <1>2 DEF Dirs, LiveDirs
  <2>2. Dirs' = LiveDirs' \cup {kernel_dir}
    BY <1>3 DEF Dirs, LiveDirs
  <2>. QED  BY <1>3, <1>6, <2>1, <2>2
<1>8. CopyFrames = {} /\ CopySet' = {}
  BY <1>0, <1>1, Copyless DEF CallOK, CopyFrames
<1>9. \A p, q \in Procs : live'[p] /\ live'[q] /\ page_dir'[p] = page_dir'[q] => p = q
  <2>1. \A p \in Procs : live[p] => page_dir[p] # dir
    BY <1>3 DEF LiveDirs
  <2>. QED  BY <1>1, <1>4, <1>5, <2>1
<1>10. /\ Identity' /\ Parts' /\ used' \subseteq Frames
       /\ table' \in [Frames -> [Entries -> Frames \cup {Absent}]]
       /\ data' \in [Frames -> Values]
       /\ \A X \in Dirs' : MapsIn(table', X) = Maps(X)
       /\ \A X \in Dirs' : SeenIn(table', data', X) = Seen(X)
  BY <1>0, <1>1, <1>3, <1>7, <1>8, <1>9, OldFreed
<1>11. TypeOK'
  <2>1. brk' \in [Procs -> 0 .. USER_BRK_LIMIT] /\ base' \in [Procs -> 0 .. USER_BRK_LIMIT]
    BY <1>0, <1>1, <1>2, ImageEndType DEF TypeOK
  <2>2. page_dir' \in [Procs -> Frames]
    BY <1>0, <1>1, <1>2 DEF TypeOK
  <2>. QED  BY <1>0, <1>1, <1>10, <2>1, <2>2, VmAssumption DEF TypeOK
<1>12. CallOK'
  <2>1. Maps(dir)' = DOMAIN image
    BY <1>1, <1>2, <1>6, <1>10, <1>3 DEF Maps, Dirs, LiveDirs
  <2>2. StackPages # {} /\ StackPages \cap DOMAIN image = {}
    BY <1>2, VmAssumption
  <2>. QED  BY <1>0, <1>1, <1>2, <1>4, <2>1, <2>2 DEF CallOK
<1>13. Heap'
  <2>1. ImageEnd(image) \in Int
    BY <1>2, ImageEndType
  <2>2. ASSUME NEW p \in Procs, NEW v \in UserPages, live'[p], base'[p] <= v * PAGE_SIZE,
               v * PAGE_SIZE < brk'[p]
        PROVE  v \in Maps(page_dir[p])'
    <3>1. CASE p = cur
      <4>1. v * PAGE_SIZE \in Int
        BY UserIsPage, Constants
      <4>. QED  BY <1>4, <2>1, <2>2, <3>1, <4>1
    <3>2. CASE p # cur
      <4>1. page_dir'[p] = page_dir[p] /\ page_dir'[p] \in Dirs' /\ live[p]
        BY <1>1, <1>4, <2>2, <3>2 DEF Dirs
      <4>2. v \in Maps(page_dir[p])
        BY <1>0, <1>4, <2>2, <3>2, <4>1 DEF Heap
      <4>. QED  BY <1>10, <4>1, <4>2 DEF Maps
    <3>. QED  BY <3>1, <3>2
  <2>. QED  BY <2>2 DEF Heap
<1>. QED  BY <1>10, <1>11, <1>12, <1>13 DEF VInv

LEMMA Exit ==
  ASSUME VInv, NEW x \in Procs, process_exit(x)
  PROVE  VInv' /\ \A X \in Dirs' : SeenIn(table', data', X) = Seen(X)
<1>0. TypeOK /\ Identity /\ Parts /\ CallOK /\ Heap
  BY DEF VInv
<1>1. /\ op = "user" /\ live[x] /\ live' = [live EXCEPT ![x] = FALSE]
      /\ Freed(IF page_dir[x] = kernel_dir THEN {} ELSE Owned(page_dir[x]))
      /\ page_dir' = [page_dir EXCEPT ![x] = kernel_dir]
      /\ brk' = [brk EXCEPT ![x] = 0] /\ base' = [base EXCEPT ![x] = 0]
      /\ UNCHANGED <<scratch, op, cur, child, dir, todo, copied, image, goal>>
  BY DEF process_exit, callVars
<1>2. /\ ~live'[x]
      /\ \A p \in Procs \ {x} : /\ live'[p] = live[p] /\ page_dir'[p] = page_dir[p]
                                /\ brk'[p] = brk[p] /\ base'[p] = base[p]
  BY <1>0, <1>1 DEF TypeOK
<1>3. \A p, q \in Procs : live[p] /\ live[q] /\ page_dir[p] = page_dir[q] => p = q
  BY <1>0 DEF Parts
<1>4. ~NewDir /\ ~NewDir' /\ CopyFrames = {} /\ CopySet' = {}
  BY <1>0, <1>1, Copyless DEF NewDir, CallOK, CopyFrames
<1>5. LiveDirs' = LiveDirs \ {page_dir[x]} /\ page_dir[x] \in LiveDirs
  <2>1. LiveDirs' = {page_dir'[p] : p \in {q \in Procs : live'[q]}}
    BY DEF LiveDirs
  <2>2. \A p \in Procs : live[p] /\ p # x => page_dir[p] \in LiveDirs \ {page_dir[x]}
    BY <1>1, <1>3 DEF LiveDirs
  <2>3. \A X \in LiveDirs \ {page_dir[x]} : \E p \in Procs : live[p] /\ p # x /\ page_dir[p] = X
    BY DEF LiveDirs
  <2>4. \A X \in LiveDirs' : X \in LiveDirs \ {page_dir[x]}
    BY <1>2, <2>1, <2>2
  <2>5. \A X \in LiveDirs \ {page_dir[x]} : X \in LiveDirs'
    BY <1>2, <2>1, <2>3
  <2>. QED  BY <1>1, <2>4, <2>5 DEF LiveDirs
<1>6. Dirs' = (Dirs \ {page_dir[x]}) \cup {kernel_dir} /\ page_dir[x] \in Dirs
  <2>1. Dirs = LiveDirs \cup {kernel_dir} /\ Dirs' = LiveDirs' \cup {kernel_dir}
    BY <1>4 DEF Dirs, LiveDirs
  <2>. QED  BY <1>5, <2>1
<1>7. \A p, q \in Procs : live'[p] /\ live'[q] /\ page_dir'[p] = page_dir'[q] => p = q
  BY <1>2, <1>3
<1>8. /\ Identity' /\ Parts' /\ used' \subseteq Frames
      /\ table' \in [Frames -> [Entries -> Frames \cup {Absent}]]
      /\ data' \in [Frames -> Values]
      /\ \A X \in Dirs' : MapsIn(table', X) = Maps(X)
      /\ \A X \in Dirs' : SeenIn(table', data', X) = Seen(X)
  BY <1>0, <1>1, <1>4, <1>6, <1>7, OldFreed
<1>9. TypeOK'
  <2>1. brk' \in [Procs -> 0 .. USER_BRK_LIMIT] /\ base' \in [Procs -> 0 .. USER_BRK_LIMIT]
    BY <1>0, <1>1, VmAssumption DEF TypeOK
  <2>2. live' \in [Procs -> BOOLEAN]
    BY <1>0, <1>1 DEF TypeOK
  <2>3. page_dir' \in [Procs -> Frames]
    BY <1>0, <1>1, Constants DEF TypeOK
  <2>. QED  BY <1>0, <1>1, <1>8, <2>1, <2>2, <2>3 DEF TypeOK
<1>10. CallOK'
  BY <1>0, <1>1 DEF CallOK
<1>11. Heap'
  <2>1. ASSUME NEW p \in Procs, NEW v \in UserPages, live'[p], base'[p] <= v * PAGE_SIZE,
               v * PAGE_SIZE < brk'[p]
        PROVE  v \in Maps(page_dir[p])'
    <3>1. p # x /\ page_dir'[p] = page_dir[p] /\ page_dir'[p] \in Dirs' /\ live[p]
      BY <1>2, <2>1 DEF Dirs
    <3>2. v \in Maps(page_dir[p])
      BY <1>0, <1>2, <2>1, <3>1 DEF Heap
    <3>. QED  BY <1>8, <3>1, <3>2 DEF Maps
  <2>. QED  BY <2>1 DEF Heap
<1>. QED  BY <1>8, <1>9, <1>10, <1>11 DEF VInv

\* The trees lose pages.
LEMMA UnmapTrees ==
  ASSUME NEW D, NEW K, Unmaps(table, Dirs, D, K, table')
  PROVE  /\ Forest(table', Dirs) /\ Tables(table', Dirs) = Tables(table, Dirs)
         /\ PagesOf(table', Dirs) = PagesOf(table, Dirs) \ {PageAt(table, D, v) : v \in K}
         /\ \A v \in K : PageAt(table, D, v) \in PagesOf(table, Dirs)
         /\ \A X \in Frames \ Tables(table, Dirs), x \in Entries : table'[X][x] = table[X][x]
         /\ \A X \in Dirs, w \in UserPages :
              PageAt(table', X, w) = IF X = D /\ w \in K THEN Absent ELSE PageAt(table, X, w)
BY UnmapPages

\* The pages a shrinking sbrk unmaps are user pages if the break stays above the
\* identity map.
LEMMA DeadPages ==
  ASSUME TypeOK, NEW p \in Procs, NEW want \in Nat, want >= ENTRIES * PAGE_SIZE,
         NEW v \in Dead(p, brk[p], want)
  PROVE  /\ v \in UserPages /\ v * PAGE_SIZE >= want
         /\ PageAt(table, page_dir[p], v) # Absent
         /\ Phys(page_dir[p], v) = PageAt(table, page_dir[p], v)
<1>1. v \in Pages /\ v * PAGE_SIZE >= want /\ Mapped(page_dir[p], v)
  BY DEF Dead
<1>2. v \in Nat /\ PAGE_SIZE \in Nat \ {0} /\ ENTRIES \in Nat
  BY <1>1, VmAssumption DEF Pages
<1>3. ENTRIES <= v
  <2>1. SUFFICES ASSUME v < ENTRIES  PROVE FALSE
    BY <1>2
  <2>2. PAGE_SIZE * (v + 1) <= PAGE_SIZE * ENTRIES
    BY <1>2, <2>1, MulLess
  <2>3. PAGE_SIZE * v < PAGE_SIZE * ENTRIES
    BY <1>2, <2>2
  <2>4. v * PAGE_SIZE = PAGE_SIZE * v /\ ENTRIES * PAGE_SIZE = PAGE_SIZE * ENTRIES
        /\ PAGE_SIZE * v \in Int /\ PAGE_SIZE * ENTRIES \in Int
    BY <1>2
  <2>. QED  BY <1>1, <2>3, <2>4
<1>4. v \in UserPages
  BY <1>1, <1>2, <1>3, VmAssumption DEF UserPages, Pages
<1>. QED  BY <1>1, <1>4, MappedIs

LEMMA SbrkShrink ==
  ASSUME VInv, NEW p \in Procs, NEW inc \in Increments, sbrk_shrink(p, inc),
         Want(p, inc) >= ENTRIES * PAGE_SIZE
  PROVE  /\ VInv'
         /\ \A X \in Dirs : X # page_dir[p] => SeenIn(table', data', X) = Seen(X)
         /\ \A w \in UserPages :
              SeenIn(table', data', page_dir[p])[w] \in {Seen(page_dir[p])[w], -1}
<1>0. TypeOK /\ Identity /\ Parts /\ CallOK /\ Heap
  BY DEF VInv
<1>1. PICK want : want = Want(p, inc)
  OBVIOUS
<1>2. PICK D : D = page_dir[p]
  OBVIOUS
<1>3. PICK K : K = Dead(p, brk[p], want)
  OBVIOUS
<1>4. PICK gone : gone = {Phys(D, v) : v \in K}
  OBVIOUS
<1>5. /\ op = "user" /\ live[p] /\ want <= brk[p] /\ used' = used \ gone
      /\ data' = [f \in Frames |-> IF f \in gone THEN 0 ELSE data[f]]
      /\ table' = [T \in Frames |-> [t \in Entries |->
           IF \E v \in K : table[D][v \div ENTRIES] = T /\ v % ENTRIES = t
           THEN Absent ELSE table[T][t]]]
      /\ brk' = [brk EXCEPT ![p] = want]
      /\ UNCHANGED <<scratch, live, page_dir, base, op, cur, child, dir, todo, copied, image, goal>>
  BY <1>1, <1>2, <1>3, <1>4 DEF sbrk_shrink, callVars
<1>6. brk[p] \in 0 .. USER_BRK_LIMIT /\ want \in Nat /\ want >= ENTRIES * PAGE_SIZE
  <2>1. brk[p] \in 0 .. USER_BRK_LIMIT /\ brk[p] + inc \in Int /\ AddressTop \in Nat \ {0}
    BY <1>0, Addresses, VmAssumption DEF TypeOK
  <2>. QED  BY <1>1, <2>1 DEF Want
<1>7. \A v \in K : /\ v \in UserPages /\ v * PAGE_SIZE >= want
                   /\ PageAt(table, D, v) # Absent /\ Phys(D, v) = PageAt(table, D, v)
  BY <1>0, <1>2, <1>3, <1>6, DeadPages
<1>8. gone = {PageAt(table, D, v) : v \in K} /\ K \in SUBSET UserPages
  BY <1>4, <1>7
<1>9. D \in Dirs /\ Dirs \subseteq Frames /\ Forest(table, Dirs)
  BY <1>0, <1>2, <1>5, CallDir DEF Parts, Forest
<1>10. /\ table' \in [Frames -> [Entries -> Frames \cup {Absent}]]
       /\ \A X \in Frames, x \in Entries :
            table'[X][x] = IF \E v \in K : table[D][DirOf(v)] = X /\ EntOf(v) = x THEN Absent
                           ELSE table[X][x]
  <2>1. table \in [Frames -> [Entries -> Frames \cup {Absent}]]
    BY <1>0 DEF TypeOK
  <2>2. table' \in [Frames -> [Entries -> Frames \cup {Absent}]]
    BY <1>5, <2>1
  <2>. QED  BY <1>5, <2>2 DEF DirOf, EntOf
<1>20. Unmaps(table, Dirs, D, K, table')
  BY <1>7, <1>8, <1>9, <1>10 DEF Unmaps
<1>11. /\ Forest(table', Dirs) /\ Tables(table', Dirs) = Tables(table, Dirs)
       /\ PagesOf(table', Dirs) = PagesOf(table, Dirs) \ {PageAt(table, D, v) : v \in K}
       /\ \A v \in K : PageAt(table, D, v) \in PagesOf(table, Dirs)
       /\ \A X \in Frames \ Tables(table, Dirs), x \in Entries : table'[X][x] = table[X][x]
       /\ \A X \in Dirs, w \in UserPages :
            PageAt(table', X, w) = IF X = D /\ w \in K THEN Absent ELSE PageAt(table, X, w)
  BY <1>20, UnmapTrees
<1>12. UNCHANGED <<Dirs, LiveDirs, NewDir, Scratch>> /\ CopySet = {} /\ CopySet' = {}
       /\ CopyFrames = {} /\ CopyFrames' = {}
  BY <1>0, <1>5, Copyless DEF Dirs, LiveDirs, NewDir, Scratch, CallOK, CopyFrames
<1>13. Tabs' = Tabs /\ Pgs' = Pgs \ gone /\ gone \subseteq Pgs /\ Forest(table', Dirs')
  BY <1>8, <1>11, <1>12 DEF Tabs, Pgs
<1>14. /\ used = Reserved \cup Dirs \cup Tabs \cup Pgs \cup Scratch
       /\ Scratch \cap (Reserved \cup Dirs \cup Tabs \cup Pgs) = {}
       /\ Tabs \cap Reserved = {} /\ Pgs \cap Reserved = {} /\ Dirs \cap Reserved = {kernel_dir}
       /\ Dirs \cap Tabs = {} /\ Dirs \cap Pgs = {} /\ Tabs \cap Pgs = {}
  BY <1>0, <1>12 DEF Parts, Forest, Tabs, Pgs
<1>15. Identity'
  <2>1. first_table \in Frames /\ first_table \in Reserved /\ 0 \in Entries
    BY Constants DEF Reserved
  <2>2. first_table \notin Tables(table, Dirs) /\ Dirs \cap Tables(table, Dirs) = {}
    BY <1>14, <2>1 DEF Tabs
  <2>3. \A X \in Dirs : table'[X][0] = table[X][0]
    BY <1>9, <1>11, <2>1, <2>2
  <2>4. \A e \in Entries : table'[first_table][e] = table[first_table][e]
    BY <1>11, <2>1, <2>2
  <2>. QED  BY <1>0, <1>12, <2>3, <2>4 DEF Identity
<1>16. Parts'
  <2>1. used' = Reserved \cup Dirs' \cup Tabs' \cup Pgs' \cup CopyFrames' \cup Scratch'
    BY <1>5, <1>12, <1>13, <1>14
  <2>2. /\ Tabs' \cap Reserved = {} /\ Pgs' \cap Reserved = {} /\ Dirs' \cap Reserved = {kernel_dir}
        /\ Scratch' \cap (Reserved \cup Dirs' \cup Tabs' \cup Pgs' \cup CopyFrames') = {}
    BY <1>12, <1>13, <1>14
  <2>3. /\ \A x, y \in Procs : live'[x] /\ live'[y] /\ page_dir'[x] = page_dir'[y] => x = y
        /\ NewDir' => dir' \notin LiveDirs'
    BY <1>0, <1>5, <1>12 DEF Parts
  <2>. QED  BY <1>12, <1>13, <2>1, <2>2, <2>3 DEF Parts
<1>17. TypeOK'
  <2>1. brk' \in [Procs -> 0 .. USER_BRK_LIMIT]
    <3>1. want \in 0 .. USER_BRK_LIMIT
      BY <1>5, <1>6, VmAssumption
    <3>. QED  BY <1>0, <1>5, <3>1 DEF TypeOK
  <2>2. data' \in [Frames -> Values] /\ used' \subseteq Frames
    BY <1>0, <1>5, VmAssumption DEF TypeOK
  <2>. QED  BY <1>0, <1>5, <1>10, <2>1, <2>2 DEF TypeOK
<1>18. CallOK'
  BY <1>0, <1>5 DEF CallOK
<1>19. Heap'
  <2>1. ASSUME NEW q \in Procs, NEW v \in UserPages, live'[q], base'[q] <= v * PAGE_SIZE,
               v * PAGE_SIZE < brk'[q]
        PROVE  v \in Maps(page_dir[q])'
    <3>1. v * PAGE_SIZE \in Int /\ brk[q] \in Int
      BY <1>0, UserIsPage, Constants DEF TypeOK
    <3>2. /\ v * PAGE_SIZE < brk[q] /\ live[q] /\ page_dir'[q] = page_dir[q]
          /\ q = p => v * PAGE_SIZE < want
      BY <1>0, <1>5, <1>6, <2>1, <3>1 DEF TypeOK
    <3>3. v \in Maps(page_dir[q]) /\ page_dir[q] \in Dirs
      BY <1>0, <1>5, <2>1, <3>2, CallDir DEF Heap
    <3>4. ~(page_dir[q] = D /\ v \in K)
      <4>1. page_dir[q] = D => q = p
        BY <1>0, <1>2, <1>5, <3>2 DEF Parts
      <4>. QED  BY <1>6, <1>7, <3>1, <3>2, <4>1
    <3>5. PageAt(table', page_dir[q], v) # Absent
      BY <1>11, <3>3, <3>4 DEF Maps, MapsIn
    <3>. QED  BY <3>2, <3>5 DEF Maps, MapsIn
  <2>. QED  BY <2>1 DEF Heap
<1>21. ASSUME NEW X \in Dirs, NEW w \in UserPages, PageAt(table, X, w) # Absent, ~(X = D /\ w \in K)
       PROVE  data'[PageAt(table, X, w)] = data[PageAt(table, X, w)]
  <2>1. PageAt(table, X, w) \in Frames /\ PageAt(table, X, w) \notin gone
    BY <1>0, <1>8, <1>9, <1>21, PageIn
  <2>. QED  BY <1>5, <2>1
<1>22. ASSUME NEW X \in Dirs, X # D  PROVE SeenIn(table', data', X) = Seen(X)
  BY <1>11, <1>21, <1>22, SameSeen
<1>23. ASSUME NEW w \in UserPages  PROVE SeenIn(table', data', D)[w] \in {Seen(D)[w], -1}
  BY <1>9, <1>11, <1>21 DEF Seen, SeenIn
<1>. QED  BY <1>2, <1>15, <1>16, <1>17, <1>18, <1>19, <1>22, <1>23 DEF VInv

-----------------------------------------------------------------------------
(* The theorems. *)

LEMMA InitVInv == Init => VInv
<1>. SUFFICES ASSUME Init  PROVE VInv
  OBVIOUS
<1>0. /\ Absent \notin Frames /\ Reserved = Entries /\ Entries \subseteq Frames /\ 0 \in Entries /\ 0 \notin User
      /\ User \subseteq Entries /\ first_table \in Entries /\ kernel_dir \in Entries
      /\ first_table # kernel_dir
      /\ Zeroed \in [Entries -> Frames \cup {Absent}] /\ \A e \in Entries : Zeroed[e] = Absent
  BY Constants DEF Reserved, User
<1>1. TypeOK
  <2>1. table \in [Frames -> [Entries -> Frames \cup {Absent}]]
    BY <1>0 DEF Init
  <2>2. copied \in [UserPages -> Frames \cup {Absent}]
    BY DEF Init, NoCopies
  <2>3. 0 \in Procs /\ 0 \in 0 .. USER_BRK_LIMIT /\ 0 \in Values /\ used \subseteq Frames
    BY <1>0, VmAssumption DEF Procs, Init
  <2>4. image \in Images /\ todo \subseteq UserPages
    BY VmAssumption DEF Init
  <2>. QED  BY <1>0, <2>1, <2>2, <2>3, <2>4 DEF Init, TypeOK
<1>2. /\ \A e \in Entries : table[kernel_dir][e] = IF e = 0 THEN first_table ELSE Absent
      /\ \A e \in Entries : table[first_table][e] = e
  BY <1>0 DEF Init
<1>3. ~NewDir /\ \A p \in Procs : live[p] <=> p = 0
  BY DEF Init, NewDir
<1>4. Dirs = {kernel_dir} /\ LiveDirs = {kernel_dir}
  <2>1. 0 \in Procs /\ \A p \in Procs : page_dir[p] = kernel_dir
    BY VmAssumption DEF Procs, Init
  <2>. QED  BY <1>3, <2>1 DEF Dirs, LiveDirs
<1>5. Tabs = {}
  BY <1>0, <1>2, <1>4 DEF Tabs, Tables, User
<1>6. Pgs = {}
  BY <1>5 DEF Pgs, PagesOf, Tabs
<1>7. CopySet = {} /\ CopyFrames = {} /\ Scratch = {}
  BY DEF Init, CopySet, CopyFrames, Copies, NoCopies, Scratch
<1>8. Identity
  BY <1>0, <1>2, <1>4 DEF Identity
<1>9. Parts
  <2>1. Forest(table, Dirs)
    <3>1. \A d \in User : table[kernel_dir][d] = Absent
      BY <1>0, <1>2
    <3>2. Tables(table, Dirs) = {} /\ PagesOf(table, Dirs) = {}
      BY <1>5, <1>6 DEF Tabs, Pgs
    <3>. QED  BY <1>0, <1>1, <1>4, <3>1, <3>2 DEF Forest, TypeOK
  <2>2. used = Entries
    BY <1>0 DEF Init
  <2>. QED  BY <1>0, <1>3, <1>4, <1>5, <1>6, <1>7, <2>1, <2>2 DEF Parts
<1>10. CallOK
  <2>1. Maps(kernel_dir) = {}
    BY <1>0, <1>2, PageEntry DEF Maps, MapsIn, PageAt
  <2>2. 0 \in Procs
    BY VmAssumption DEF Procs
  <2>. QED  BY <1>3, <2>1, <2>2 DEF Init, CallOK
<1>11. Heap
  <2>1. \A v \in UserPages : ~(v * PAGE_SIZE < 0)
    BY UserIsPage, Constants
  <2>. QED  BY <2>1 DEF Heap, Init
<1>. QED  BY <1>1, <1>8, <1>9, <1>10, <1>11 DEF VInv

LEMMA VmStep == VInv /\ [Safe]_vars => VInv'
<1>. SUFFICES ASSUME VInv, [Safe]_vars  PROVE VInv'
  OBVIOUS
<1>1. CASE UNCHANGED vars
  <2>1. UNCHANGED <<used, table, data, scratch, live, page_dir, brk, base, op, cur, child, dir, todo,
                    copied, image, goal>>
    BY <1>1 DEF vars, memVars, procVars, callVars
  <2>2. TypeOK'
    BY <2>1 DEF VInv, TypeOK
  <2>3. UNCHANGED <<Dirs, LiveDirs, NewDir, CopySet, CopyFrames>>
    BY <2>1 DEF Dirs, LiveDirs, NewDir, CopySet, Copies, CopyFrames
  <2>4. Identity' /\ Parts'
    BY <2>1, <2>3, SameFrames DEF VInv, Parts
  <2>5. CallOK'
    BY <2>1 DEF VInv, CallOK, Copies, Maps
  <2>6. Heap'
    BY <2>1 DEF VInv, Heap, Maps
  <2>. QED  BY <2>2, <2>4, <2>5, <2>6 DEF VInv
<1>2. CASE elf_load /\ Backed(dir, Min(todo), 1)
  BY <1>2, ElfLoad
<1>3. CASE load_program
  BY <1>3, LoadProgram
<1>4. CASE \/ map_user_stack /\ Backed(dir, Min(todo), 1)
           \/ exec_stack /\ Backed(dir, Max(todo), 1)
  BY <1>4, Stacks
<1>5. CASE exec_fails \/ fork_fails
  BY <1>5, CallFails
<1>6. CASE exec_commit
  BY <1>6, ExecCommit
<1>7. CASE fork_copy
  BY <1>7, ForkCopy
<1>8. CASE fork_copied
  BY <1>8, ForkCopied
<1>9. CASE fork_returns
  BY <1>9, ForkReturns
<1>10. CASE fork_install /\ Backed(dir, Min(todo), 0)
  BY <1>10, ForkInstall
<1>11. CASE sbrk_page /\ Backed(page_dir[cur], Min(todo), 1)
  BY <1>11, SbrkPage
<1>12. CASE sbrk_fails \/ sbrk_grown
  BY <1>12, SbrkEnds
<1>13. ASSUME NEW p \in Procs, process_fork(p),
              Cardinality(Free(used)) >= (IF scratch = Absent THEN 2 ELSE 1)
       PROVE  VInv'
  BY <1>13, Fork
<1>14. ASSUME NEW p \in Procs, NEW img \in Images, process_execve(p, img),
              Cardinality(Free(used)) >= (IF scratch = Absent THEN 2 ELSE 1)
       PROVE  VInv'
  BY <1>14, Execve
<1>15. ASSUME NEW p \in Procs, process_exit(p)  PROVE VInv'
  BY <1>15, Exit
<1>16. ASSUME NEW p \in Procs, NEW inc \in Increments, sbrk_grow(p, inc)  PROVE VInv'
  BY <1>16, SbrkGrow
<1>17. ASSUME NEW p \in Procs, NEW inc \in Increments, sbrk_shrink(p, inc),
              Want(p, inc) >= ENTRIES * PAGE_SIZE
       PROVE  VInv'
  BY <1>17, SbrkShrink
<1>18. ASSUME NEW p \in Procs, NEW v \in UserPages, NEW x \in Values, user_write(p, v, x)  PROVE VInv'
  BY <1>18, UserWrite
<1>. QED  BY <1>1, <1>2, <1>3, <1>4, <1>5, <1>6, <1>7, <1>8, <1>9, <1>10, <1>11, <1>12, <1>13, <1>14,
             <1>15, <1>16, <1>17, <1>18 DEF Safe

\* Every step of fork, execve, exit and sbrk, the failing ones included, keeps the
\* directories, tables, pages, copies and the scratch table apart and accounted
\* for, and every page between a program's image and its break mapped.
THEOREM VmInvariance == Spec => []VInv
BY InitVInv, VmStep, PTL DEF Spec

\* Every variable of the address spaces keeps its type.
THEOREM VmTypeTheorem == Spec => []TypeOK
<1>1. VInv => TypeOK
  BY DEF VInv
<1>. QED  BY <1>1, VmInvariance, PTL

\* A page between the end of the image and the break of a process is mapped,
\* whatever growth failed half way and whatever shrinking there was (syscall.c).
THEOREM HeapBackedTheorem == Spec => []HeapBacked
<1>1. VInv => HeapBacked
  <2>. SUFFICES ASSUME VInv  PROVE HeapBacked
    OBVIOUS
  <2>1. \A D, v : v \in Maps(D) => Mapped(D, v)
    BY MappedIs DEF Maps, MapsIn
  <2>. QED  BY <2>1 DEF VInv, Heap, HeapBacked
<1>. QED  BY <1>1, VmInvariance, PTL

\* What each kind of place holds.
LEMMA PlaceHolds ==
  /\ \A p : FrameAt(<<"dir", p>>) = page_dir[p]
  /\ FrameAt(<<"new">>) = dir /\ FrameAt(<<"scratch">>) = scratch
  /\ \A D, d : FrameAt(<<"table", <<D, d>>>>) = table[D][d]
  /\ \A T, e : FrameAt(<<"page", <<T, e>>>>) = table[T][e]
  /\ \A v : FrameAt(<<"copy", v>>) = copied[v]
BY DEF FrameAt

IsDir(r) == \E p \in Procs : live[p] /\ page_dir[p] # kernel_dir /\ r = <<"dir", p>>
IsNew(r) == NewDir /\ r = <<"new">>
IsTable(r) == \E D \in Dirs, d \in User : table[D][d] # Absent /\ r = <<"table", <<D, d>>>>
IsPage(r) == \E T \in Tabs, e \in Entries : table[T][e] # Absent /\ r = <<"page", <<T, e>>>>
IsCopy(r) == \E v \in CopySet : r = <<"copy", v>>
IsScratch(r) == scratch # Absent /\ r = <<"scratch">>

LEMMA PlaceKinds ==
  ASSUME VInv
  PROVE  \A r : r \in Places <=> \/ IsDir(r) \/ IsNew(r) \/ IsTable(r)
                                 \/ IsPage(r) \/ IsCopy(r) \/ IsScratch(r)
<1>0. /\ table \in [Frames -> [Entries -> Frames \cup {Absent}]] /\ Dirs \subseteq Frames
      /\ Absent \notin Frames /\ User = Entries \ {0} /\ Tabs \subseteq Frames
  BY Constants DEF VInv, Parts, Forest, User, Tabs, Tables
<1>1. \A r : r \in {<<"table", q>> : q \in TablePlaces} <=> IsTable(r)
  BY <1>0 DEF TablePlaces, IsTable
<1>2. {table[q[1]][q[2]] : q \in TablePlaces} = Tabs
  <2>1. ASSUME NEW q \in TablePlaces  PROVE table[q[1]][q[2]] \in Tabs
    <3>1. q[1] \in Dirs /\ q[2] \in User /\ table[q[1]][q[2]] # Absent
      BY <1>0 DEF TablePlaces
    <3>. QED  BY <1>0, <3>1 DEF Tabs, Tables
  <2>2. ASSUME NEW T \in Tabs  PROVE \E q \in TablePlaces : table[q[1]][q[2]] = T
    <3>1. PICK D \in Dirs, d \in User : table[D][d] = T
      BY DEF Tabs, Tables
    <3>2. T # Absent
      BY <1>0
    <3>3. <<D, d>> \in TablePlaces
      BY <1>0, <3>1, <3>2 DEF TablePlaces
    <3>4. table[<<D, d>>[1]][<<D, d>>[2]] = T
      BY <3>1
    <3>. QED  BY <3>3, <3>4
  <2>. QED  BY <2>1, <2>2
<1>3. PagePlaces = {q \in Tabs \X Entries : table[q[1]][q[2]] # Absent}
  BY <1>2 DEF PagePlaces
<1>4. \A r : r \in {<<"page", q>> : q \in PagePlaces} <=> IsPage(r)
  BY <1>3 DEF IsPage
<1>5. \A r : r \in {<<"dir", p>> : p \in {q \in Procs : live[q] /\ page_dir[q] # kernel_dir}} <=> IsDir(r)
  BY DEF IsDir
<1>6. \A r : r \in (IF NewDir THEN {<<"new">>} ELSE {}) <=> IsNew(r)
  BY DEF IsNew
<1>7. \A r : r \in {<<"copy", v>> : v \in IF op = "install" THEN todo ELSE Copies} <=> IsCopy(r)
  BY DEF IsCopy, CopySet
<1>8. \A r : r \in (IF scratch = Absent THEN {} ELSE {<<"scratch">>}) <=> IsScratch(r)
  BY DEF IsScratch
<1>. QED  BY <1>1, <1>4, <1>5, <1>6, <1>7, <1>8 DEF Places

\* Each kind of place holds frames of one part.
LEMMA PlaceParts ==
  ASSUME VInv
  PROVE  /\ \A r : IsDir(r) => FrameAt(r) \in Dirs \ {kernel_dir}
         /\ \A r : IsNew(r) => FrameAt(r) \in Dirs \ {kernel_dir}
         /\ \A r : IsTable(r) => FrameAt(r) \in Tabs
         /\ \A r : IsPage(r) => FrameAt(r) \in Pgs
         /\ \A r : IsCopy(r) => FrameAt(r) \in CopyFrames
         /\ \A r : IsScratch(r) => FrameAt(r) \in Scratch
<1>0. /\ table \in [Frames -> [Entries -> Frames \cup {Absent}]] /\ Dirs \subseteq Frames
      /\ User \subseteq Entries /\ Tabs \subseteq Frames
  BY Constants DEF VInv, Parts, Forest, Tabs, Tables
<1>1. \A r : IsDir(r) => FrameAt(r) \in Dirs \ {kernel_dir}
  BY PlaceHolds DEF IsDir, Dirs
<1>2. \A r : IsNew(r) => FrameAt(r) \in Dirs \ {kernel_dir}
  BY PlaceHolds DEF IsNew, Dirs, NewDir
<1>3. \A r : IsTable(r) => FrameAt(r) \in Tabs
  BY <1>0, PlaceHolds DEF IsTable, Tabs, Tables
<1>4. \A r : IsPage(r) => FrameAt(r) \in Pgs
  <2>1. \A T \in Tabs, e \in Entries : table[T][e] # Absent => table[T][e] \in Pgs
    BY <1>0 DEF Pgs, PagesOf, Tabs
  <2>. QED  BY <2>1, PlaceHolds DEF IsPage
<1>5. \A r : IsCopy(r) => FrameAt(r) \in CopyFrames
  BY PlaceHolds DEF IsCopy, CopyFrames
<1>6. \A r : IsScratch(r) => FrameAt(r) \in Scratch
  BY PlaceHolds DEF IsScratch, Scratch
<1>. QED  BY <1>1, <1>2, <1>3, <1>4, <1>5, <1>6

\* No two places of a kind hold the same frame.
LEMMA PlaceInjective ==
  ASSUME VInv, NEW r, NEW s, FrameAt(r) = FrameAt(s),
         \/ (IsDir(r) \/ IsNew(r)) /\ (IsDir(s) \/ IsNew(s))
         \/ IsTable(r) /\ IsTable(s)
         \/ IsPage(r) /\ IsPage(s)
         \/ IsCopy(r) /\ IsCopy(s)
         \/ IsScratch(r) /\ IsScratch(s)
  PROVE  r = s
<1>0. Parts
  BY DEF VInv
<1>1. CASE IsDir(r) /\ IsDir(s)
  <2>1. PICK p \in Procs : live[p] /\ r = <<"dir", p>>
    BY <1>1 DEF IsDir
  <2>2. PICK q \in Procs : live[q] /\ s = <<"dir", q>>
    BY <1>1 DEF IsDir
  <2>3. page_dir[p] = page_dir[q]
    BY <2>1, <2>2, PlaceHolds
  <2>4. p = q
    BY <1>0, <2>1, <2>2, <2>3 DEF Parts
  <2>. QED  BY <2>1, <2>2, <2>4
<1>2. ASSUME NEW x, NEW y, IsDir(x), IsNew(y), FrameAt(x) = FrameAt(y)  PROVE FALSE
  <2>1. PICK p \in Procs : live[p] /\ x = <<"dir", p>>
    BY <1>2 DEF IsDir
  <2>2. page_dir[p] = dir /\ NewDir
    BY <1>2, <2>1, PlaceHolds DEF IsNew
  <2>. QED  BY <1>0, <2>1, <2>2 DEF Parts, LiveDirs
<1>3. CASE IsNew(r) /\ IsNew(s)
  BY <1>3 DEF IsNew
<1>4. CASE IsTable(r) /\ IsTable(s)
  <2>1. PICK D1 \in Dirs, d1 \in User : table[D1][d1] # Absent /\ r = <<"table", <<D1, d1>>>>
    BY <1>4 DEF IsTable
  <2>2. PICK D2 \in Dirs, d2 \in User : table[D2][d2] # Absent /\ s = <<"table", <<D2, d2>>>>
    BY <1>4 DEF IsTable
  <2>3. table[D1][d1] = table[D2][d2]
    BY <2>1, <2>2, PlaceHolds
  <2>4. D1 = D2 /\ d1 = d2
    BY <1>0, <2>1, <2>2, <2>3 DEF Parts, Forest
  <2>. QED  BY <2>1, <2>2, <2>4
<1>5. CASE IsPage(r) /\ IsPage(s)
  <2>1. PICK T1 \in Tabs, e1 \in Entries : table[T1][e1] # Absent /\ r = <<"page", <<T1, e1>>>>
    BY <1>5 DEF IsPage
  <2>2. PICK T2 \in Tabs, e2 \in Entries : table[T2][e2] # Absent /\ s = <<"page", <<T2, e2>>>>
    BY <1>5 DEF IsPage
  <2>3. table[T1][e1] = table[T2][e2]
    BY <2>1, <2>2, PlaceHolds
  <2>4. T1 = T2 /\ e1 = e2
    BY <1>0, <2>1, <2>2, <2>3 DEF Parts, Forest, Tabs
  <2>. QED  BY <2>1, <2>2, <2>4
<1>6. CASE IsCopy(r) /\ IsCopy(s)
  <2>1. PICK v \in CopySet : r = <<"copy", v>>
    BY <1>6 DEF IsCopy
  <2>2. PICK w \in CopySet : s = <<"copy", w>>
    BY <1>6 DEF IsCopy
  <2>3. copied[v] = copied[w]
    BY <2>1, <2>2, PlaceHolds
  <2>4. v = w
    BY <1>0, <2>3 DEF Parts
  <2>. QED  BY <2>1, <2>2, <2>4
<1>7. CASE IsScratch(r) /\ IsScratch(s)
  BY <1>7 DEF IsScratch
<1>. QED  BY <1>1, <1>2, <1>3, <1>4, <1>5, <1>6, <1>7

\* A frame that is used, and not the kernel's, is in exactly one place: no call
\* leaks a frame, shares one, or frees one that is still mapped, at any of the
\* points where it can run out of memory (process.c, paging.c).
THEOREM FramesExactTheorem == Spec => []FramesExact
<1>1. VInv => FramesExact
  <2>. SUFFICES ASSUME VInv  PROVE FramesExact
    OBVIOUS
  <2>0. Parts
    BY DEF VInv
  <2>1. /\ used = Reserved \cup Dirs \cup Tabs \cup Pgs \cup CopyFrames \cup Scratch
        /\ Scratch \cap (Reserved \cup Dirs \cup Tabs \cup Pgs \cup CopyFrames) = {}
        /\ CopyFrames \cap (Reserved \cup Dirs \cup Tabs \cup Pgs) = {}
        /\ Tabs \cap Reserved = {} /\ Pgs \cap Reserved = {} /\ Dirs \cap Reserved = {kernel_dir}
        /\ Dirs \cap Tabs = {} /\ Dirs \cap Pgs = {} /\ Tabs \cap Pgs = {}
    BY <2>0 DEF Parts, Forest, Tabs, Pgs
  <2>2. ASSUME NEW r \in Places, NEW s \in Places, FrameAt(r) = FrameAt(s)  PROVE r = s
    <3>1. \/ (IsDir(r) \/ IsNew(r)) /\ (IsDir(s) \/ IsNew(s))
          \/ IsTable(r) /\ IsTable(s)
          \/ IsPage(r) /\ IsPage(s)
          \/ IsCopy(r) /\ IsCopy(s)
          \/ IsScratch(r) /\ IsScratch(s)
      BY <2>1, <2>2, PlaceKinds, PlaceParts
    <3>. QED  BY <2>2, <3>1, PlaceInjective
  <2>3. \A r \in Places : FrameAt(r) \notin Reserved /\ FrameAt(r) \in used
    BY <2>1, PlaceKinds, PlaceParts
  <2>4. ASSUME NEW f \in used \ Reserved  PROVE \E r \in Places : FrameAt(r) = f
    <3>1. CASE f \in Dirs
      <4>1. f # kernel_dir
        BY <2>1
      <4>2. (\E p \in Procs : live[p] /\ page_dir[p] = f) \/ (NewDir /\ dir = f)
        BY <3>1, <4>1 DEF Dirs
      <4>3. CASE \E p \in Procs : live[p] /\ page_dir[p] = f
        <5>1. PICK p \in Procs : live[p] /\ page_dir[p] = f
          BY <4>3
        <5>2. IsDir(<<"dir", p>>) /\ FrameAt(<<"dir", p>>) = f
          BY <4>1, <5>1, PlaceHolds DEF IsDir
        <5>. QED  BY <5>2, PlaceKinds
      <4>4. CASE NewDir /\ dir = f
        <5>1. IsNew(<<"new">>) /\ FrameAt(<<"new">>) = f
          BY <4>4, PlaceHolds DEF IsNew
        <5>. QED  BY <5>1, PlaceKinds
      <4>. QED  BY <4>2, <4>3, <4>4
    <3>2. CASE f \in Tabs
      <4>1. PICK D \in Dirs, d \in User : table[D][d] = f
        BY <3>2 DEF Tabs, Tables
      <4>2. f # Absent
        BY <3>2, Constants DEF Tabs, Tables
      <4>3. IsTable(<<"table", <<D, d>>>>) /\ FrameAt(<<"table", <<D, d>>>>) = f
        BY <4>1, <4>2, PlaceHolds DEF IsTable
      <4>. QED  BY <4>3, PlaceKinds
    <3>3. CASE f \in Pgs
      <4>1. PICK T \in Tabs, e \in Entries : table[T][e] = f
        BY <3>3 DEF Pgs, PagesOf, Tabs
      <4>2. f # Absent
        BY <3>3, Constants DEF Pgs, PagesOf
      <4>3. IsPage(<<"page", <<T, e>>>>) /\ FrameAt(<<"page", <<T, e>>>>) = f
        BY <4>1, <4>2, PlaceHolds DEF IsPage
      <4>. QED  BY <4>3, PlaceKinds
    <3>4. CASE f \in CopyFrames
      <4>1. PICK v \in CopySet : copied[v] = f
        BY <3>4 DEF CopyFrames
      <4>2. IsCopy(<<"copy", v>>) /\ FrameAt(<<"copy", v>>) = f
        BY <4>1, PlaceHolds DEF IsCopy
      <4>. QED  BY <4>2, PlaceKinds
    <3>5. CASE f \in Scratch
      <4>1. IsScratch(<<"scratch">>) /\ FrameAt(<<"scratch">>) = f
        BY <3>5, PlaceHolds DEF IsScratch, Scratch
      <4>. QED  BY <4>1, PlaceKinds
    <3>. QED  BY <2>1, <3>1, <3>2, <3>3, <3>4, <3>5
  <2>5. used = Reserved \cup {FrameAt(r) : r \in Places}
    BY <2>1, <2>3, <2>4
  <2>. QED  BY <2>2, <2>3, <2>5 DEF FramesExact
<1>. QED  BY <1>1, VmInvariance, PTL

-----------------------------------------------------------------------------
(* Pointers. *)

\* An address that has not wrapped is itself; one that has is below where it came
\* from.
LEMMA Wrapped ==
  ASSUME NEW n \in Nat \ {0}, NEW x \in 0 .. 2 * n - 1
  PROVE  x % n = IF x < n THEN x ELSE x - n
<1>1. CASE x < n
  <2>1. x \in 0 .. n - 1 /\ x = n * 0 + x /\ 0 \in Nat
    BY <1>1
  <2>2. (n * 0 + x) % n = x
    BY <2>1, DivUnique
  <2>. QED  BY <1>1, <2>1, <2>2
<1>2. CASE ~(x < n)
  <2>1. x - n \in 0 .. n - 1 /\ x = n * 1 + (x - n) /\ 1 \in Nat
    BY <1>2
  <2>2. (n * 1 + (x - n)) % n = x - n
    BY <2>1, DivUnique
  <2>. QED  BY <1>2, <2>1, <2>2
<1>. QED  BY <1>1, <1>2

\* The page of an address in the user part.
LEMMA PageOfAddress ==
  ASSUME NEW a \in Nat, a < USER_LIMIT
  PROVE  a \div PAGE_SIZE \in Pages /\ PAGE_SIZE * (a \div PAGE_SIZE) <= a
<1>0. PAGE_SIZE \in Nat \ {0} /\ ENTRIES * ENTRIES \in Nat
  BY VmAssumption
<1>1. PICK q \in Nat, r \in 0 .. PAGE_SIZE - 1 : a \div PAGE_SIZE = q /\ a = PAGE_SIZE * q + r
  BY <1>0, DivMod
<1>2. USER_LIMIT = PAGE_SIZE * (ENTRIES * ENTRIES)
  BY VmAssumption DEF USER_LIMIT
<1>3. q < ENTRIES * ENTRIES
  BY <1>0, <1>1, <1>2, DivLess
<1>4. PAGE_SIZE * q \in Nat
  BY <1>0, <1>1
<1>5. PAGE_SIZE * q <= a
  BY <1>1, <1>4
<1>. QED  BY <1>0, <1>1, <1>3, <1>5 DEF Pages

\* The pages that user_range_ok looks at are those of the addresses of the range.
LEMMA RangePages ==
  ASSUME NEW D, NEW addr \in Nat, NEW end \in Nat, addr < end, end <= USER_LIMIT
  PROVE  (\A v \in Pages : addr \div PAGE_SIZE <= v /\ v * PAGE_SIZE < end => paging_is_user(D, v))
         <=> (\A a \in addr .. end - 1 : paging_is_user(D, a \div PAGE_SIZE))
<1>0. PAGE_SIZE \in Nat \ {0} /\ USER_LIMIT \in Nat /\ Pages \subseteq Nat
  BY VmAssumption, Addresses DEF Pages
<1>1. ASSUME NEW a \in addr .. end - 1
      PROVE  /\ a \div PAGE_SIZE \in Pages /\ addr \div PAGE_SIZE <= a \div PAGE_SIZE
             /\ (a \div PAGE_SIZE) * PAGE_SIZE < end
  <2>1. a \in Nat /\ a < USER_LIMIT /\ addr < USER_LIMIT
    BY <1>0
  <2>2. PICK q \in Nat : q = a \div PAGE_SIZE
    BY <2>1, PageOfAddress, <1>0
  <2>3. q \in Pages /\ PAGE_SIZE * q <= a
    BY <2>1, <2>2, PageOfAddress
  <2>4. PICK q2 \in Nat : q2 = addr \div PAGE_SIZE
    BY <2>1, PageOfAddress, <1>0
  <2>5. PAGE_SIZE * q2 <= addr
    BY <2>1, <2>4, PageOfAddress
  <2>6. q2 <= q
    <3>1. PAGE_SIZE * q2 <= a
      <4>1. PAGE_SIZE * q2 \in Nat
        BY <1>0
      <4>. QED  BY <2>1, <2>5, <4>1
    <3>. QED  BY <1>0, <2>1, <2>2, <3>1, DivLess
  <2>7. q * PAGE_SIZE < end
    <3>1. q * PAGE_SIZE = PAGE_SIZE * q /\ PAGE_SIZE * q \in Nat
      BY <1>0
    <3>. QED  BY <2>1, <2>3, <3>1
  <2>. QED  BY <2>2, <2>3, <2>4, <2>6, <2>7
<1>2. ASSUME NEW v \in Pages, addr \div PAGE_SIZE <= v, v * PAGE_SIZE < end
      PROVE  \E a \in addr .. end - 1 : a \div PAGE_SIZE = v
  <2>1. v \in Nat /\ v * PAGE_SIZE = PAGE_SIZE * v /\ PAGE_SIZE * v \in Nat
    BY <1>0
  <2>2. CASE addr <= PAGE_SIZE * v
    <3>1. (PAGE_SIZE * v + 0) \div PAGE_SIZE = v
      <4>1. 0 \in 0 .. PAGE_SIZE - 1
        BY <1>0
      <4>. QED  BY <1>0, <2>1, <4>1, DivUnique
    <3>2. PAGE_SIZE * v + 0 \in addr .. end - 1
      BY <1>2, <2>1, <2>2
    <3>. QED  BY <3>1, <3>2
  <2>3. CASE PAGE_SIZE * v < addr
    <3>1. v <= addr \div PAGE_SIZE
      <4>1. PAGE_SIZE * v <= addr
        BY <2>1, <2>3
      <4>. QED  BY <1>0, <2>1, <4>1, DivLess
    <3>2. PICK q2 \in Nat : q2 = addr \div PAGE_SIZE
      BY <1>0, DivMod
    <3>3. addr \div PAGE_SIZE = v
      BY <1>2, <2>1, <3>1, <3>2
    <3>. QED  BY <3>3
  <2>. QED  BY <2>1, <2>2, <2>3
<1>. QED  BY <1>1, <1>2

\* user_range_ok accepts exactly the ranges of the caller's own bytes.
LEMMA RangeChecked ==
  ASSUME NEW D, NEW addr \in 0 .. AddressTop - 1, NEW len \in 0 .. AddressTop - 1
  PROVE  user_range_ok(D, addr, len) <=> \A i \in 0 .. len - 1 : Own(D, addr + i)
<1>0. AddressTop \in Nat \ {0} /\ USER_LIMIT \in Nat /\ USER_LIMIT < AddressTop
  BY VmAssumption, Addresses
<1>1. CASE len = 0
  BY <1>1 DEF user_range_ok
<1>2. CASE len # 0 /\ addr + len >= AddressTop
  <2>1. addr + len \in 0 .. 2 * AddressTop - 1
    BY <1>0
  <2>2. (addr + len) % AddressTop = (addr + len) - AddressTop
    <3>1. PICK x : x = addr + len
      OBVIOUS
    <3>2. x \in 0 .. 2 * AddressTop - 1 /\ ~(x < AddressTop)
      BY <1>0, <1>2, <2>1, <3>1
    <3>3. x % AddressTop = IF x < AddressTop THEN x ELSE x - AddressTop
      BY <1>0, <3>2, Wrapped
    <3>4. x % AddressTop = x - AddressTop
      BY <3>2, <3>3
    <3>. QED  BY <3>1, <3>4
  <2>3. ~user_range_ok(D, addr, len)
    <3>1. ~((addr + len) % AddressTop >= addr)
      BY <1>0, <2>2
    <3>. QED  BY <1>2, <3>1 DEF user_range_ok
  <2>4. AddressTop - 1 - addr \in 0 .. len - 1 /\ ~Own(D, addr + (AddressTop - 1 - addr))
    <3>1. AddressTop - 1 - addr \in 0 .. len - 1 /\ addr + (AddressTop - 1 - addr) = AddressTop - 1
      BY <1>0, <1>2
    <3>2. ~(AddressTop - 1 < USER_LIMIT)
      BY <1>0
    <3>. QED  BY <3>1, <3>2 DEF Own
  <2>. QED  BY <2>3, <2>4
<1>3. CASE len # 0 /\ addr + len < AddressTop
  <2>. DEFINE end == addr + len
  <2>1. end \in Nat /\ end \in 0 .. 2 * AddressTop - 1 /\ addr \in Nat /\ addr < end
    BY <1>0, <1>3
  <2>2. (addr + len) % AddressTop = end
    BY <1>0, <1>3, <2>1, Wrapped
  <2>3. (\A i \in 0 .. len - 1 : Own(D, addr + i)) <=> (\A a \in addr .. end - 1 : Own(D, a))
    <3>1. \A i \in 0 .. len - 1 : addr + i \in addr .. end - 1
      BY <1>0
    <3>2. \A a \in addr .. end - 1 : a - addr \in 0 .. len - 1 /\ addr + (a - addr) = a
      BY <1>0
    <3>. QED  BY <3>1, <3>2
  <2>4. user_range_ok(D, addr, len) <=>
          /\ end <= USER_LIMIT
          /\ \A v \in Pages : addr \div PAGE_SIZE <= v /\ v * PAGE_SIZE < end => paging_is_user(D, v)
    <3>1. end <= USER_LIMIT => addr < USER_LIMIT
      BY <1>0, <2>1
    <3>2. end >= addr
      BY <2>1
    <3>. HIDE DEF end
    <3>. QED  BY <1>3, <2>2, <3>1, <3>2 DEF user_range_ok
  <2>. HIDE DEF end
  <2>5. CASE end <= USER_LIMIT
    <3>1. \A a \in addr .. end - 1 : a < USER_LIMIT
      BY <1>0, <2>1, <2>5
    <3>2. (\A v \in Pages : addr \div PAGE_SIZE <= v /\ v * PAGE_SIZE < end => paging_is_user(D, v))
          <=> (\A a \in addr .. end - 1 : paging_is_user(D, a \div PAGE_SIZE))
      BY <2>1, <2>5, RangePages
    <3>. QED  BY <2>3, <2>4, <2>5, <3>1, <3>2 DEF Own
  <2>6. CASE ~(end <= USER_LIMIT)
    <3>1. end - 1 \in addr .. end - 1 /\ ~(end - 1 < USER_LIMIT)
      BY <1>0, <2>1, <2>6
    <3>. QED  BY <2>3, <2>4, <2>6, <3>1 DEF Own
  <2>. QED  BY <2>5, <2>6
<1>. QED
  <2>1. addr + len >= AddressTop \/ addr + len < AddressTop
    BY <1>0
  <2>. QED  BY <1>1, <1>2, <1>3, <2>1

\* A string is followed to address s + n only if it has not wrapped by then.
LEMMA StringChecked ==
  ASSUME NEW D, NEW s \in 0 .. AddressTop - 1, NEW n \in 0 .. AddressTop - 1
  PROVE  /\ (\A i \in 0 .. n : user_range_ok(D, (s + i) % AddressTop, 1))
            <=> (\A i \in 0 .. n : Own(D, s + i))
         /\ (\A i \in 0 .. n : Own(D, s + i)) => (s + n) % AddressTop = s + n
<1>0. /\ AddressTop \in Nat \ {0} /\ USER_LIMIT \in Nat /\ USER_LIMIT < AddressTop
      /\ 1 \in 0 .. AddressTop - 1
  <2>1. USER_LIMIT >= 1
    <3>1. PAGE_SIZE \in Nat \ {0} /\ ENTRIES \in Nat \ {0}
      BY Constants
    <3>. QED  BY <3>1 DEF USER_LIMIT
  <2>. QED  BY <2>1, VmAssumption, Addresses
<1>1. ASSUME NEW a \in 0 .. AddressTop - 1  PROVE user_range_ok(D, a, 1) <=> Own(D, a)
  <2>1. user_range_ok(D, a, 1) <=> \A i \in 0 .. 1 - 1 : Own(D, a + i)
    BY <1>0, RangeChecked
  <2>2. 0 .. 1 - 1 = {0} /\ a + 0 = a
    BY <1>0
  <2>. QED  BY <2>1, <2>2
<1>2. \A i \in 0 .. n : s + i \in 0 .. 2 * AddressTop - 1
  BY <1>0
<1>3. CASE s + n < AddressTop
  <2>1. \A i \in 0 .. n : s + i \in 0 .. AddressTop - 1 /\ (s + i) % AddressTop = s + i
    <3>1. \A i \in 0 .. n : s + i < AddressTop
      BY <1>0, <1>3
    <3>2. \A i \in 0 .. n : (s + i) % AddressTop = s + i
      BY <1>0, <1>2, <3>1, Wrapped
    <3>. QED  BY <1>0, <1>2, <3>1, <3>2
  <2>2. n \in 0 .. n
    BY <1>0
  <2>. QED  BY <1>1, <2>1, <2>2
<1>4. CASE ~(s + n < AddressTop)
  <2>. DEFINE i == AddressTop - 1 - s
  <2>1. i \in 0 .. n /\ s + i = AddressTop - 1 /\ AddressTop - 1 \in 0 .. AddressTop - 1
    BY <1>0, <1>4
  <2>2. (AddressTop - 1) % AddressTop = AddressTop - 1
    <3>1. AddressTop - 1 \in 0 .. 2 * AddressTop - 1 /\ AddressTop - 1 < AddressTop
      BY <1>0
    <3>. QED  BY <1>0, <3>1, Wrapped
  <2>3. ~Own(D, AddressTop - 1)
    <3>1. ~(AddressTop - 1 < USER_LIMIT)
      BY <1>0
    <3>. QED  BY <3>1 DEF Own
  <2>4. ~user_range_ok(D, (s + i) % AddressTop, 1) /\ ~Own(D, s + i)
    BY <1>1, <2>1, <2>2, <2>3
  <2>. QED  BY <2>1, <2>4
<1>. QED  BY <1>3, <1>4

\* syscall.c accepts a pointer exactly if all that is behind it is the caller's,
\* for every address and every length of 32 bits: no range or string that wraps or
\* crosses the limit passes, and none that is the caller's is refused.
THEOREM PointersTheorem == Spec => []PointersChecked
<1>1. VInv => PointersChecked
  <2>. SUFFICES ASSUME VInv, op = "user", NEW p \in Procs, live[p],
                       NEW addr \in 0 .. AddressTop - 1, NEW len \in Lengths
                PROVE  /\ user_range_ok(page_dir[p], addr, len) <=>
                            \A i \in 0 .. len - 1 : Own(page_dir[p], addr + i)
                       /\ user_string_ok(page_dir[p], addr, len) <=>
                            \E n \in 0 .. len - 1 :
                               /\ \A i \in 0 .. n : Own(page_dir[p], addr + i)
                               /\ View(p)[(addr + n) \div PAGE_SIZE] = 0
    BY DEF PointersChecked
  <2>1. PICK D : D = page_dir[p]
    OBVIOUS
  <2>2. len \in 0 .. AddressTop - 1
    BY VmAssumption
  <2>3. user_range_ok(D, addr, len) <=> \A i \in 0 .. len - 1 : Own(D, addr + i)
    BY <2>2, RangeChecked
  <2>4. ASSUME NEW n \in 0 .. len - 1
        PROVE  (/\ \A i \in 0 .. n : user_range_ok(D, (addr + i) % AddressTop, 1)
                /\ Byte(D, (addr + n) % AddressTop) = 0) <=>
               (/\ \A i \in 0 .. n : Own(D, addr + i)
                /\ View(p)[(addr + n) \div PAGE_SIZE] = 0)
    <3>1. n \in 0 .. AddressTop - 1 /\ n \in 0 .. n
      BY <2>2, Addresses
    <3>2. /\ (\A i \in 0 .. n : user_range_ok(D, (addr + i) % AddressTop, 1))
             <=> (\A i \in 0 .. n : Own(D, addr + i))
          /\ (\A i \in 0 .. n : Own(D, addr + i)) => (addr + n) % AddressTop = addr + n
      BY <3>1, StringChecked
    <3>3. ASSUME Own(D, addr + n)
          PROVE  View(p)[(addr + n) \div PAGE_SIZE] = Byte(D, addr + n)
      <4>1. PICK v : v = (addr + n) \div PAGE_SIZE
        OBVIOUS
      <4>2. v \in UserPages /\ Mapped(D, v)
        BY <3>3, <4>1 DEF Own, paging_is_user
      <4>3. View(p)[v] = data[Phys(D, v)]
        BY <2>1, <4>2 DEF View, Booting
      <4>. QED  BY <4>1, <4>3 DEF Byte
    <3>. QED  BY <3>1, <3>2, <3>3
  <2>. QED  BY <2>1, <2>3, <2>4 DEF user_string_ok
<1>. QED  BY <1>1, VmInvariance, PTL

-----------------------------------------------------------------------------
(***************************************************************************)
(* The tables implement private memory.  What is loaded, and what has been *)
(* copied, is there until the call shows it to a process.                  *)
(***************************************************************************)
Contents ==
  /\ op = "load" => /\ \A v \in (DOMAIN image) \ todo : Seen(dir)[v] = image[v]
                    /\ dir = kernel_dir => cur = 0
  /\ op \in {"copy", "install"} => \A v \in Copies : data[copied[v]] = Seen(page_dir[cur])[v]
  /\ op = "install" => \A v \in Copies \ todo : Seen(dir)[v] = data[copied[v]]

MInv == VInv /\ Contents

\* The process is there and its pages can be looked at.
Shown(p) == live[p] /\ ~(Booting /\ p = 0)
NoPages == [v \in UserPages |-> -1]

\* What a process finds is what its directory shows.
LEMMA ViewIs ==
  /\ \A p \in Procs : View(p) = IF Shown(p) THEN Seen(page_dir[p]) ELSE NoPages
  /\ \A p \in Procs : View(p)' = IF Shown(p)' THEN SeenIn(table', data', page_dir'[p]) ELSE NoPages
BY DEF View, Shown, Seen, SeenIn, NoPages, Mapped, HasTable, Phys, PageAt, DirOf, EntOf

\* A process whose directory shows the same finds the same.
LEMMA ViewKept ==
  ASSUME NEW q \in Procs, Shown(q)' <=> Shown(q),
         Shown(q) => /\ page_dir'[q] = page_dir[q]
                     /\ SeenIn(table', data', page_dir[q]) = Seen(page_dir[q])
  PROVE  View(q)' = View(q)
BY ViewIs

\* A step that no process sees is a stutter of UserMemory.
LEMMA ViewsKept ==
  ASSUME \A q \in Procs : View(q)' = View(q)
  PROVE  [Memory!Next]_[p \in Procs |-> View(p)]
<1>1. [p \in Procs |-> View(p)]' = [p \in Procs |-> View(p)]
  OBVIOUS
<1>. QED  BY <1>1

\* A step that one process sees changes its pages only.
LEMMA OneView ==
  ASSUME NEW p \in Procs, \A q \in Procs \ {p} : View(q)' = View(q)
  PROVE  Memory!Has(p, View(p)')
BY DEF Memory!Has

\* What a directory of no process shows is the call's own affair.
LEMMA HiddenDir ==
  ASSUME VInv, Contents, op = "load" \/ NewDir, NEW q \in Procs, Shown(q)
  PROVE  page_dir[q] # dir /\ page_dir[q] \in Dirs /\ page_dir[q] \in LiveDirs
<1>0. TypeOK /\ Parts /\ CallOK
  BY DEF VInv
<1>1. live[q] /\ page_dir[q] \in LiveDirs /\ page_dir[q] \in Dirs
  BY <1>0, CallDir DEF Shown, LiveDirs
<1>2. CASE NewDir
  BY <1>0, <1>1, <1>2 DEF Parts
<1>3. CASE op = "load" /\ ~NewDir
  <2>1. dir = kernel_dir /\ cur = 0 /\ live[cur] /\ page_dir[cur] = kernel_dir /\ cur \in Procs
    BY <1>0, <1>3 DEF NewDir, CallOK, Contents, TypeOK
  <2>2. q # 0
    BY <1>3, <2>1 DEF Shown, Booting
  <2>3. page_dir[q] # page_dir[cur]
    BY <1>0, <1>1, <2>1, <2>2 DEF Parts
  <2>. QED  BY <1>1, <2>1, <2>3
<1>. QED  BY <1>1, <1>2, <1>3

\* What elf_load maps is in a directory no process shows yet.
LEMMA ElfLoadMem ==
  ASSUME MInv, elf_load, Backed(dir, Min(todo), 1)
  PROVE  Contents' /\ [Memory!Next]_[p \in Procs |-> View(p)]
<1>. DEFINE v == Min(todo)
<1>0. VInv /\ Contents /\ TypeOK /\ CallOK
  BY DEF MInv, VInv
<1>1. /\ op = "load" /\ todo # {} /\ todo' = todo \ {v}
      /\ UNCHANGED <<live, page_dir, op, cur, dir, copied, image>>
  BY DEF elf_load, procVars
<1>2. \A X \in Dirs : SeenIn(table', data', X) =
         IF X = dir THEN [Seen(X) EXCEPT ![v] = image[v]] ELSE Seen(X)
  BY <1>0, ElfLoad
<1>3. v \in todo /\ v \in UserPages /\ dir \in Dirs /\ todo \subseteq DOMAIN image
      /\ DOMAIN image \subseteq UserPages
  BY <1>0, <1>1, First, CallDir, VmAssumption DEF CallOK
<1>. HIDE DEF v
<1>4. Contents'
  <2>1. Seen(dir)' = [Seen(dir) EXCEPT ![v] = image[v]]
    BY <1>1, <1>2, <1>3 DEF Seen
  <2>2. Seen(dir) = [w \in UserPages |-> Seen(dir)[w]]
    BY DEF Seen, SeenIn
  <2>3. \A w \in (DOMAIN image) \ todo' : Seen(dir)'[w] = image[w]
    BY <1>0, <1>1, <1>3, <2>1, <2>2 DEF Contents
  <2>. QED  BY <1>0, <1>1, <2>3 DEF Contents
<1>5. \A q \in Procs : View(q)' = View(q)
  <2>1. \A q \in Procs : Shown(q)' <=> Shown(q)
    BY <1>1 DEF Shown, Booting
  <2>2. \A q \in Procs : Shown(q) => page_dir[q] # dir /\ page_dir[q] \in Dirs
    BY <1>0, <1>1, HiddenDir
  <2>. QED  BY <1>1, <1>2, <2>1, <2>2, ViewKept
<1>. QED  BY <1>4, <1>5, ViewsKept

\* The pages of a directory that are mapped, and only they, show something.
LEMMA SeenMaps ==
  /\ \A D : Seen(D) = [w \in UserPages |-> Seen(D)[w]]
  /\ \A D, w : w \in UserPages /\ w \notin Maps(D) => Seen(D)[w] = -1
BY DEF Seen, SeenIn, Maps, MapsIn

\* What an image is as the memory of a process.
Loaded(img) == [v \in UserPages |-> IF v \in DOMAIN img THEN img[v] ELSE -1]

\* A program that is loaded is all its directory shows.
LEMMA SeenImage ==
  ASSUME MInv, op = "load", todo = {}
  PROVE  Seen(dir) = Loaded(image) /\ image \in Images
<1>1. Maps(dir) = DOMAIN image /\ image \in Images
  BY DEF MInv, VInv, CallOK
<1>2. \A v \in DOMAIN image : Seen(dir)[v] = image[v]
  BY DEF MInv, Contents
<1>. QED  BY <1>1, <1>2, SeenMaps DEF Loaded

\* A process whose pages become an image has executed it.
LEMMA ExecIs ==
  ASSUME NEW p \in Procs, NEW img \in Images, View(p)' = Loaded(img),
         \A q \in Procs \ {p} : View(q)' = View(q)
  PROVE  Memory!Next
<1>1. Memory!Has(p, Loaded(img))
  BY OneView
<1>2. Memory!Exec(p, img)
  BY <1>1 DEF Memory!Exec, Memory!NoPage, Loaded
<1>. QED  BY <1>2 DEF Memory!Next

\* Process 0 has executed the boot program when load_program returns.
LEMMA LoadProgramMem ==
  ASSUME MInv, load_program
  PROVE  Contents' /\ [Memory!Next]_[p \in Procs |-> View(p)]
<1>0. VInv /\ Contents /\ TypeOK /\ CallOK
  BY DEF MInv, VInv
<1>1. /\ op = "load" /\ dir = kernel_dir /\ todo = {} /\ op' = "boot_stack"
      /\ UNCHANGED <<table, data, live, page_dir, cur, dir>>
  BY DEF load_program, Booting, memVars
<1>2. cur = 0 /\ live[cur] /\ page_dir[cur] = dir /\ cur \in Procs
  BY <1>0, <1>1 DEF CallOK, Contents, TypeOK
<1>3. Contents'
  BY <1>1 DEF Contents
<1>4. View(cur)' = Loaded(image) /\ image \in Images
  <2>1. Shown(cur)'
    BY <1>1, <1>2 DEF Shown, Booting
  <2>2. View(0)' = SeenIn(table', data', page_dir'[0])
    BY <1>1, <1>2, <2>1, ViewIs
  <2>3. View(cur)' = Seen(dir)
    BY <1>1, <1>2, <2>2 DEF Seen
  <2>. QED  BY <1>1, <2>3, SeenImage
<1>5. \A q \in Procs \ {cur} : View(q)' = View(q)
  <2>1. \A q \in Procs \ {cur} : Shown(q)' <=> Shown(q)
    BY <1>1, <1>2 DEF Shown
  <2>. QED  BY <1>1, <2>1, ViewKept DEF Seen
<1>6. Memory!Next
  <2>1. PICK z : z = cur
    OBVIOUS
  <2>2. z \in Procs /\ View(z)' = Loaded(image) /\ \A q \in Procs \ {z} : View(q)' = View(q)
    BY <1>1, <1>2, <1>4, <1>5, <2>1
  <2>3. PICK img : img = image
    OBVIOUS
  <2>. QED  BY <1>4, <2>2, <2>3, ExecIs
<1>. QED  BY <1>3, <1>6

\* Every process finds what it found before.
LEMMA AllKept ==
  ASSUME UNCHANGED <<live, page_dir>>, \A q \in Procs : Shown(q)' <=> Shown(q),
         \A q \in Procs : Shown(q) => SeenIn(table', data', page_dir[q]) = Seen(page_dir[q])
  PROVE  [Memory!Next]_[p \in Procs |-> View(p)]
<1>1. \A q \in Procs : View(q)' = View(q)
  BY ViewKept
<1>. QED  BY <1>1, ViewsKept

\* A page of process p comes to hold x.
LEMMA PageIs ==
  ASSUME NEW p \in Procs, NEW v \in UserPages, NEW x,
         View(p)' = [View(p) EXCEPT ![v] = x],
         \A q \in Procs \ {p} : View(q)' = View(q)
  PROVE  /\ v \in StackPages /\ View(p)[v] = -1 /\ x \in Values => Memory!Next
         /\ v \notin StackPages /\ View(p)[v] = -1 /\ x = 0 => Memory!Next
         /\ View(p)[v] # -1 /\ x \in Values => Memory!Next
<1>1. Memory!Has(p, [View(p) EXCEPT ![v] = x])
  BY OneView
<1>2. v \in StackPages /\ View(p)[v] = -1 => Memory!Stack(p, v, x)
  BY <1>1 DEF Memory!Stack, Memory!NoPage
<1>3. v \notin StackPages /\ View(p)[v] = -1 /\ x = 0 => Memory!Grow(p, v)
  BY <1>1 DEF Memory!Grow, Memory!NoPage
<1>4. View(p)[v] # -1 => Memory!Write(p, v, x)
  BY <1>1 DEF Memory!Write, Memory!NoPage
<1>. QED  BY <1>2, <1>3, <1>4 DEF Memory!Next

\* A page of the stack, for the process whose directory it is.
LEMMA StacksMem ==
  ASSUME MInv, \/ map_user_stack /\ Backed(dir, Min(todo), 1)
               \/ exec_stack /\ Backed(dir, Max(todo), 1)
  PROVE  Contents' /\ [Memory!Next]_[p \in Procs |-> View(p)]
<1>0. VInv /\ TypeOK /\ CallOK /\ Parts
  BY DEF MInv, VInv
<1>1. op \in {"boot_stack", "stack"} /\ op' \in {"boot_stack", "stack", "user"}
      /\ UNCHANGED <<live, page_dir>>
  BY DEF map_user_stack, exec_stack, MapStack, Return, procVars
<1>2. PICK v \in todo, x \in Values : \A X \in Dirs : SeenIn(table', data', X) =
        IF X = dir THEN [Seen(X) EXCEPT ![v] = x] ELSE Seen(X)
  BY <1>0, Stacks
<1>3. v \in StackPages /\ v \in UserPages /\ v \notin Maps(dir)
  BY <1>0, <1>1 DEF CallOK, TypeOK
<1>4. Contents'
  BY <1>1 DEF Contents
<1>5. \A q \in Procs : (Shown(q)' <=> live[q]) /\ (Shown(q) <=> live[q])
  BY <1>1 DEF Shown, Booting
<1>6. \A q \in Procs : live[q] => page_dir[q] \in Dirs
  BY <1>0, CallDir
<1>7. CASE \A q \in Procs : live[q] => page_dir[q] # dir
  BY <1>1, <1>2, <1>4, <1>5, <1>6, <1>7, AllKept
<1>8. ASSUME NEW p \in Procs, live[p], page_dir[p] = dir
      PROVE  Memory!Next
  <2>1. View(p) = Seen(dir) /\ View(p)' = [Seen(dir) EXCEPT ![v] = x]
    BY <1>1, <1>2, <1>5, <1>6, <1>8, ViewIs
  <2>2. \A q \in Procs \ {p} : live[q] => page_dir[q] # dir
    BY <1>0, <1>8 DEF Parts
  <2>3. \A q \in Procs \ {p} : View(q)' = View(q)
    BY <1>1, <1>2, <1>5, <1>6, <2>2, ViewKept
  <2>4. View(p)[v] = -1
    BY <1>3, <2>1, SeenMaps
  <2>. QED  BY <1>3, <2>1, <2>3, <2>4, PageIs
<1>. QED  BY <1>4, <1>7, <1>8

\* A page of the heap, zeroed.
LEMMA SbrkPageMem ==
  ASSUME MInv, sbrk_page, Backed(page_dir[cur], Min(todo), 1)
  PROVE  Contents' /\ [Memory!Next]_[p \in Procs |-> View(p)]
<1>0. VInv /\ TypeOK /\ CallOK /\ Parts
  BY DEF MInv, VInv
<1>1. op = "grow" /\ op' = "grow" /\ todo # {} /\ UNCHANGED <<live, page_dir>>
  BY DEF sbrk_page, procVars
<1>2. PICK v : v = Min(todo)
  OBVIOUS
<1>3. v \in todo /\ v \in UserPages
  BY <1>0, <1>1, <1>2, First
<1>4. PICK c : c = cur
  OBVIOUS
<1>5. c \in Procs /\ live[c] /\ v \notin StackPages /\ v \notin Maps(page_dir[c])
  BY <1>0, <1>1, <1>3, <1>4 DEF CallOK, TypeOK
<1>6. \A X \in Dirs : SeenIn(table', data', X) =
         IF X = page_dir[c] THEN [Seen(X) EXCEPT ![v] = 0] ELSE Seen(X)
  BY <1>0, <1>2, <1>4, SbrkPage
<1>7. \A q \in Procs : (Shown(q)' <=> live[q]) /\ (Shown(q) <=> live[q])
  BY <1>1 DEF Shown, Booting
<1>8. \A q \in Procs : live[q] => page_dir[q] \in Dirs
  BY <1>0, CallDir
<1>9. View(c) = Seen(page_dir[c]) /\ View(c)' = [Seen(page_dir[c]) EXCEPT ![v] = 0]
  BY <1>1, <1>5, <1>6, <1>7, <1>8, ViewIs
<1>10. \A q \in Procs \ {c} : View(q)' = View(q)
  <2>1. \A q \in Procs \ {c} : live[q] => page_dir[q] # page_dir[c]
    BY <1>0, <1>5 DEF Parts
  <2>. QED  BY <1>1, <1>6, <1>7, <1>8, <2>1, ViewKept
<1>11. View(c)[v] = -1
  BY <1>3, <1>5, <1>9, SeenMaps
<1>12. Memory!Next
  BY <1>3, <1>5, <1>9, <1>10, <1>11, PageIs
<1>. QED  BY <1>1, <1>12 DEF Contents

\* A call that fails leaves every process what it had.
LEMMA CallFailsMem ==
  ASSUME MInv, exec_fails \/ fork_fails
  PROVE  Contents' /\ [Memory!Next]_[p \in Procs |-> View(p)]
<1>0. VInv /\ TypeOK /\ CallOK
  BY DEF MInv, VInv
<1>1. op' = "user" /\ UNCHANGED <<live, page_dir>> /\ ~Booting
  BY DEF exec_fails, fork_fails, Return, procVars, Booting
<1>2. Dirs' = LiveDirs \cup {kernel_dir} /\ \A X \in Dirs' : SeenIn(table', data', X) = Seen(X)
  BY <1>0, CallFails
<1>3. \A q \in Procs : (Shown(q)' <=> live[q]) /\ (Shown(q) <=> live[q])
  BY <1>1 DEF Shown, Booting
<1>4. \A q \in Procs : live[q] => page_dir[q] \in Dirs'
  BY <1>2 DEF LiveDirs
<1>. QED  BY <1>1, <1>2, <1>3, <1>4, AllKept DEF Contents

\* Moving the break changes no page.
LEMMA SbrkEndsMem ==
  ASSUME MInv, \/ sbrk_fails \/ sbrk_grown
               \/ \E p \in Procs, inc \in Increments : sbrk_grow(p, inc)
  PROVE  Contents' /\ [Memory!Next]_[p \in Procs |-> View(p)]
<1>1. op' \in {"user", "grow"} /\ op \in {"user", "grow"}
      /\ UNCHANGED <<live, page_dir, table, data>>
  BY DEF sbrk_fails, sbrk_grown, sbrk_grow, Return, memVars, procVars
<1>2. \A q \in Procs : Shown(q)' <=> Shown(q)
  BY <1>1 DEF Shown, Booting
<1>. QED  BY <1>1, <1>2, AllKept DEF Contents, Seen

\* A new directory is not the kernel's.
LEMMA FreshDir ==
  ASSUME VInv, Free(used) # {}
  PROVE  Frame(used) # kernel_dir
<1>1. Frame(used) \notin used
  BY FrameFree DEF VInv, TypeOK
<1>2. kernel_dir \in used
  BY DEF VInv, Parts, Dirs
<1>. QED  BY <1>1, <1>2

\* A new directory shows nothing, and execve shows it to nobody.
LEMMA ExecveMem ==
  ASSUME MInv, NEW p \in Procs, NEW img \in Images, process_execve(p, img),
         Cardinality(Free(used)) >= (IF scratch = Absent THEN 2 ELSE 1)
  PROVE  Contents' /\ [Memory!Next]_[r \in Procs |-> View(r)]
<1>0. VInv /\ TypeOK /\ CallOK
  BY DEF MInv, VInv
<1>1. /\ op = "user" /\ op' = "load" /\ todo' = DOMAIN image' /\ UNCHANGED <<live, page_dir>>
      /\ dir' = Frame(used) /\ Free(used) # {}
  BY DEF process_execve, procVars, paging_new_directory
<1>2. dir' # kernel_dir
  BY <1>0, <1>1, FreshDir
<1>3. \A q \in Procs : (Shown(q)' <=> live[q]) /\ (Shown(q) <=> live[q])
  BY <1>1, <1>2 DEF Shown, Booting
<1>4. \A q \in Procs : live[q] => page_dir[q] \in Dirs
  BY <1>0, CallDir
<1>5. \A X \in Dirs : SeenIn(table', data', X) = Seen(X)
  BY <1>0, Execve
<1>6. Contents'
  BY <1>1, <1>2 DEF Contents, kernel_dir
<1>. QED  BY <1>1, <1>3, <1>4, <1>5, <1>6, AllKept

\* fork begins with a new directory and no copies.
LEMMA ForkMem ==
  ASSUME MInv, NEW p \in Procs, process_fork(p),
         Cardinality(Free(used)) >= (IF scratch = Absent THEN 2 ELSE 1)
  PROVE  Contents' /\ [Memory!Next]_[r \in Procs |-> View(r)]
<1>0. VInv /\ TypeOK /\ CallOK
  BY DEF MInv, VInv
<1>1. op = "user" /\ op' = "copy" /\ UNCHANGED <<live, page_dir, copied>>
  BY DEF process_fork, procVars
<1>2. \A q \in Procs : (Shown(q)' <=> live[q]) /\ (Shown(q) <=> live[q])
  BY <1>1 DEF Shown, Booting
<1>3. \A q \in Procs : live[q] => page_dir[q] \in Dirs
  BY <1>0, CallDir
<1>4. \A X \in Dirs : SeenIn(table', data', X) = Seen(X)
  BY <1>0, Fork
<1>5. Copies' = {}
  BY <1>0, <1>1 DEF CallOK, Copies, NoCopies
<1>6. Contents'
  BY <1>1, <1>5 DEF Contents
<1>. QED  BY <1>1, <1>2, <1>3, <1>4, <1>6, AllKept

\* A copy holds what its page holds.
LEMMA ForkCopyMem ==
  ASSUME MInv, fork_copy
  PROVE  Contents' /\ [Memory!Next]_[p \in Procs |-> View(p)]
<1>0. VInv /\ TypeOK /\ CallOK /\ Contents
  BY DEF MInv, VInv
<1>1. op = "copy" /\ op' = "copy" /\ UNCHANGED <<live, page_dir, cur>>
  BY DEF fork_copy, procVars
<1>2. /\ \A X \in Dirs : SeenIn(table', data', X) = Seen(X)
      /\ data'[copied'[Min(todo)]] = Seen(page_dir[cur])[Min(todo)]
      /\ Copies' = Copies \cup {Min(todo)}
      /\ \A w \in Copies : copied'[w] = copied[w] /\ data'[copied[w]] = data[copied[w]]
  BY <1>0, ForkCopy
<1>3. \A q \in Procs : (Shown(q)' <=> live[q]) /\ (Shown(q) <=> live[q])
  BY <1>1 DEF Shown, Booting
<1>4. \A q \in Procs : live[q] => page_dir[q] \in Dirs
  BY <1>0, CallDir
<1>5. Contents'
  <2>1. SeenIn(table', data', page_dir[cur]) = Seen(page_dir[cur])
    BY <1>0, <1>1, <1>2, CallDir
  <2>2. Seen(page_dir[cur])' = Seen(page_dir[cur])
    BY <1>1, <2>1 DEF Seen
  <2>3. \A w \in Copies : data[copied[w]] = Seen(page_dir[cur])[w]
    BY <1>0, <1>1 DEF Contents
  <2>4. \A w \in Copies' : data'[copied'[w]] = Seen(page_dir[cur])[w]
    BY <1>2, <2>3
  <2>. QED  BY <1>1, <2>2, <2>4 DEF Contents
<1>. QED  BY <1>1, <1>2, <1>3, <1>4, <1>5, AllKept

\* All copies are made.
LEMMA ForkCopiedMem ==
  ASSUME MInv, fork_copied
  PROVE  Contents' /\ [Memory!Next]_[p \in Procs |-> View(p)]
<1>1. /\ op = "copy" /\ op' = "install" /\ todo' = Copies
      /\ UNCHANGED <<live, page_dir, table, data, cur, copied>>
  BY DEF fork_copied, procVars, memVars
<1>2. \A q \in Procs : (Shown(q)' <=> live[q]) /\ (Shown(q) <=> live[q])
  BY <1>1 DEF Shown, Booting
<1>3. Contents'
  <2>1. Copies' = Copies /\ Seen(page_dir[cur])' = Seen(page_dir[cur])
    BY <1>1 DEF Copies, Seen
  <2>2. \A w \in Copies : data[copied[w]] = Seen(page_dir[cur])[w]
    BY <1>1 DEF MInv, Contents
  <2>. QED  BY <1>1, <2>1, <2>2 DEF Contents
<1>. QED  BY <1>1, <1>2, <1>3, AllKept DEF Seen

\* A copy becomes a page of the child's directory.
LEMMA ForkInstallMem ==
  ASSUME MInv, fork_install, Backed(dir, Min(todo), 0)
  PROVE  Contents' /\ [Memory!Next]_[p \in Procs |-> View(p)]
<1>0. VInv /\ TypeOK /\ CallOK /\ Contents /\ Parts
  BY DEF MInv, VInv
<1>1. /\ op = "install" /\ op' = "install" /\ todo # {} /\ todo' = todo \ {Min(todo)}
      /\ UNCHANGED <<live, page_dir, data, cur, dir, copied>>
  BY DEF fork_install, procVars
<1>2. PICK v : v = Min(todo)
  OBVIOUS
<1>3. v \in UserPages /\ NewDir /\ dir \in Dirs /\ page_dir[cur] \in Dirs /\ page_dir[cur] # dir
  <2>1. NewDir /\ live[cur] /\ cur \in Procs
    BY <1>0, <1>1 DEF CallOK, NewDir, TypeOK
  <2>2. page_dir[cur] \in LiveDirs
    BY <2>1 DEF LiveDirs
  <2>. QED  BY <1>0, <1>1, <1>2, <2>1, <2>2, First, CallDir DEF Parts
<1>4. \A X \in Dirs : SeenIn(table', data', X) =
         IF X = dir THEN [Seen(X) EXCEPT ![v] = data[copied[v]]] ELSE Seen(X)
  BY <1>0, <1>2, ForkInstall
<1>5. \A q \in Procs : (Shown(q)' <=> live[q]) /\ (Shown(q) <=> live[q])
  BY <1>1 DEF Shown, Booting
<1>6. \A q \in Procs : Shown(q) => page_dir[q] # dir /\ page_dir[q] \in Dirs
  BY <1>0, <1>3, HiddenDir
<1>7. Contents'
  <2>1. Seen(dir)' = [Seen(dir) EXCEPT ![v] = data[copied[v]]]
    BY <1>1, <1>3, <1>4 DEF Seen
  <2>2. Seen(page_dir[cur])' = Seen(page_dir[cur])
    BY <1>1, <1>3, <1>4 DEF Seen
  <2>3. Copies' = Copies
    BY <1>1 DEF Copies
  <2>4. \A w \in Copies \ todo' : w \in UserPages /\ Seen(dir)'[w] = data[copied[w]]
    <3>1. \A w \in Copies : w \in UserPages
      BY DEF Copies
    <3>2. \A w \in Copies \ todo : Seen(dir)[w] = data[copied[w]]
      BY <1>0, <1>1 DEF Contents
    <3>3. Seen(dir) = [w \in UserPages |-> Seen(dir)[w]]
      BY SeenMaps
    <3>. QED  BY <1>1, <1>2, <2>1, <3>1, <3>2, <3>3
  <2>5. \A w \in Copies : data[copied[w]] = Seen(page_dir[cur])[w]
    BY <1>0, <1>1 DEF Contents
  <2>. QED  BY <1>1, <2>2, <2>3, <2>4, <2>5 DEF Contents
<1>. QED  BY <1>1, <1>4, <1>5, <1>6, <1>7, AllKept

\* The child's pages are the parent's when fork returns.
LEMMA ForkReturnsMem ==
  ASSUME MInv, fork_returns
  PROVE  Contents' /\ [Memory!Next]_[p \in Procs |-> View(p)]
<1>0. VInv /\ TypeOK /\ CallOK /\ Contents
  BY DEF MInv, VInv
<1>1. /\ op = "install" /\ todo = {} /\ op' = "user" /\ UNCHANGED <<table, data>>
      /\ live' = [live EXCEPT ![child] = TRUE] /\ page_dir' = [page_dir EXCEPT ![child] = dir]
  BY DEF fork_returns, Return, memVars
<1>2. PICK p, c : p = cur /\ c = child
  OBVIOUS
<1>3. /\ p \in Procs /\ c \in Procs /\ live[p] /\ ~live[c] /\ p # c
      /\ Maps(page_dir[p]) = Copies /\ Maps(dir) = Copies
  BY <1>0, <1>1, <1>2 DEF CallOK, TypeOK
<1>4. Seen(dir) = Seen(page_dir[p])
  <2>1. \A w \in Copies : Seen(dir)[w] = Seen(page_dir[p])[w]
    BY <1>0, <1>1, <1>2 DEF Contents
  <2>2. \A w \in UserPages : Seen(dir)[w] = Seen(page_dir[p])[w]
    BY <1>3, <2>1, SeenMaps
  <2>. QED  BY <2>2, SeenMaps
<1>5. /\ \A q \in Procs \ {c} : live'[q] = live[q] /\ page_dir'[q] = page_dir[q]
      /\ live'[c] /\ page_dir'[c] = dir
  BY <1>0, <1>1, <1>2, <1>3 DEF TypeOK
<1>6. \A q \in Procs : (Shown(q)' <=> live'[q]) /\ (Shown(q) <=> live[q])
  BY <1>1 DEF Shown, Booting
<1>7. \A q \in Procs \ {c} : View(q)' = View(q)
  BY <1>1, <1>5, <1>6, ViewKept DEF Seen
<1>8. View(c) = NoPages /\ View(c)' = View(p)
  BY <1>1, <1>3, <1>4, <1>5, <1>6, ViewIs DEF Seen
<1>9. Memory!Fork(p, c)
  <2>1. Memory!Has(c, View(c)')
    BY <1>3, <1>7, OneView
  <2>. QED  BY <1>3, <1>8, <2>1 DEF Memory!Fork, Memory!Empty, Memory!NoPage, NoPages
<1>10. Memory!Next
  BY <1>3, <1>9 DEF Memory!Next
<1>. QED  BY <1>1, <1>10 DEF Contents

\* The process leaves its old directory for the one that holds the image.
LEMMA ExecCommitMem ==
  ASSUME MInv, exec_commit
  PROVE  Contents' /\ [Memory!Next]_[p \in Procs |-> View(p)]
<1>0. VInv /\ TypeOK /\ CallOK /\ Parts
  BY DEF MInv, VInv
<1>1. /\ op = "load" /\ todo = {} /\ ~Booting /\ op' = "stack" /\ UNCHANGED <<live, dir>>
      /\ page_dir' = [page_dir EXCEPT ![cur] = dir]
  BY DEF exec_commit
<1>2. PICK p : p = cur
  OBVIOUS
<1>3. p \in Procs /\ live[p]
  BY <1>0, <1>1, <1>2 DEF CallOK, TypeOK
<1>4. /\ \A q \in Procs \ {p} : page_dir'[q] = page_dir[q]
      /\ page_dir'[p] = dir
  BY <1>0, <1>1, <1>2, <1>3 DEF TypeOK
<1>5. \A q \in Procs : live[q] => page_dir'[q] \in Dirs'
  BY <1>1 DEF Dirs
<1>6. \A X \in Dirs' : SeenIn(table', data', X) = Seen(X)
  BY <1>0, ExecCommit
<1>7. \A q \in Procs : (Shown(q)' <=> live[q]) /\ (Shown(q) <=> live[q])
  BY <1>1 DEF Shown, Booting
<1>8. PICK img : img = image
  OBVIOUS
<1>9. View(p)' = Loaded(img) /\ img \in Images
  <2>1. View(p)' = Seen(dir)
    BY <1>3, <1>4, <1>5, <1>6, <1>7, ViewIs
  <2>. QED  BY <1>1, <1>8, <2>1, SeenImage
<1>10. \A q \in Procs \ {p} : View(q)' = View(q)
  <2>1. \A q \in Procs \ {p} : live[q] => page_dir[q] \in Dirs'
    BY <1>4, <1>5
  <2>. QED  BY <1>4, <1>6, <1>7, <2>1, ViewKept
<1>11. Memory!Next
  BY <1>3, <1>9, <1>10, ExecIs
<1>. QED  BY <1>1, <1>11 DEF Contents

\* Pages of process p go away.
LEMMA DropIs ==
  ASSUME NEW p \in Procs, \A v \in UserPages : View(p)'[v] \in {View(p)[v], -1},
         \A q \in Procs \ {p} : View(q)' = View(q)
  PROVE  Memory!Next
<1>1. Memory!Has(p, View(p)')
  BY OneView
<1>2. [q \in Procs |-> View(q)]'[p] = View(p)'
  OBVIOUS
<1>3. Memory!Drop(p)
  BY <1>1, <1>2 DEF Memory!Drop, Memory!Has, Memory!NoPage
<1>. QED  BY <1>3 DEF Memory!Next

\* A process that has exited has no pages, and the others keep theirs.
LEMMA ExitMem ==
  ASSUME MInv, NEW p \in Procs, process_exit(p)
  PROVE  Contents' /\ [Memory!Next]_[r \in Procs |-> View(r)]
<1>0. VInv /\ TypeOK
  BY DEF MInv, VInv
<1>1. op = "user" /\ op' = "user" /\ live' = [live EXCEPT ![p] = FALSE]
      /\ page_dir' = [page_dir EXCEPT ![p] = kernel_dir]
  BY DEF process_exit, callVars
<1>2. \A q \in Procs \ {p} : live'[q] = live[q] /\ page_dir'[q] = page_dir[q]
  BY <1>0, <1>1 DEF TypeOK
<1>3. ~live'[p]
  BY <1>0, <1>1 DEF TypeOK
<1>4. \A q \in Procs : live'[q] => page_dir'[q] \in Dirs'
  BY DEF Dirs
<1>5. \A X \in Dirs' : SeenIn(table', data', X) = Seen(X)
  BY <1>0, Exit
<1>6. \A q \in Procs : (Shown(q)' <=> live'[q]) /\ (Shown(q) <=> live[q])
  BY <1>1 DEF Shown, Booting
<1>7. \A q \in Procs \ {p} : View(q)' = View(q)
  <2>1. \A q \in Procs \ {p} : live[q] => page_dir[q] \in Dirs'
    BY <1>2, <1>4
  <2>. QED  BY <1>2, <1>5, <1>6, <2>1, ViewKept
<1>8. View(p)' = NoPages
  BY <1>3, <1>6, ViewIs
<1>9. Memory!Next
  BY <1>7, <1>8, DropIs DEF NoPages
<1>. QED  BY <1>1, <1>9 DEF Contents

\* sbrk takes pages from its caller alone.
LEMMA SbrkShrinkMem ==
  ASSUME MInv, NEW p \in Procs, NEW inc \in Increments, sbrk_shrink(p, inc),
         Want(p, inc) >= ENTRIES * PAGE_SIZE
  PROVE  Contents' /\ [Memory!Next]_[r \in Procs |-> View(r)]
<1>0. VInv /\ TypeOK /\ CallOK /\ Parts
  BY DEF MInv, VInv
<1>1. op = "user" /\ op' = "user" /\ live[p] /\ UNCHANGED <<live, page_dir>>
  BY DEF sbrk_shrink, callVars
<1>2. /\ \A X \in Dirs : X # page_dir[p] => SeenIn(table', data', X) = Seen(X)
      /\ \A w \in UserPages :
           SeenIn(table', data', page_dir[p])[w] \in {Seen(page_dir[p])[w], -1}
  BY <1>0, SbrkShrink
<1>3. \A q \in Procs : (Shown(q)' <=> live[q]) /\ (Shown(q) <=> live[q])
  BY <1>1 DEF Shown, Booting
<1>4. \A q \in Procs \ {p} : View(q)' = View(q)
  <2>1. \A q \in Procs \ {p} : live[q] => page_dir[q] \in Dirs /\ page_dir[q] # page_dir[p]
    BY <1>0, <1>1, CallDir DEF Parts
  <2>. QED  BY <1>1, <1>2, <1>3, <2>1, ViewKept
<1>5. View(p) = Seen(page_dir[p]) /\ View(p)' = SeenIn(table', data', page_dir[p])
  BY <1>1, <1>3, ViewIs
<1>6. Memory!Next
  BY <1>2, <1>4, <1>5, DropIs
<1>. QED  BY <1>1, <1>6 DEF Contents

\* A store changes the page it goes to, in one process.
LEMMA UserWriteMem ==
  ASSUME MInv, NEW p \in Procs, NEW v \in UserPages, NEW x \in Values, user_write(p, v, x)
  PROVE  Contents' /\ [Memory!Next]_[r \in Procs |-> View(r)]
<1>0. VInv /\ TypeOK /\ CallOK /\ Parts
  BY DEF MInv, VInv
<1>1. /\ op = "user" /\ op' = "user" /\ live[p] /\ UNCHANGED <<table, live, page_dir>>
      /\ Mapped(page_dir[p], v) /\ data' = [data EXCEPT ![Phys(page_dir[p], v)] = x]
  BY DEF user_write, callVars, procVars
<1>2. PICK D : D = page_dir[p]
  OBVIOUS
<1>3. PICK f : f = PageAt(table, D, v)
  OBVIOUS
<1>4. D \in Dirs /\ f # Absent /\ f = Phys(D, v)
  BY <1>0, <1>1, <1>2, <1>3, CallDir DEF Mapped, HasTable, Phys, PageAt, DirOf, EntOf
<1>5. f \in Frames /\ \A Y \in Dirs, z \in UserPages : PageAt(table, Y, z) = f => Y = D /\ z = v
  BY <1>0, <1>3, <1>4, PageIn
<1>6. data'[f] = x /\ \A g : g # f => data'[g] = data[g]
  BY <1>0, <1>1, <1>2, <1>4, <1>5 DEF TypeOK
<1>7. \A X \in Dirs \ {D} : SeenIn(table', data', X) = Seen(X)
  BY <1>1, <1>5, <1>6 DEF Seen, SeenIn
<1>8. SeenIn(table', data', D) = [Seen(D) EXCEPT ![v] = x]
  BY <1>1, <1>3, <1>4, <1>5, <1>6 DEF Seen, SeenIn
<1>9. \A q \in Procs : (Shown(q)' <=> live[q]) /\ (Shown(q) <=> live[q])
  BY <1>1 DEF Shown, Booting
<1>10. \A q \in Procs \ {p} : View(q)' = View(q)
  <2>1. \A q \in Procs \ {p} : live[q] => page_dir[q] \in Dirs /\ page_dir[q] # D
    BY <1>0, <1>1, <1>2, CallDir DEF Parts
  <2>. QED  BY <1>1, <1>7, <1>9, <2>1, ViewKept
<1>11. View(p) = Seen(D) /\ View(p)' = [Seen(D) EXCEPT ![v] = x]
  BY <1>1, <1>2, <1>8, <1>9, ViewIs
<1>12. View(p)[v] # -1
  <2>1. data[f] \in Values
    BY <1>0, <1>5 DEF TypeOK
  <2>2. View(p)[v] = data[f]
    BY <1>3, <1>4, <1>11 DEF Seen, SeenIn
  <2>. QED  BY <2>1, <2>2, VmAssumption
<1>13. Memory!Next
  BY <1>10, <1>11, <1>12, PageIs
<1>. QED  BY <1>1, <1>13 DEF Contents

\* Every step is one of UserMemory or a stutter, and keeps the contents.
LEMMA MemoryStep ==
  MInv /\ [Safe]_vars => Contents' /\ [Memory!Next]_[p \in Procs |-> View(p)]
<1>. SUFFICES ASSUME MInv, [Safe]_vars
              PROVE  Contents' /\ [Memory!Next]_[p \in Procs |-> View(p)]
  OBVIOUS
<1>. DEFINE Goal == Contents' /\ [Memory!Next]_[p \in Procs |-> View(p)]
<1>1. CASE UNCHANGED vars
  <2>1. UNCHANGED <<table, data, live, page_dir, op, cur, dir, todo, copied, image>>
    BY <1>1 DEF vars, memVars, procVars, callVars
  <2>2. Contents'
    BY <2>1 DEF MInv, Contents, Seen, Copies
  <2>3. \A q \in Procs : Shown(q)' <=> Shown(q)
    BY <2>1 DEF Shown, Booting
  <2>. QED  BY <2>1, <2>2, <2>3, AllKept DEF Seen
<1>2. CASE elf_load /\ Backed(dir, Min(todo), 1)
  BY <1>2, ElfLoadMem
<1>3. CASE load_program
  BY <1>3, LoadProgramMem
<1>4. CASE \/ map_user_stack /\ Backed(dir, Min(todo), 1)
           \/ exec_stack /\ Backed(dir, Max(todo), 1)
  BY <1>4, StacksMem
<1>5. CASE exec_fails \/ fork_fails
  BY <1>5, CallFailsMem
<1>6. CASE exec_commit
  BY <1>6, ExecCommitMem
<1>7. CASE fork_copy
  BY <1>7, ForkCopyMem
<1>8. CASE fork_copied
  BY <1>8, ForkCopiedMem
<1>9. CASE fork_returns
  BY <1>9, ForkReturnsMem
<1>10. CASE fork_install /\ Backed(dir, Min(todo), 0)
  BY <1>10, ForkInstallMem
<1>11. CASE sbrk_page /\ Backed(page_dir[cur], Min(todo), 1)
  BY <1>11, SbrkPageMem
<1>12. CASE \/ sbrk_fails \/ sbrk_grown
            \/ \E p \in Procs, inc \in Increments : sbrk_grow(p, inc)
  BY <1>12, SbrkEndsMem
<1>13. ASSUME NEW p \in Procs, process_fork(p),
              Cardinality(Free(used)) >= (IF scratch = Absent THEN 2 ELSE 1)
       PROVE  Goal
  BY <1>13, ForkMem
<1>14. ASSUME NEW p \in Procs, NEW img \in Images, process_execve(p, img),
              Cardinality(Free(used)) >= (IF scratch = Absent THEN 2 ELSE 1)
       PROVE  Goal
  BY <1>14, ExecveMem
<1>15. ASSUME NEW p \in Procs, process_exit(p)  PROVE Goal
  BY <1>15, ExitMem
<1>16. ASSUME NEW p \in Procs, NEW inc \in Increments, sbrk_shrink(p, inc),
              Want(p, inc) >= ENTRIES * PAGE_SIZE
       PROVE  Goal
  BY <1>16, SbrkShrinkMem
<1>17. ASSUME NEW p \in Procs, NEW v \in UserPages, NEW x \in Values, user_write(p, v, x)
       PROVE  Goal
  BY <1>17, UserWriteMem
<1>. HIDE DEF Goal
<1>18. Goal
  <2>1. (Contents' /\ [Memory!Next]_[p \in Procs |-> View(p)]) = Goal
    BY DEF Goal
  <2>. QED  BY <1>1, <1>2, <1>3, <1>4, <1>5, <1>6, <1>7, <1>8, <1>9, <1>10, <1>11, <1>12, <1>13, <1>14,
               <1>15, <1>16, <1>17, <2>1 DEF Safe
<1>. QED  BY <1>18 DEF Goal

\* At boot nobody has pages.
LEMMA InitMemory == Init => Contents /\ Memory!Init
<1>. SUFFICES ASSUME Init  PROVE Contents /\ Memory!Init
  OBVIOUS
<1>1. /\ op = "load" /\ dir = kernel_dir /\ cur = 0 /\ todo = DOMAIN image
      /\ live = [p \in Procs |-> p = 0]
  BY DEF Init
<1>2. Contents
  BY <1>1 DEF Contents
<1>3. \A p \in Procs : View(p) = NoPages
  BY <1>1, ViewIs DEF Shown, Booting
<1>4. [p \in Procs |-> View(p)] = [p \in Procs |-> NoPages]
  BY <1>3
<1>. QED  BY <1>2, <1>4 DEF Memory!Init, Memory!Empty, Memory!NoPage, NoPages

\* The tables implement private memory, for any number of processes, pages and
\* frames: every step of boot, fork, execve, exit, sbrk and of the programs is a
\* step of UserMemory or changes nothing a process can see.
THEOREM MemoryTheorem == Spec => MemorySpec
<1>1. Init => MInv /\ Memory!Init
  BY InitVInv, InitMemory DEF MInv
<1>2. MInv /\ [Safe]_vars => MInv' /\ [Memory!Next]_[p \in Procs |-> View(p)]
  BY VmStep, MemoryStep DEF MInv
<1>. QED  BY <1>1, <1>2, PTL DEF Spec, MemorySpec, Memory!Spec
=============================================================================
