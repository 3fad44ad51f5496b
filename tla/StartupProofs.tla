---------------------------- MODULE StartupProofs ----------------------------
(***************************************************************************)
(* The frame allocator and the start of the kernel, for every machine that *)
(* pmm_initialize can meet.  The allocator: the bitmap is exact, the hint  *)
(* is sound, the lowest free frame is handed out, and it implements the    *)
(* pool of FramePool.  The start: it uses the frames as the allocator's    *)
(* specification says, and none of them holds a byte of the kernel, of its *)
(* bitmap or, unless the bitmap lies on what the loader has left to read,  *)
(* of a module or the table of modules.  The initrd: the files of the      *)
(* archive are found, in order, each at its bytes.                         *)
(***************************************************************************)
EXTENDS Startup, NatMin, SequenceTheorems, FiniteSetTheorems

\* The inductive invariant.  Exact alone is preserved, but that a request fails
\* only on an empty pool and takes the lowest frame needs HintSound.
IInv == TypeOK /\ Exact /\ HintSound

\* With a sound hint the search finds the lowest clear bit of all.
LEMMA FirstFitLowest ==
  ASSUME TypeOK, HintSound, Candidates(bitmap, last_alloc) # {}
  PROVE  /\ FirstFit(bitmap, last_alloc) \in AllFrames \ bitmap
         /\ \A i \in AllFrames : i < FirstFit(bitmap, last_alloc) => i \in bitmap
<1>. DEFINE above == Clear(bitmap, last_alloc .. ScanEnd)
<1>1. total_frames \in Nat /\ last_alloc \in Nat /\ ScanEnd = total_frames - 1
  BY DEF TypeOK, AllFrames, ScanEnd
<1>2. PICK i \in 0 .. ScanEnd : i \notin bitmap
  BY <1>1 DEF Candidates, Clear, TypeOK, AllFrames
<1>3. i \in above
  BY <1>1, <1>2 DEF HintSound, AllFrames, Clear
<1>4. above \in SUBSET Nat /\ above # {}
  BY <1>1, <1>3 DEF Clear
<1>5. Min(above) \in above /\ \A y \in above : Min(above) <= y
  BY <1>4, MinIsLeast
<1>6. FirstFit(bitmap, last_alloc) = Min(above)
  BY <1>4 DEF FirstFit
<1>. HIDE DEF above
<1>7. Min(above) \in last_alloc .. ScanEnd /\ Min(above) \notin bitmap
  BY <1>5 DEF Clear, above
<1>8. ASSUME NEW j \in AllFrames, j < Min(above), j \notin bitmap  PROVE FALSE
  <2>1. j >= last_alloc
    BY <1>8, <1>1 DEF HintSound, AllFrames
  <2>2. j \in above
    BY <2>1, <1>8, <1>1 DEF above, Clear, AllFrames
  <2>. QED  BY <2>2, <1>5, <1>7, <1>8, <1>1 DEF AllFrames
<1>. QED  BY <1>6, <1>7, <1>8, <1>1 DEF AllFrames

\* One call of the allocator or of pmm_free_frame keeps the invariant.
LEMMA Step == IInv /\ [Next]_vars => IInv'
<1>. SUFFICES ASSUME IInv, [Next]_vars  PROVE IInv'
  OBVIOUS
<1>. USE DEF IInv
<1>0. (UNCHANGED machine) => AllFrames' = AllFrames /\ reserved' = reserved /\ total_frames' = total_frames
  BY DEF machine, AllFrames
<1>1. CASE pmm_alloc_frame
  <2>0. AllFrames' = AllFrames /\ reserved' = reserved /\ total_frames' = total_frames
    BY <1>0, <1>1 DEF pmm_alloc_frame
  <2>1. CASE Candidates(bitmap, last_alloc) # {}
    <3>. DEFINE i == FirstFit(bitmap, last_alloc)
    <3>1. i \in AllFrames \ bitmap /\ \A j \in AllFrames : j < i => j \in bitmap
      BY <2>1, FirstFitLowest
    <3>2. bitmap' = bitmap \cup {i} /\ last_alloc' = i /\ held' = held \cup {i} /\ ret' = i
      BY <1>1, <2>1 DEF pmm_alloc_frame
    <3>. HIDE DEF i
    <3>. QED  BY <2>0, <3>1, <3>2 DEF TypeOK, Exact, HintSound, NoFrame
  <2>2. CASE ~(Candidates(bitmap, last_alloc) # {})
    <3>1. UNCHANGED <<bitmap, last_alloc, held>> /\ ret' = NoFrame
      BY <1>1, <2>2 DEF pmm_alloc_frame
    <3>. QED  BY <2>0, <3>1 DEF TypeOK, Exact, HintSound, NoFrame
  <2>. QED  BY <2>1, <2>2
<1>2. ASSUME NEW f \in AllFrames, pmm_free_frame(f)  PROVE IInv'
  <2>0. AllFrames' = AllFrames /\ reserved' = reserved /\ total_frames' = total_frames
    BY <1>0, <1>2 DEF pmm_free_frame
  <2>1. /\ f \in held /\ bitmap' = bitmap \ {f} /\ held' = held \ {f} /\ ret' = ret
        /\ last_alloc' = IF f < last_alloc THEN f ELSE last_alloc
    BY <1>2 DEF pmm_free_frame, HintAfterFree
  <2>2. TypeOK' /\ Exact'
    BY <2>0, <2>1 DEF TypeOK, Exact, NoFrame
  <2>3. HintSound'
    BY <2>0, <2>1 DEF HintSound, TypeOK, AllFrames
  <2>. QED  BY <2>2, <2>3
<1>3. CASE UNCHANGED vars
  BY <1>0, <1>3 DEF vars, TypeOK, Exact, HintSound, NoFrame
<1>. QED  BY <1>1, <1>2, <1>3 DEF Next

\* The bitmap that pmm_initialize leaves satisfies the invariant.
LEMMA InitIInv == Init => IInv
<1>. SUFFICES ASSUME Init  PROVE IInv
  OBVIOUS
<1>1. total_frames \in Nat \ {0}
  BY BootAssumption DEF Init
<1>2. 0 \in PagesOf(Bytes(0, LOW))
  <2>1. 0 \in 0 .. LOW - 1 /\ PAGE_SIZE \in Nat \ {0}
    BY BootAssumption
  <2>2. 0 \div PAGE_SIZE = 0
    BY <2>1
  <2>. QED  BY <2>1, <2>2 DEF Page, PagesOf, Bytes
<1>3. reserved \subseteq AllFrames /\ 0 \in reserved
  BY <1>1, <1>2 DEF Init, BootBitmap, Bitmap, SetLast, AllFrames
<1>. QED  BY <1>1, <1>3 DEF Init, IInv, TypeOK, Exact, HintSound, AllFrames, NoFrame

\* The invariant holds through any sequence of allocations and frees.
THEOREM Invariance == Spec => []IInv
BY InitIInv, Step, PTL DEF Spec

\* The hint and every frame handed out lie below the top of memory.
THEOREM TypeTheorem == Spec => []TypeOK
<1>1. IInv => TypeOK  BY DEF IInv
<1>. QED  BY <1>1, Invariance, PTL

\* A bit is set exactly for the reserved frames and the frames callers hold.
THEOREM ExactTheorem == Spec => []Exact
<1>1. IInv => Exact  BY DEF IInv
<1>. QED  BY <1>1, Invariance, PTL

\* No frame below last_alloc is free, so the wrap-around loop is never needed.
THEOREM HintTheorem == Spec => []HintSound
<1>1. IInv => HintSound  BY DEF IInv
<1>. QED  BY <1>1, Invariance, PTL

\* pmm_alloc_frame always hands out the lowest free frame.
THEOREM LowestFirstTheorem == Spec => LowestFirst
<1>. DEFINE Lowest == \A f \in held' \ held : \A i \in AllFrames : i < f => i \in bitmap
<1>1. IInv /\ [Next]_vars => [Lowest]_vars
  <2>. SUFFICES ASSUME IInv, Next  PROVE Lowest
    OBVIOUS
  <2>1. CASE pmm_alloc_frame /\ Candidates(bitmap, last_alloc) # {}
    <3>1. held' = held \cup {FirstFit(bitmap, last_alloc)}
      BY <2>1 DEF pmm_alloc_frame
    <3>. QED  BY <3>1, <2>1, FirstFitLowest DEF IInv
  <2>2. CASE pmm_alloc_frame /\ ~(Candidates(bitmap, last_alloc) # {})
    BY <2>2 DEF pmm_alloc_frame
  <2>3. ASSUME NEW f \in AllFrames, pmm_free_frame(f)  PROVE Lowest
    BY <2>3 DEF pmm_free_frame
  <2>. QED  BY <2>1, <2>2, <2>3 DEF Next
<1>. QED  BY <1>1, Invariance, PTL DEF LowestFirst, Spec

\* The allocator implements the pool: a request is answered with a frame that is
\* neither reserved nor held, and with "out of memory" only when there is none.
THEOREM PoolTheorem == Spec => PoolSpec
<1>1. Init => Pool!Init
  BY DEF Init, Pool!Init
<1>0. [Next]_vars => UNCHANGED (AllFrames \ reserved)
  BY DEF Next, pmm_alloc_frame, pmm_free_frame, vars, machine, AllFrames
<1>2. IInv /\ [Next]_vars => [Pool!Next]_<<AllFrames \ reserved, held, ret>>
  <2>. SUFFICES ASSUME IInv, Next, UNCHANGED (AllFrames \ reserved)
                PROVE  Pool!Alloc \/ Pool!Free
    BY <1>0 DEF vars, Pool!Next
  <2>. USE DEF IInv
  <2>1. CASE pmm_alloc_frame /\ Candidates(bitmap, last_alloc) # {}
    <3>. DEFINE i == FirstFit(bitmap, last_alloc)
    <3>1. i \in AllFrames \ bitmap
      BY <2>1, FirstFitLowest
    <3>2. held' = held \cup {i} /\ ret' = i
      BY <2>1 DEF pmm_alloc_frame
    <3>. HIDE DEF i
    <3>3. i \in (AllFrames \ reserved) \ held
      BY <3>1 DEF Exact
    <3>. QED  BY <3>2, <3>3 DEF Pool!Alloc
  <2>2. CASE pmm_alloc_frame /\ ~(Candidates(bitmap, last_alloc) # {})
    <3>1. AllFrames \subseteq bitmap
      BY <2>2 DEF Candidates, Clear, AllFrames, ScanEnd, TypeOK
    <3>2. AllFrames \ reserved \subseteq held
      BY <3>1 DEF Exact
    <3>. QED  BY <2>2, <3>2 DEF pmm_alloc_frame, Pool!Alloc
  <2>3. ASSUME NEW f \in AllFrames, pmm_free_frame(f)  PROVE Pool!Free
    BY <2>3 DEF pmm_free_frame, Pool!Free
  <2>. QED  BY <2>1, <2>2, <2>3 DEF Next
<1>. QED  BY <1>1, <1>2, Invariance, PTL DEF Spec, PoolSpec, Pool!Spec

-----------------------------------------------------------------------------

\* An address of 32 bits is not changed by the cut.
LEMMA CutSmall == ASSUME NEW x \in Nat, x < SPACE  PROVE Cut(x) = x
BY BootAssumption DEF Cut

\* The loops of pass 3 reach the frame of every byte of their range.
LEMMA PageInRange ==
  ASSUME NEW first \in Nat, NEW end \in Nat, end <= SPACE, NEW a \in Bytes(first, end)
  PROVE  Page(a) \in Pages(first, end)
<1>1. PAGE_SIZE \in Nat /\ PAGE_SIZE > 0 /\ SPACE \in Nat /\ SPACE > 0
  BY BootAssumption
<1>2. a \in Nat /\ first <= a /\ a <= end - 1 /\ end - 1 \in Nat /\ end - 1 < SPACE
  BY <1>1 DEF Bytes
<1>3. Cut(end - 1) = end - 1
  BY <1>2, CutSmall
<1>4. first \div PAGE_SIZE <= a \div PAGE_SIZE /\ a \div PAGE_SIZE <= (end - 1) \div PAGE_SIZE
  BY <1>1, <1>2
<1>5. first \div PAGE_SIZE \in Int /\ a \div PAGE_SIZE \in Int /\ (end - 1) \div PAGE_SIZE \in Int
  BY <1>1, <1>2
<1>. QED  BY <1>3, <1>4, <1>5 DEF Pages, Page

\* Pass 3 sets the bit of every frame of the kernel's own memory, whatever it reads.
LEMMA OwnIsSet ==
  ASSUME NEW m \in Machines, NEW r, NEW a \in Own(m)
  PROVE  Page(a) \in SetLast(m, r)
<1>1. BitmapEnd(m) \in Nat /\ BitmapEnd(m) <= SPACE /\ KernelStart \in Nat /\ SPACE \in Nat
  BY BootAssumption
<1>2. CASE a \in Bytes(0, LOW)
  BY <1>2 DEF SetLast, PagesOf
<1>3. CASE a \in Bytes(KernelStart, BitmapEnd(m))
  BY <1>1, <1>3, PageInRange DEF SetLast
<1>. QED  BY <1>2, <1>3 DEF Own

\* What the loader has left, as it would be read.
LEMMA LoadedFields ==
  ASSUME NEW m
  PROVE  /\ AsLoaded(m).mmap = m.mmap /\ AsLoaded(m).info_mods = m.info_mods
         /\ AsLoaded(m).mods = m.mods /\ AsLoaded(m).mods_addr = m.mods_addr
BY DEF AsLoaded

\* The passes compute from it what they would compute from the machine itself.
LEMMA LoadedSame ==
  ASSUME NEW m
  PROVE  /\ Usable(AsLoaded(m)) = Usable(m) /\ Cleared(AsLoaded(m)) = Cleared(m)
         /\ ModulePages(AsLoaded(m)) = ModulePages(m)
         /\ SetLast(m, AsLoaded(m)) = SetLast(m, m)
<1>1. Usable(AsLoaded(m)) = Usable(m)
  BY LoadedFields DEF Usable
<1>2. Cleared(AsLoaded(m)) = Cleared(m)
  BY <1>1 DEF Cleared
<1>3. ModulePages(AsLoaded(m)) = ModulePages(m)
  BY LoadedFields, Zenon DEF ModulePages, ImagePages, ModsEnd
<1>4. SetLast(m, AsLoaded(m)) = SetLast(m, m)
  BY <1>3 DEF SetLast
<1>. QED  BY <1>1, <1>2, <1>3, <1>4

\* Pass 3 sets the bit of every frame of a module or of the descriptors, if it reads
\* what the loader has left.
LEMMA KeptIsSet ==
  ASSUME NEW m \in Machines, NEW a \in Kept(m)
  PROVE  Page(a) \in SetLast(m, m)
<1>1. BitmapEnd(m) \in Nat /\ BitmapEnd(m) <= SPACE /\ KernelStart \in Nat /\ SPACE \in Nat
  BY BootAssumption
<1>2. CASE a \in Own(m)
  BY <1>2, OwnIsSet
<1>4. CASE a \in Bytes(m.mods_addr, m.mods_addr + Len(m.mods) * DESCRIPTOR)
  <2>. DEFINE n == Len(m.mods) * DESCRIPTOR
  <2>1. m.mods_addr \in Nat /\ m.mods_addr + n < SPACE /\ DESCRIPTOR \in Nat /\ Len(m.mods) \in Nat
    BY BootAssumption
  <2>2. n \in Nat
    BY <2>1
  <2>3. n # 0
    BY <1>4, <2>1, <2>2 DEF Bytes
  <2>4. m.info_mods
    <3>1. CASE m.mods = <<>>
      BY <3>1, <2>1, <2>3
    <3>. QED  BY <3>1, BootAssumption
  <2>. HIDE DEF n
  <2>5. ModsEnd(m) = m.mods_addr + n
    <3>1. m.mods_addr + n \in Nat /\ m.mods_addr + n < SPACE
      BY <2>1, <2>2
    <3>. QED  BY <3>1, CutSmall DEF ModsEnd, n
  <2>6. Page(a) \in Pages(m.mods_addr, ModsEnd(m))
    <3>1. m.mods_addr + n \in Nat /\ m.mods_addr + n <= SPACE
      BY <1>1, <2>1, <2>2
    <3>2. a \in Bytes(m.mods_addr, m.mods_addr + n)
      BY <1>4 DEF n
    <3>. QED  BY <2>1, <3>1, <3>2, <2>5, PageInRange
  <2>7. Pages(m.mods_addr, ModsEnd(m)) \subseteq ModulePages(m)
    BY <2>4 DEF ModulePages
  <2>. QED  BY <2>6, <2>7 DEF SetLast
<1>5. ASSUME NEW i \in DOMAIN m.mods, a \in Bytes(m.mods[i].start, m.mods[i].end)
      PROVE  Page(a) \in SetLast(m, m)
  <2>1. m.mods[i] \in [start : 0 .. SPACE - 1, end : 1 .. SPACE]
    <3>1. m.mods \in Seq([start : 0 .. SPACE - 1, end : 1 .. SPACE])
      BY BootAssumption
    <3>2. i \in 1 .. Len(m.mods)
      BY <3>1, <1>5
    <3>. QED  BY <3>1, <3>2, ElementOfSeq
  <2>2. m.info_mods
    <3>1. m.mods # <<>>
      BY <1>5
    <3>. QED  BY <3>1, BootAssumption
  <2>3. Page(a) \in Pages(m.mods[i].start, m.mods[i].end)
    BY <1>1, <1>5, <2>1, PageInRange
  <2>4. ImagePages(m) \subseteq ModulePages(m)
    BY <2>2 DEF ModulePages
  <2>. QED  BY <2>3, <2>4 DEF SetLast, ImagePages
<1>. QED  BY <1>2, <1>4, <1>5 DEF Kept, Loaded, Descriptors

\* The machine stays what pmm_initialize found.
MachineKept ==
  /\ mbi \in Machines
  /\ total_frames = TotalFrames(mbi)
  /\ reserved = BootBitmap(mbi)

\* kernel_main uses the allocator as its specification says.
THEOREM StartupUsesPmm == BootSpec => Spec
<1>1. BootInit => Init
  BY DEF BootInit
<1>2. [BootNext]_allVars => [Next]_vars
  BY DEF BootNext, allVars, UseFrames, init_initrd, initrd_entry, initrd_end
<1>. QED  BY <1>1, <1>2, PTL DEF BootSpec, Spec

\* The machine does not change under the allocator.
LEMMA MachineInvariance == Spec => []MachineKept
<1>1. Init => MachineKept
  BY DEF Init, MachineKept
<1>2. MachineKept /\ [Next]_vars => MachineKept'
  BY DEF MachineKept, Next, vars, machine, pmm_alloc_frame, pmm_free_frame
<1>. QED  BY <1>1, <1>2, PTL DEF Spec

\* No frame with a byte of the low memory, the kernel or its bitmap is ever handed
\* out, on any machine and whatever passes 2 and 3 read, nor one with a byte of a
\* module or of their descriptors if they read what the loader has left: pass 3 of
\* pmm_initialize covers them all.
THEOREM KernelSafeTheorem == BootSpec => []KernelSafe
<1>1. MachineKept /\ IInv => KernelSafe
  <2>. SUFFICES ASSUME MachineKept, IInv  PROVE KernelSafe
    OBVIOUS
  <2>1. ASSUME NEW a, Page(a) \in SetLast(mbi, mbi.seen)  PROVE Page(a) \notin held
    <3>1. Page(a) \in AllFrames => Page(a) \in reserved
      BY <2>1 DEF MachineKept, BootBitmap, Bitmap, AllFrames
    <3>. QED  BY <3>1 DEF IInv, Exact, TypeOK
  <2>2. ASSUME NEW a \in Own(mbi)  PROVE Page(a) \notin held
    BY <2>1, OwnIsSet DEF MachineKept
  <2>3. ASSUME Intact(mbi), NEW a \in Loaded(mbi)  PROVE Page(a) \notin held
    <3>1. mbi.seen = AsLoaded(mbi) /\ mbi \in Machines
      BY <2>3, BootAssumption DEF MachineKept
    <3>2. Page(a) \in SetLast(mbi, mbi)
      BY <3>1, KeptIsSet DEF Kept
    <3>. QED  BY <2>1, <3>1, <3>2, LoadedSame
  <2>. QED  BY <2>2, <2>3 DEF KernelSafe, PagesOf
<1>. QED  BY <1>1, StartupUsesPmm, MachineInvariance, Invariance, PTL

-----------------------------------------------------------------------------
(***************************************************************************)
(* The pool.  On a regular map the loop of pass 2 goes through whole       *)
(* pages, and through all of them unless the region ends at 4 GiB.         *)
(***************************************************************************)
LEMMA Sizes == /\ PAGE_SIZE \in Nat \ {0} /\ SPACE \in Nat \ {0} /\ BYTE \in Nat \ {0}
               /\ LOW \in Nat \ {0} /\ DESCRIPTOR \in Nat \ {0} /\ KernelStart \in Nat
BY BootAssumption

\* Pass 1: no usable region ends above the top, as the kernel computes the two.
LEMMA TopHighest ==
  ASSUME NEW m \in Machines, NEW e \in Usable(m)
  PROVE  Top(e) \in Nat /\ Highest(m) \in Nat /\ Top(e) <= Highest(m)
<1>1. \A d \in Usable(m) : Top(d) \in Nat /\ Top(d) <= SPACE
  <2>. SUFFICES ASSUME NEW d \in Usable(m)  PROVE Top(d) \in Nat /\ Top(d) <= SPACE
    OBVIOUS
  <2>1. d.addr \in Nat /\ d.len \in Nat
    BY BootAssumption DEF Usable
  <2>2. PICK x \in Nat : x = d.addr + d.len
    BY <2>1
  <2>3. x % SPACE \in 0 .. SPACE - 1
    BY Sizes
  <2>. QED  BY <2>2, <2>3, Sizes DEF Top, Cut
<1>. DEFINE S == {0} \cup {Top(d) : d \in Usable(m)}
<1>2. S \in SUBSET Nat /\ S # {} /\ \A y \in S : y <= SPACE
  BY <1>1, Sizes
<1>. HIDE DEF S
<1>3. Max(S) \in S /\ \A y \in S : y <= Max(S)
  BY <1>2, Sizes, MaxIsGreatest
<1>. QED  BY <1>1, <1>2, <1>3 DEF S, Highest

\* The addresses the loop of pass 2 goes through.
LEMMA RegionIs ==
  ASSUME NEW e, e.addr \in Nat, e.len \in Nat, e.addr + e.len <= SPACE
  PROVE  /\ e.addr + e.len < SPACE =>
              /\ Top(e) = e.addr + e.len
              /\ RegionPages(e) = {Page(a) : a \in {b \in e.addr .. e.addr + e.len - 1 :
                                                      (b - e.addr) % PAGE_SIZE = 0}}
         /\ e.addr + e.len = SPACE => RegionPages(e) = {}
<1>1. CASE e.addr + e.len < SPACE
  <2>1. /\ e.addr < SPACE /\ e.len < SPACE /\ e.addr + e.len \in Nat
    BY <1>1, Sizes
  <2>2. Cut(e.addr) = e.addr /\ Cut(e.len) = e.len /\ Cut(e.addr + e.len) = e.addr + e.len
    BY <1>1, <2>1, CutSmall
  <2>. QED  BY <1>1, <2>2 DEF Top, RegionPages
<1>2. CASE e.addr + e.len = SPACE
  <2>1. Cut(Cut(e.addr) + Cut(e.len)) = 0
    <3>1. CASE e.addr = 0
      <4>1. Cut(e.addr) = 0 /\ Cut(e.len) = 0 /\ Cut(0) = 0
        BY <1>2, <3>1, Sizes DEF Cut
      <4>. QED  BY <4>1
    <3>2. CASE e.addr = SPACE
      <4>1. Cut(e.addr) = 0 /\ Cut(e.len) = 0 /\ Cut(0) = 0
        BY <1>2, <3>2, Sizes DEF Cut
      <4>. QED  BY <4>1
    <3>3. CASE e.addr # 0 /\ e.addr # SPACE
      <4>0. e.addr < SPACE /\ e.len < SPACE
        BY <1>2, <3>3, Sizes
      <4>1. Cut(e.addr) = e.addr /\ Cut(e.len) = e.len
        BY <4>0, CutSmall
      <4>2. Cut(SPACE) = 0
        BY Sizes DEF Cut
      <4>. QED  BY <1>2, <4>1, <4>2
    <3>. QED  BY <3>1, <3>2, <3>3
  <2>2. Cut(e.addr) \in Nat
    BY Sizes DEF Cut
  <2>3. \A b \in Cut(e.addr) .. 0 - 1 : FALSE
    BY <2>2
  <2>. QED  BY <1>2, <2>1, <2>3 DEF RegionPages
<1>. QED  BY <1>1, <1>2

\* In a region of whole pages, the frame of an address is one of them.
LEMMA WholePages ==
  ASSUME NEW p \in Nat \ {0}, NEW addr \in Nat, NEW len \in Nat, addr % p = 0, len % p = 0,
         NEW a \in addr .. addr + len - 1
  PROVE  /\ a \div p \in Nat /\ addr <= (a \div p) * p
         /\ ((a \div p) + 1) * p <= addr + len
<1>1. PICK k \in Nat : addr = p * k
  <2>1. PICK q \in Nat, r \in 0 .. p - 1 : addr % p = r /\ addr = p * q + r
    BY DivMod
  <2>. QED  BY <2>1
<1>2. PICK l \in Nat : len = p * l
  <2>1. PICK q \in Nat, r \in 0 .. p - 1 : len % p = r /\ len = p * q + r
    BY DivMod
  <2>. QED  BY <2>1
<1>3. PICK f : f = a \div p
  OBVIOUS
<1>4. f \in Nat /\ a \in Nat
  BY <1>3
<1>5. p * k <= a /\ a < p * (k + l)
  BY <1>1, <1>2
<1>6. k <= f /\ f < k + l
  BY <1>3, <1>4, <1>5, DivLess
<1>7. p * k <= p * f /\ p * (f + 1) <= p * (k + l)
  BY <1>4, <1>6, MulLess
<1>. QED  BY <1>1, <1>2, <1>3, <1>4, <1>7

\* Whole pages lie a multiple of the page size apart.
LEMMA PagesApart ==
  ASSUME NEW p \in Nat \ {0}, NEW addr \in Nat, addr % p = 0, NEW f \in Nat, addr <= p * f
  PROVE  (p * f - addr) % p = 0
<1>1. PICK q \in Nat, r \in 0 .. p - 1 : addr % p = r /\ addr = p * q + r
  BY DivMod
<1>2. addr = p * q
  BY <1>1
<1>3. q <= f
  BY <1>2, MulLess
<1>4. PICK d \in Nat : d = f - q
  BY <1>3
<1>5. (p * d + 0) % p = 0
  BY DivUnique
<1>6. p * d = p * f - p * q
  BY <1>4
<1>. QED  BY <1>2, <1>5, <1>6

\* Every frame that a loop of pass 3 sets has a byte of its range.
LEMMA RangeHasByte ==
  ASSUME NEW first \in Nat, NEW end \in Nat, first < end, end <= SPACE,
         NEW f \in Pages(first, end)
  PROVE  \E a \in Bytes(first, end) : f = Page(a)
<1>1. end - 1 \in Nat /\ end - 1 < SPACE
  BY Sizes
<1>2. Cut(end - 1) = end - 1
  BY <1>1, CutSmall
<1>3. PICK lo \in Nat, hi \in Nat : lo = first \div PAGE_SIZE /\ hi = (end - 1) \div PAGE_SIZE
  BY <1>1, Sizes
<1>4. f \in Nat /\ lo <= f /\ f <= hi
  BY <1>2, <1>3 DEF Pages, Page
<1>5. CASE f = lo
  <2>1. first \in Bytes(first, end)
    BY DEF Bytes
  <2>. QED  BY <1>3, <1>5, <2>1 DEF Page
<1>6. CASE lo < f
  <2>1. first < PAGE_SIZE * f /\ PAGE_SIZE * f <= end - 1
    BY <1>1, <1>3, <1>4, <1>6, Sizes, DivLess
  <2>2. (PAGE_SIZE * f + 0) \div PAGE_SIZE = f
    BY <1>4, Sizes, DivUnique
  <2>3. PICK a \in Nat : a = PAGE_SIZE * f
    BY <1>4, Sizes
  <2>4. a \in Bytes(first, end) /\ a \div PAGE_SIZE = f
    BY <2>1, <2>2, <2>3 DEF Bytes
  <2>. QED  BY <2>4 DEF Page
<1>. QED  BY <1>4, <1>5, <1>6

\* The address of an empty table of modules: pass 3 sets one frame for it.
OfEmptyTable(m, f) == m.info_mods /\ m.mods = <<>> /\ f = Page(m.mods_addr)

\* Pass 3 sets the frames that have a byte in Kept, and no other.
LEMMA SetIsKept ==
  ASSUME NEW m \in Machines, Regular(m), NEW f \in SetLast(m, m)
  PROVE  f \in PagesOf(Kept(m)) \/ OfEmptyTable(m, f)
<1>. DEFINE n == Len(m.mods) * DESCRIPTOR
<1>0. /\ BitmapEnd(m) \in Nat /\ BitmapEnd(m) <= SPACE /\ KernelStart < BitmapEnd(m)
      /\ m.mods \in Seq([start : 0 .. SPACE - 1, end : 1 .. SPACE])
      /\ \A i \in DOMAIN m.mods : m.mods[i].start < m.mods[i].end
      /\ m.mods_addr \in Nat /\ m.mods_addr + n < SPACE
  <2>1. BitmapEnd(m) \in KernelStart + 1 .. SPACE
    BY BootAssumption
  <2>2. BitmapEnd(m) \in Nat /\ BitmapEnd(m) <= SPACE /\ KernelStart < BitmapEnd(m)
    BY <2>1, Sizes
  <2>. QED  BY <2>2, BootAssumption
<1>1. n \in Nat /\ (n = 0 <=> m.mods = <<>>)
  <2>1. Len(m.mods) \in Nat /\ (Len(m.mods) = 0 <=> m.mods = <<>>)
    BY <1>0, LenProperties, EmptySeq
  <2>2. PICK l \in Nat : l = Len(m.mods)
    BY <2>1
  <2>3. l * DESCRIPTOR \in Nat /\ (l * DESCRIPTOR = 0 <=> l = 0)
    BY Sizes
  <2>. QED  BY <2>1, <2>2, <2>3
<1>. HIDE DEF n
<1>2. ASSUME NEW a \in Kept(m), f = Page(a)  PROVE f \in PagesOf(Kept(m))
  BY <1>2 DEF PagesOf
<1>3. CASE f \in PagesOf(Bytes(0, LOW))
  <2>1. PICK a \in Bytes(0, LOW) : f = Page(a)
    BY <1>3 DEF PagesOf
  <2>2. a \in Kept(m)
    BY DEF Kept, Own
  <2>. QED  BY <1>2, <2>1, <2>2
<1>4. CASE f \in Pages(KernelStart, BitmapEnd(m))
  <2>1. PICK a \in Bytes(KernelStart, BitmapEnd(m)) : f = Page(a)
    BY <1>0, <1>4, Sizes, RangeHasByte
  <2>2. a \in Kept(m)
    BY DEF Kept, Own
  <2>. QED  BY <1>2, <2>1, <2>2
<1>5. ASSUME NEW i \in DOMAIN m.mods, f \in Pages(m.mods[i].start, m.mods[i].end)
      PROVE  f \in PagesOf(Kept(m))
  <2>1. m.mods[i] \in [start : 0 .. SPACE - 1, end : 1 .. SPACE]
    <3>1. i \in 1 .. Len(m.mods)
      BY <1>0, <1>5
    <3>. QED  BY <1>0, <3>1, ElementOfSeq
  <2>2. PICK a \in Bytes(m.mods[i].start, m.mods[i].end) : f = Page(a)
    BY <1>0, <1>5, <2>1, Sizes, RangeHasByte
  <2>3. a \in Kept(m)
    BY DEF Kept, Loaded
  <2>. QED  BY <1>2, <2>2, <2>3
<1>6. CASE m.info_mods /\ f \in Pages(m.mods_addr, ModsEnd(m))
  <2>0. PICK addr \in Nat : addr = m.mods_addr
    BY <1>0
  <2>1. ModsEnd(m) = addr + n /\ addr + n \in Nat /\ addr + n < SPACE
    <3>1. addr + n \in Nat /\ addr + n < SPACE
      BY <1>0, <1>1, <2>0
    <3>. QED  BY <2>0, <3>1, CutSmall DEF ModsEnd, n
  <2>2. CASE n # 0
    <3>1. addr < addr + n
      BY <1>1, <2>2
    <3>0. PICK end \in Nat : end = addr + n
      BY <2>1
    <3>5. end <= SPACE /\ addr < end /\ f \in Pages(addr, end)
      BY <1>6, <2>0, <2>1, <3>0, <3>1, Sizes
    <3>2. PICK a \in Bytes(addr, addr + n) : f = Page(a)
      BY <3>0, <3>5, RangeHasByte
    <3>3. a \in Kept(m)
      BY <2>0 DEF Kept, Loaded, Descriptors, n
    <3>. QED  BY <1>2, <3>2, <3>3
  <2>3. CASE n = 0
    <3>0. addr > 0
      BY <1>6, <2>0 DEF Regular
    <3>1. addr - 1 \in Nat /\ addr - 1 < SPACE /\ ModsEnd(m) = addr
      BY <2>1, <2>3, <3>0, Sizes
    <3>2. Cut(addr - 1) = addr - 1
      BY <3>1, CutSmall
    <3>3. f \in addr \div PAGE_SIZE .. (addr - 1) \div PAGE_SIZE
      BY <1>6, <2>0, <3>1, <3>2 DEF Pages, Page
    <3>4. (addr - 1) \div PAGE_SIZE <= addr \div PAGE_SIZE
      BY <3>1, Sizes
    <3>5. f = addr \div PAGE_SIZE
      <4>1. addr \div PAGE_SIZE \in Int /\ (addr - 1) \div PAGE_SIZE \in Int
        BY <3>1, Sizes
      <4>. QED  BY <3>3, <3>4, <4>1
    <3>. QED  BY <1>1, <1>6, <2>0, <2>3, <3>5 DEF OfEmptyTable, Page
  <2>. QED  BY <2>2, <2>3
<1>. QED  BY <1>3, <1>4, <1>5, <1>6 DEF SetLast, ModulePages, ImagePages

\* A frame pass 2 clears is a whole frame of its region, or in the memory below
\* 1 MiB, which pass 3 sets again.
LEMMA ClearedIsRam ==
  ASSUME NEW m \in Machines, Regular(m), NEW e \in Usable(m), NEW f \in RegionPages(e)
  PROVE  \/ Covers(e, f) /\ f \in 0 .. TotalFrames(m) - 1
         \/ f \in PagesOf(Bytes(0, LOW))
<1>0. e.addr \in Nat /\ e.len \in Nat /\ e.addr + e.len <= SPACE
  BY BootAssumption DEF Regular, Usable
<1>1. PICK end \in Nat : end = e.addr + e.len
  BY <1>0
<1>2. end < SPACE
  BY <1>0, <1>1, Sizes, RegionIs
<1>3. PICK a \in e.addr .. end - 1 : f = a \div PAGE_SIZE
  BY <1>0, <1>1, <1>2, RegionIs DEF Page
<1>4. CASE end <= LOW
  <2>1. a \in Bytes(0, LOW)
    BY <1>0, <1>1, <1>4, Sizes DEF Bytes
  <2>. QED  BY <1>3, <2>1 DEF PagesOf, Page
<1>5. CASE ~(end <= LOW)
  <2>1. e.addr % PAGE_SIZE = 0 /\ e.len % PAGE_SIZE = 0
    BY <1>1, <1>5 DEF Regular
  <2>2. f \in Nat /\ e.addr <= f * PAGE_SIZE /\ (f + 1) * PAGE_SIZE <= end
    <3>1. PICK b \in Nat, l \in Nat, p \in Nat \ {0} : b = e.addr /\ l = e.len /\ p = PAGE_SIZE
      BY <1>0, Sizes
    <3>2. a \in b .. b + l - 1 /\ b % p = 0 /\ l % p = 0
      BY <1>1, <2>1, <3>1
    <3>3. a \div p \in Nat /\ b <= (a \div p) * p /\ ((a \div p) + 1) * p <= b + l
      BY <3>2, WholePages
    <3>. QED  BY <1>1, <1>3, <3>1, <3>3
  <2>0. Top(e) = end
    BY <1>0, <1>1, <1>2, RegionIs
  <2>3. PICK h \in Nat : h = Highest(m) /\ end <= h
    BY <2>0, TopHighest
  <2>4. PAGE_SIZE * (f + 1) <= h
    BY <2>2, <2>3, Sizes
  <2>5. f + 1 <= h \div PAGE_SIZE
    <3>1. PICK q \in Nat : q = f + 1
      BY <2>2
    <3>. QED  BY <2>3, <2>4, <3>1, Sizes, DivLess
  <2>6. TotalFrames(m) = h \div PAGE_SIZE /\ TotalFrames(m) \in Nat
    BY <2>3, BootAssumption DEF TotalFrames, Page
  <2>7. f \in 0 .. TotalFrames(m) - 1
    BY <2>2, <2>5, <2>6
  <2>. QED  BY <1>1, <2>2, <2>7 DEF Covers
<1>. QED  BY <1>4, <1>5

\* Pass 2 clears every whole frame of a region that ends below 4 GiB, but for the
\* memory below 1 MiB.
LEMMA RamIsCleared ==
  ASSUME NEW m \in Machines, Regular(m), NEW e \in Usable(m), e.addr + e.len < SPACE,
         NEW f \in Nat, Covers(e, f)
  PROVE  /\ f \in RegionPages(e) \/ f \in PagesOf(Bytes(0, LOW))
         /\ f \in 0 .. TotalFrames(m) - 1
<1>0. e.addr \in Nat /\ e.len \in Nat
  BY BootAssumption DEF Usable
<1>1. PICK end \in Nat : end = e.addr + e.len
  BY <1>0
<1>2. PICK a \in Nat : a = PAGE_SIZE * f
  BY Sizes
<1>3. a = f * PAGE_SIZE /\ PAGE_SIZE * (f + 1) = a + PAGE_SIZE
  BY <1>2, Sizes
<1>4. e.addr <= a /\ a + PAGE_SIZE <= end
  <2>1. (f + 1) * PAGE_SIZE = PAGE_SIZE * (f + 1)
    BY Sizes
  <2>. QED  BY <1>1, <1>3, <2>1 DEF Covers
<1>5. a \div PAGE_SIZE = f
  <2>1. (PAGE_SIZE * f + 0) \div PAGE_SIZE = f
    BY Sizes, DivUnique
  <2>. QED  BY <1>2, <2>1, Sizes
<1>6. f \in 0 .. TotalFrames(m) - 1
  <2>0. Top(e) = end
    <3>1. e.addr + e.len <= SPACE
      BY <1>0, Sizes
    <3>. QED  BY <1>0, <1>1, <3>1, RegionIs
  <2>1. PICK h \in Nat : h = Highest(m) /\ end <= h
    BY <2>0, TopHighest
  <2>2. PAGE_SIZE * (f + 1) <= h
    BY <1>3, <1>4, <2>1, Sizes
  <2>3. f + 1 <= h \div PAGE_SIZE
    <3>1. PICK q \in Nat : q = f + 1
      OBVIOUS
    <3>. QED  BY <2>1, <2>2, <3>1, Sizes, DivLess
  <2>4. TotalFrames(m) = h \div PAGE_SIZE /\ TotalFrames(m) \in Nat
    BY <2>1, BootAssumption DEF TotalFrames, Page
  <2>. QED  BY <2>3, <2>4
<1>7. CASE end <= LOW
  <2>1. a \in Bytes(0, LOW)
    BY <1>4, <1>7, Sizes DEF Bytes
  <2>. QED  BY <1>5, <1>6, <2>1 DEF PagesOf, Page
<1>8. CASE ~(end <= LOW)
  <2>1. e.addr % PAGE_SIZE = 0
    BY <1>1, <1>8 DEF Regular
  <2>2. (a - e.addr) % PAGE_SIZE = 0
    <3>1. PICK b \in Nat, p \in Nat \ {0} : b = e.addr /\ p = PAGE_SIZE
      BY <1>0, Sizes
    <3>2. (p * f - b) % p = 0
      BY <1>2, <1>4, <2>1, <3>1, PagesApart
    <3>. QED  BY <1>2, <3>1, <3>2
  <2>3. a \in e.addr .. e.addr + e.len - 1
    BY <1>0, <1>1, <1>4, Sizes
  <2>4. f \in RegionPages(e)
    BY <1>0, <1>1, <1>5, <2>2, <2>3, Sizes, RegionIs DEF Page
  <2>. QED  BY <1>6, <2>4
<1>. QED  BY <1>7, <1>8

\* The bitmap has a bit for every frame below the top.
LEMMA BitmapHolds ==
  ASSUME NEW m \in Machines
  PROVE  0 .. TotalFrames(m) - 1 \subseteq 0 .. BYTE * BitmapBytes(m) - 1
<1>1. PICK t \in Nat \ {0} : t = TotalFrames(m)
  BY BootAssumption
<1>2. PICK q \in Nat : q = (t + BYTE - 1) \div BYTE
  <2>1. t + BYTE - 1 \in Nat
    BY Sizes
  <2>. QED  BY <2>1, Sizes
<1>3. t <= BYTE * q
  <2>1. t + BYTE - 1 \in Nat /\ q + 1 \in Nat
    BY Sizes
  <2>2. t + BYTE - 1 < BYTE * (q + 1)
    BY <1>2, <2>1, Sizes, DivLess
  <2>3. BYTE * (q + 1) = BYTE * q + BYTE
    BY Sizes
  <2>. QED  BY <2>2, <2>3, Sizes
<1>4. BitmapBytes(m) = q
  BY <1>1, <1>2 DEF BitmapBytes
<1>. QED  BY <1>1, <1>3, <1>4, Sizes

\* What the three passes of pmm_initialize leave is the usable memory, on every
\* regular map and for any modules that the bitmap leaves to be read: no frame outside
\* of it comes into the pool, and none is lost but those that must be kept, the page
\* an empty table of modules is said to be in, and regions that end at 4 GiB.
THEOREM PoolIsRamTheorem == BootSpec => []PoolIsRam
<1>1. MachineKept /\ IInv => PoolIsRam
  <2>. SUFFICES ASSUME MachineKept, IInv, Regular(mbi)  PROVE PoolIsRam
    BY DEF PoolIsRam
  <2>. DEFINE pool == AllFrames \ reserved
  <2>0. /\ mbi \in Machines /\ AllFrames = 0 .. TotalFrames(mbi) - 1
        /\ reserved = BootBitmap(mbi) /\ Bytes(0, LOW) \subseteq Kept(mbi)
    BY DEF MachineKept, AllFrames, Kept, Own
  <2>1. /\ PagesOf(Bytes(0, LOW)) \subseteq SetLast(mbi, mbi)
        /\ PagesOf(Bytes(0, LOW)) \subseteq PagesOf(Kept(mbi))
    BY <2>0 DEF PagesOf, SetLast
  <2>5. ASSUME Intact(mbi)  PROVE reserved = Bitmap(mbi, mbi)
    <3>1. mbi.seen = AsLoaded(mbi)
      BY <2>0, <2>5, BootAssumption
    <3>. QED  BY <2>0, <3>1, LoadedSame DEF BootBitmap, Bitmap
  <2>2. ASSUME Intact(mbi), NEW f \in pool  PROVE \E e \in Usable(mbi) : Covers(e, f)
    <3>1. f \in Cleared(mbi) /\ f \notin SetLast(mbi, mbi)
      BY <2>0, <2>2, <2>5 DEF Bitmap
    <3>2. PICK e \in Usable(mbi) : f \in RegionPages(e)
      BY <3>1 DEF Cleared
    <3>. QED  BY <2>0, <2>1, <3>1, <3>2, ClearedIsRam
  <2>3. ASSUME Intact(mbi), NEW f \in 0 .. Page(SPACE) - 1, NEW e \in Usable(mbi),
               Covers(e, f), e.addr + e.len < SPACE, f \notin pool
        PROVE  f \in PagesOf(Kept(mbi)) \/ (mbi.mods = <<>> /\ f = Page(mbi.mods_addr))
    <3>1. f \in Nat
      BY Sizes DEF Page
    <3>2. /\ f \in RegionPages(e) \/ f \in PagesOf(Bytes(0, LOW))
          /\ f \in 0 .. TotalFrames(mbi) - 1
      BY <2>0, <2>3, <3>1, RamIsCleared
    <3>3. CASE f \in RegionPages(e)
      <4>1. f \in SetLast(mbi, mbi)
        BY <2>0, <2>3, <2>5, <3>2, <3>3 DEF Bitmap, Cleared
      <4>. QED  BY <2>0, <4>1, SetIsKept DEF OfEmptyTable
    <3>. QED  BY <2>1, <3>2, <3>3
  <2>4. ASSUME InMemory(mbi), NEW f \in Written(mbi, AsLoaded(mbi))
        PROVE  f \in 0 .. BYTE * BitmapBytes(mbi) - 1
    <3>1. f \in PagesOf(Kept(mbi)) => f \in 0 .. TotalFrames(mbi) - 1
      BY <2>4 DEF InMemory, PagesOf
    <3>2. OfEmptyTable(mbi, f) => f \in 0 .. TotalFrames(mbi) - 1
      BY <2>4 DEF InMemory, PagesOf, OfEmptyTable
    <3>3. CASE f \in SetLast(mbi, mbi)
      BY <2>0, <3>1, <3>2, <3>3, SetIsKept, BitmapHolds
    <3>4. ASSUME NEW e \in Usable(mbi), f \in RegionPages(e)
          PROVE  f \in 0 .. TotalFrames(mbi) - 1
      BY <2>0, <2>1, <3>1, <3>4, ClearedIsRam
    <3>. QED  BY <2>0, <3>3, <3>4, BitmapHolds, LoadedSame DEF Written, Cleared
  <2>. QED  BY <2>2, <2>3, <2>4 DEF PoolIsRam
<1>. QED  BY <1>1, StartupUsesPmm, MachineInvariance, Invariance, PTL

-----------------------------------------------------------------------------
(***************************************************************************)
(* The archive.  What tar writes, octal_to_int reads back, and the steps   *)
(* of initrd_initialize go from header to header.                          *)
(***************************************************************************)

\* One more entry of a table whose entries are computed from the one before.
LEMMA TableOne ==
  ASSUME NEW n \in Nat, NEW a \in Nat, NEW F \in [(1 .. n) \X Nat -> Nat], NEW k \in 0 .. n - 1,
         NEW f \in [0 .. k -> Nat], f[0] = a, \A i \in 1 .. k : f[i] = F[<<i, f[i - 1]>>]
  PROVE  \E g \in [0 .. k + 1 -> Nat] : g[0] = a /\ \A i \in 1 .. k + 1 : g[i] = F[<<i, g[i - 1]>>]
<1>. DEFINE g == [i \in 0 .. k + 1 |-> IF i = k + 1 THEN F[<<k + 1, f[k]>>] ELSE f[i]]
<1>1. f[k] \in Nat /\ k + 1 \in 1 .. n
  OBVIOUS
<1>2. F[<<k + 1, f[k]>>] \in Nat
  BY <1>1
<1>3. g \in [0 .. k + 1 -> Nat] /\ g[0] = a
  BY <1>2
<1>4. ASSUME NEW i \in 1 .. k + 1  PROVE g[i] = F[<<i, g[i - 1]>>]
  <2>0. i - 1 \in 0 .. k + 1 /\ i - 1 # k + 1 /\ i \in 0 .. k + 1
    OBVIOUS
  <2>1. g[i - 1] = f[i - 1]
    BY <2>0
  <2>2. CASE i = k + 1
    <3>1. i - 1 = k
      BY <2>2
    <3>. QED  BY <2>0, <2>1, <2>2, <3>1
  <2>3. CASE i # k + 1
    <3>1. i \in 1 .. k
      BY <2>3
    <3>2. g[i] = f[i]
      BY <2>0, <2>3
    <3>3. f[i] = F[<<i, f[i - 1]>>]
      BY <3>1
    <3>. QED  BY <2>1, <3>2, <3>3
  <2>. QED  BY <2>2, <2>3
<1>. QED  BY <1>3, <1>4

\* A table whose entries are computed each from the one before exists.
LEMMA Table ==
  ASSUME NEW n \in Nat, NEW a \in Nat, NEW F \in [(1 .. n) \X Nat -> Nat]
  PROVE  \E f \in [0 .. n -> Nat] : f[0] = a /\ \A i \in 1 .. n : f[i] = F[<<i, f[i - 1]>>]
<1>. DEFINE S == {k \in Nat : \E f \in [0 .. k -> Nat] :
                                 f[0] = a /\ \A i \in 1 .. k : f[i] = F[<<i, f[i - 1]>>]}
<1>1. 0 \in S
  <2>1. PICK f : f = [i \in 0 .. 0 |-> a]
    OBVIOUS
  <2>2. f \in [0 .. 0 -> Nat] /\ f[0] = a /\ \A i \in 1 .. 0 : f[i] = F[<<i, f[i - 1]>>]
    BY <2>1
  <2>. QED  BY <2>2
<1>2. ASSUME NEW k \in 0 .. n - 1, k \in S  PROVE k + 1 \in S
  <2>1. PICK f \in [0 .. k -> Nat] : f[0] = a /\ \A i \in 1 .. k : f[i] = F[<<i, f[i - 1]>>]
    BY <1>2
  <2>2. \E g \in [0 .. k + 1 -> Nat] : g[0] = a /\ \A i \in 1 .. k + 1 : g[i] = F[<<i, g[i - 1]>>]
    BY <2>1, TableOne
  <2>3. k + 1 \in Nat
    OBVIOUS
  <2>. QED  BY <2>2, <2>3, Zenon
<1>3. n \in S
  <2>1. n \in 0 .. n
    OBVIOUS
  <2>2. PICK T : T = S
    OBVIOUS
  <2>3. 0 \in T /\ \A i \in 0 .. n - 1 : i \in T => i + 1 \in T
    BY <1>1, <1>2, <2>2
  <2>4. n \in T
    BY <2>1, <2>3, CountUp
  <2>. QED  BY <2>2, <2>4
<1>. QED  BY <1>3

\* The constants of the archive.
LEMMA Units == BLOCK \in Nat \ {0} /\ DIGITS \in Nat /\ SPACE \in Nat \ {0} /\ IDENTITY \in Nat
BY BootAssumption

\* Each digit that tar writes takes an eighth.
LEMMA EighthsIs ==
  ASSUME NEW n \in Nat
  PROVE  /\ Eighths(n)[0] = n
         /\ \A k \in 0 .. DIGITS : Eighths(n)[k] \in Nat
         /\ \A k \in 1 .. DIGITS : Eighths(n)[k] = Eighths(n)[k - 1] \div 8
<1>. DEFINE F == [p \in (1 .. DIGITS) \X Nat |-> p[2] \div 8]
<1>1. F \in [(1 .. DIGITS) \X Nat -> Nat]
  OBVIOUS
<1>2. PICK f \in [0 .. DIGITS -> Nat] : f[0] = n /\ \A i \in 1 .. DIGITS : f[i] = F[<<i, f[i - 1]>>]
  <2>0. PICK d \in Nat : d = DIGITS
    BY Units
  <2>1. PICK G : G = F
    OBVIOUS
  <2>2. G \in [(1 .. d) \X Nat -> Nat]
    BY <1>1, <2>0, <2>1
  <2>3. \E f \in [0 .. d -> Nat] : f[0] = n /\ \A i \in 1 .. d : f[i] = G[<<i, f[i - 1]>>]
    BY <2>2, Table
  <2>. QED  BY <2>0, <2>1, <2>3
<1>3. \A i \in 1 .. DIGITS : f[i] = f[i - 1] \div 8
  <2>. SUFFICES ASSUME NEW i \in 1 .. DIGITS  PROVE f[i] = f[i - 1] \div 8
    OBVIOUS
  <2>1. i - 1 \in 0 .. DIGITS
    BY Units
  <2>2. f[i - 1] \in Nat
    BY <2>1
  <2>3. <<i, f[i - 1]>> \in (1 .. DIGITS) \X Nat
    BY <2>2
  <2>4. F[<<i, f[i - 1]>>] = f[i - 1] \div 8
    BY <2>3
  <2>. QED  BY <1>2, <2>4
<1>4. f = [k \in 0 .. DIGITS |-> IF k = 0 THEN n ELSE f[k - 1] \div 8]
  <2>1. f = [k \in 0 .. DIGITS |-> f[k]]
    OBVIOUS
  <2>2. \A k \in 0 .. DIGITS : f[k] = IF k = 0 THEN n ELSE f[k - 1] \div 8
    BY <1>2, <1>3, Units
  <2>. QED  BY <2>1, <2>2
<1>. DEFINE e == CHOOSE g : g = [k \in 0 .. DIGITS |-> IF k = 0 THEN n ELSE g[k - 1] \div 8]
<1>5. Eighths(n) = e
  BY Zenon DEF Eighths
<1>6. e = [k \in 0 .. DIGITS |-> IF k = 0 THEN n ELSE e[k - 1] \div 8]
  BY <1>4, Zenon
<1>7. PICK g : g = e
  OBVIOUS
<1>8. g = [k \in 0 .. DIGITS |-> IF k = 0 THEN n ELSE g[k - 1] \div 8]
  BY <1>6, <1>7, Zenon
<1>9. g[0] = n /\ \A k \in 1 .. DIGITS : g[k] = g[k - 1] \div 8
  <2>1. 0 \in 0 .. DIGITS /\ \A k \in 1 .. DIGITS : k \in 0 .. DIGITS /\ k # 0
    BY Units
  <2>. QED  BY <1>8, <2>1
<1>10. \A k \in 0 .. DIGITS : g[k] \in Nat
  <2>. DEFINE S == {k \in Nat : g[k] \in Nat}
  <2>1. 0 \in S
    BY <1>9
  <2>2. \A k \in 0 .. DIGITS - 1 : k \in S => k + 1 \in S
    <3>. SUFFICES ASSUME NEW k \in 0 .. DIGITS - 1, k \in S  PROVE k + 1 \in S
      OBVIOUS
    <3>1. k + 1 \in 1 .. DIGITS /\ k + 1 - 1 = k /\ g[k] \in Nat
      BY Units
    <3>2. g[k + 1] = g[k] \div 8
      BY <1>9, <3>1
    <3>3. g[k] \div 8 \in Nat
      BY <3>1
    <3>. QED  BY <3>1, <3>2, <3>3
  <2>3. PICK T : T = S
    OBVIOUS
  <2>4. 0 \in T /\ \A i \in 0 .. DIGITS - 1 : i \in T => i + 1 \in T
    BY <2>1, <2>2, <2>3
  <2>5. \A i \in 0 .. DIGITS : i \in T
    BY <2>4, Units, CountUp
  <2>. QED  BY <2>3, <2>5
<1>. QED  BY <1>5, <1>7, <1>9, <1>10, Zenon

\* No eighth is larger than the size.
LEMMA EighthsBelow ==
  ASSUME NEW n \in Nat, NEW k \in 0 .. DIGITS
  PROVE  Eighths(n)[k] \in Nat /\ Eighths(n)[k] <= n
<1>0. PICK g : g = Eighths(n)
  OBVIOUS
<1>1. g[0] = n /\ \A i \in 0 .. DIGITS : g[i] \in Nat
  BY <1>0, EighthsIs
<1>2. \A i \in 1 .. DIGITS : g[i] = g[i - 1] \div 8
  BY <1>0, EighthsIs
<1>. DEFINE S == {i \in Nat : g[i] <= n}
<1>3. 0 \in S
  BY <1>1
<1>4. ASSUME NEW i \in 0 .. DIGITS - 1, i \in S  PROVE i + 1 \in S
  <2>1. i + 1 \in 1 .. DIGITS /\ i + 1 - 1 = i /\ i \in 0 .. DIGITS /\ i + 1 \in Nat
    BY Units
  <2>2. PICK x \in Nat : x = g[i]
    BY <1>1, <2>1
  <2>3. g[i + 1] = x \div 8
    BY <1>2, <2>1, <2>2
  <2>4. x \div 8 <= x /\ x \div 8 \in Nat
    OBVIOUS
  <2>5. x \div 8 <= n
    BY <1>4, <2>2, <2>4
  <2>. QED  BY <2>1, <2>3, <2>5
<1>5. PICK T : T = S
  OBVIOUS
<1>6. 0 \in T /\ \A i \in 0 .. DIGITS - 1 : i \in T => i + 1 \in T
  BY <1>3, <1>4, <1>5
<1>7. k \in T
  BY <1>6, Units, CountUp
<1>. QED  BY <1>0, <1>1, <1>5, <1>7

\* octal_to_int takes the field of a size up to the character that ends it.
LEMMA FieldDigits ==
  ASSUME NEW n \in Nat
  PROVE  /\ Digits(SizeField(n)) = DIGITS
         /\ \A i \in 1 .. DIGITS : SizeField(n)[i] = Eighths(n)[DIGITS - i] % 8
<1>0. PICK s, e : s = SizeField(n) /\ e = Eighths(n)
  OBVIOUS
<1>e. \A k \in 0 .. DIGITS : e[k] \in Nat
  BY <1>0, EighthsIs
<1>1. s = [i \in 1 .. DIGITS + 1 |-> IF i > DIGITS THEN Blank ELSE e[DIGITS - i] % 8]
  BY <1>0, Zenon DEF SizeField
<1>2. \A i \in 1 .. DIGITS : s[i] = e[DIGITS - i] % 8
  BY <1>1, Units
<1>3. s[DIGITS + 1] = Blank
  BY <1>1, Units
<1>4. Len(s) = DIGITS + 1
  <2>1. DIGITS + 1 \in Nat
    BY Units
  <2>. QED  BY <1>1, <2>1
<1>5. \A i \in 1 .. DIGITS : s[i] \in 0 .. 7
  <2>. SUFFICES ASSUME NEW i \in 1 .. DIGITS  PROVE s[i] \in 0 .. 7
    OBVIOUS
  <2>1. DIGITS - i \in 0 .. DIGITS
    BY Units
  <2>2. PICK x \in Nat : x = e[DIGITS - i]
    BY <1>e, <2>1
  <2>. QED  BY <1>2, <2>2
<1>. DEFINE R == {i \in 0 .. Len(s) : i = Len(s) \/ s[i + 1] \notin 0 .. 7}
<1>6. DIGITS \in R
  BY <1>3, <1>4, Units DEF Blank
<1>7. R \in SUBSET Nat
  BY <1>4, Units
<1>8. PICK d : d = Min(R)
  OBVIOUS
<1>9. d \in R /\ d <= DIGITS
  BY <1>6, <1>7, <1>8, MinIsLeast
<1>10. d \in Nat /\ ~(d < DIGITS)
  <2>. SUFFICES ASSUME d < DIGITS  PROVE FALSE
    BY <1>7, <1>9
  <2>1. d + 1 \in 1 .. DIGITS /\ d # Len(s)
    BY <1>4, <1>7, <1>9, Units
  <2>. QED  BY <1>5, <1>9, <2>1
<1>11. d = DIGITS
  BY <1>9, <1>10, Units
<1>12. Digits(s) = Min(R)
  BY Zenon DEF Digits
<1>. QED  BY <1>0, <1>2, <1>8, <1>11, <1>12

\* The value that the loop of octal_to_int has after each digit.
LEMMA OctalIs ==
  ASSUME NEW s, Digits(s) \in Nat, \A i \in 1 .. Digits(s) : s[i] \in Nat
  PROVE  \E v : /\ v[0] = 0 /\ octal_to_int(s) = v[Digits(s)]
                /\ \A i \in 1 .. Digits(s) : v[i] = Cut(v[i - 1] * 8 + s[i])
<1>0. PICK d \in Nat : d = Digits(s)
  OBVIOUS
<1>. DEFINE F == [p \in (1 .. d) \X Nat |-> Cut(p[2] * 8 + s[p[1]])]
<1>1. F \in [(1 .. d) \X Nat -> Nat]
  <2>. SUFFICES ASSUME NEW i \in 1 .. d, NEW x \in Nat  PROVE Cut(x * 8 + s[i]) \in Nat
    OBVIOUS
  <2>1. PICK y \in Nat : y = x * 8 + s[i]
    BY <1>0
  <2>2. y % SPACE \in Nat
    BY Units
  <2>. QED  BY <2>1, <2>2 DEF Cut
<1>2. PICK f \in [0 .. d -> Nat] : f[0] = 0 /\ \A i \in 1 .. d : f[i] = F[<<i, f[i - 1]>>]
  <2>0. PICK a \in Nat : a = 0
    OBVIOUS
  <2>1. PICK G : G = F
    OBVIOUS
  <2>2. G \in [(1 .. d) \X Nat -> Nat]
    BY <1>1, <2>1
  <2>3. \E f \in [0 .. d -> Nat] : f[0] = a /\ \A i \in 1 .. d : f[i] = G[<<i, f[i - 1]>>]
    BY <2>2, Table
  <2>. QED  BY <2>0, <2>1, <2>3
<1>3. \A i \in 1 .. d : f[i] = Cut(f[i - 1] * 8 + s[i])
  <2>. SUFFICES ASSUME NEW i \in 1 .. d  PROVE f[i] = Cut(f[i - 1] * 8 + s[i])
    OBVIOUS
  <2>1. i - 1 \in 0 .. d
    OBVIOUS
  <2>2. <<i, f[i - 1]>> \in (1 .. d) \X Nat
    BY <2>1
  <2>3. F[<<i, f[i - 1]>>] = Cut(f[i - 1] * 8 + s[i])
    BY <2>2
  <2>. QED  BY <1>2, <2>3
<1>4. f = [i \in 0 .. d |-> IF i = 0 THEN 0 ELSE Cut(f[i - 1] * 8 + s[i])]
  <2>1. f = [i \in 0 .. d |-> f[i]]
    OBVIOUS
  <2>2. \A i \in 0 .. d : f[i] = IF i = 0 THEN 0 ELSE Cut(f[i - 1] * 8 + s[i])
    BY <1>2, <1>3
  <2>. QED  BY <2>1, <2>2
<1>. DEFINE w == CHOOSE v : v = [i \in 0 .. Digits(s) |-> IF i = 0 THEN 0 ELSE Cut(v[i - 1] * 8 + s[i])]
<1>5. octal_to_int(s) = w[Digits(s)]
  BY Zenon DEF octal_to_int
<1>6. w = [i \in 0 .. Digits(s) |-> IF i = 0 THEN 0 ELSE Cut(w[i - 1] * 8 + s[i])]
  BY <1>0, <1>4, Zenon
<1>7. PICK v : v = w
  OBVIOUS
<1>8. v = [i \in 0 .. d |-> IF i = 0 THEN 0 ELSE Cut(v[i - 1] * 8 + s[i])]
  BY <1>0, <1>6, <1>7, Zenon
<1>9. v[0] = 0 /\ \A i \in 1 .. d : v[i] = Cut(v[i - 1] * 8 + s[i])
  <2>1. 0 \in 0 .. d /\ \A i \in 1 .. d : i \in 0 .. d /\ i # 0
    OBVIOUS
  <2>. QED  BY <1>8, <2>1
<1>. QED  BY <1>0, <1>5, <1>7, <1>9, Zenon

\* octal_to_int reads the size that tar wrote.
LEMMA SizeRead ==
  ASSUME NEW n \in Nat, n < SPACE, Eighths(n)[DIGITS] = 0
  PROVE  octal_to_int(SizeField(n)) = n
<1>0. PICK s, e : s = SizeField(n) /\ e = Eighths(n)
  OBVIOUS
<1>1. Digits(s) = DIGITS /\ \A i \in 1 .. DIGITS : s[i] = e[DIGITS - i] % 8
  BY <1>0, FieldDigits
<1>2. /\ e[0] = n /\ e[DIGITS] = 0
      /\ \A k \in 0 .. DIGITS : e[k] \in Nat /\ e[k] < SPACE
      /\ \A k \in 1 .. DIGITS : e[k] = e[k - 1] \div 8
  <2>1. \A k \in 0 .. DIGITS : e[k] \in Nat /\ e[k] <= n
    BY <1>0, EighthsBelow
  <2>. QED  BY <1>0, <2>1, Units, EighthsIs
<1>3. \A i \in 1 .. DIGITS : s[i] \in Nat
  <2>. SUFFICES ASSUME NEW i \in 1 .. DIGITS  PROVE s[i] \in Nat
    OBVIOUS
  <2>1. DIGITS - i \in 0 .. DIGITS
    BY Units
  <2>2. PICK x \in Nat : x = e[DIGITS - i]
    BY <1>2, <2>1
  <2>3. x % 8 \in Nat
    OBVIOUS
  <2>. QED  BY <1>1, <2>2, <2>3
<1>4. PICK v : /\ v[0] = 0 /\ octal_to_int(s) = v[DIGITS]
               /\ \A i \in 1 .. DIGITS : v[i] = Cut(v[i - 1] * 8 + s[i])
  <2>1. Digits(s) \in Nat /\ \A i \in 1 .. Digits(s) : s[i] \in Nat
    BY <1>1, <1>3, Units
  <2>2. \E v : /\ v[0] = 0 /\ octal_to_int(s) = v[Digits(s)]
               /\ \A i \in 1 .. Digits(s) : v[i] = Cut(v[i - 1] * 8 + s[i])
    BY <2>1, OctalIs, Zenon
  <2>. QED  BY <1>1, <2>2, Zenon
<1>. DEFINE S == {i \in Nat : v[i] = e[DIGITS - i]}
<1>5. 0 \in S
  BY <1>2, <1>4, Units
<1>6. ASSUME NEW i \in 0 .. DIGITS - 1, i \in S  PROVE i + 1 \in S
  <2>1. /\ i + 1 \in Nat /\ i + 1 \in 1 .. DIGITS /\ i + 1 - 1 = i
        /\ DIGITS - i \in 1 .. DIGITS /\ DIGITS - i - 1 = DIGITS - (i + 1)
        /\ DIGITS - (i + 1) \in 0 .. DIGITS
    BY Units
  <2>2. PICK x \in Nat : x = e[DIGITS - (i + 1)] /\ x < SPACE
    BY <1>2, <2>1
  <2>3. v[i] = x \div 8
    BY <1>2, <1>6, <2>1, <2>2
  <2>4. s[i + 1] = x % 8
    BY <1>1, <2>1, <2>2
  <2>5. v[i + 1] = Cut((x \div 8) * 8 + (x % 8))
    BY <1>4, <2>1, <2>3, <2>4
  <2>6. (x \div 8) * 8 + (x % 8) = x
    OBVIOUS
  <2>7. Cut(x) = x
    BY <2>2, CutSmall
  <2>. QED  BY <2>1, <2>2, <2>5, <2>6, <2>7
<1>7. PICK T : T = S
  OBVIOUS
<1>8. 0 \in T /\ \A i \in 0 .. DIGITS - 1 : i \in T => i + 1 \in T
  BY <1>5, <1>6, <1>7
<1>9. DIGITS \in T
  BY <1>8, Units, CountUp
<1>10. v[DIGITS] = e[DIGITS - DIGITS] /\ DIGITS - DIGITS = 0
  BY <1>7, <1>9, Units
<1>. QED  BY <1>0, <1>2, <1>4, <1>10

\* From one header of the archive to the next, without the limits of the machine.
Stride(n) == BLOCK + ((n + BLOCK - 1) \div BLOCK) * BLOCK

\* A step goes past the header and the bytes of its file.
LEMMA StepIs ==
  ASSUME NEW n \in Nat
  PROVE  /\ Stride(n) \in Nat /\ BLOCK + n <= Stride(n)
         /\ BLOCK * (1 + Blocks(n)) = Stride(n)
<1>0. n + BLOCK - 1 \in Nat /\ BLOCK \in Nat \ {0}
  BY Units
<1>1. PICK q \in Nat : q = (n + BLOCK - 1) \div BLOCK
  BY <1>0
<1>2. q + 1 \in Nat /\ n + BLOCK - 1 < BLOCK * (q + 1)
  BY <1>0, <1>1, DivLess
<1>3. BLOCK * (q + 1) = BLOCK * q + BLOCK /\ BLOCK * q \in Nat /\ BLOCK * (1 + q) = BLOCK + q * BLOCK
      /\ q * BLOCK = BLOCK * q
  BY <1>0
<1>. QED  BY <1>0, <1>1, <1>2, <1>3 DEF Stride, Blocks

\* The kernel takes that step if the sum it divides does not wrap around.
LEMMA StepTaken ==
  ASSUME NEW n \in Nat, BLOCK + n <= SPACE
  PROVE  HeaderStep(n) = Stride(n)
<1>1. PICK x \in Nat : x = n + BLOCK - 1
  BY Units
<1>2. x < SPACE
  BY <1>1, Units
<1>3. Cut(n + BLOCK - 1) = n + BLOCK - 1
  BY <1>1, <1>2, CutSmall
<1>. QED  BY <1>3 DEF HeaderStep, Stride

\* What is known of a machine with a module.
LEMMA ArchiveIs ==
  ASSUME NEW m \in Machines, m.mods # <<>>
  PROVE  /\ m.mods[1].start \in Nat /\ m.mods[1].end \in Nat /\ m.mods[1].end <= SPACE
         /\ 1 \in DOMAIN m.mods /\ Len(m.mods) # 0 /\ m.info_mods
         /\ Len(m.archive) \in Nat /\ DOMAIN m.archive = 1 .. Len(m.archive)
         /\ \A i \in 1 .. Len(m.archive) :
              m.archive[i].size \in Nat /\ Eighths(m.archive[i].size)[DIGITS] = 0
<1>1. m.mods \in Seq([start : 0 .. SPACE - 1, end : 1 .. SPACE])
  BY BootAssumption
<1>2. Len(m.mods) # 0 /\ 1 \in 1 .. Len(m.mods) /\ 1 \in DOMAIN m.mods
  BY <1>1
<1>3. m.mods[1] \in [start : 0 .. SPACE - 1, end : 1 .. SPACE]
  BY <1>1, <1>2, ElementOfSeq
<1>4. m.mods[1].start \in Nat /\ m.mods[1].end \in Nat /\ m.mods[1].end <= SPACE
  BY <1>3, Units
<1>5. m.info_mods /\ Len(m.archive) \in Nat /\ DOMAIN m.archive = 1 .. Len(m.archive)
  BY BootAssumption
<1>6. \A i \in 1 .. Len(m.archive) :
        m.archive[i].size \in Nat /\ Eighths(m.archive[i].size)[DIGITS] = 0
  BY <1>5, BootAssumption
<1>. QED  BY <1>2, <1>4, <1>5, <1>6

\* The first header is where the module begins, and the others follow step by step.
LEMMA HeadersFollow ==
  ASSUME NEW m \in Machines, m.mods # <<>>
  PROVE  /\ HeaderAddr(m, 1) = m.mods[1].start
         /\ \A i \in 1 .. Len(m.archive) :
              HeaderAddr(m, i + 1) = HeaderAddr(m, i) + Stride(m.archive[i].size)
<1>0. PICK n \in Nat, a \in Nat : n = Len(m.archive) /\ a = m.mods[1].start
  BY ArchiveIs
<1>s. PICK z : z = [i \in 1 .. n |-> m.archive[i].size]
  OBVIOUS
<1>z. \A i \in 1 .. n : z[i] = m.archive[i].size /\ z[i] \in Nat
  BY <1>0, <1>s, ArchiveIs
<1>t. \A i \in 1 .. n : BLOCK * (1 + Blocks(z[i])) \in Nat /\ BLOCK * (1 + Blocks(z[i])) = Stride(z[i])
  BY <1>z, StepIs
<1>. DEFINE F == [p \in (1 .. n) \X Nat |-> p[2] + Stride(z[p[1]])]
<1>1. F \in [(1 .. n) \X Nat -> Nat]
  BY <1>t
<1>2. PICK f \in [0 .. n -> Nat] : f[0] = a /\ \A i \in 1 .. n : f[i] = F[<<i, f[i - 1]>>]
  <2>1. PICK G : G = F
    OBVIOUS
  <2>2. G \in [(1 .. n) \X Nat -> Nat]
    BY <1>1, <2>1
  <2>3. \E f \in [0 .. n -> Nat] : f[0] = a /\ \A i \in 1 .. n : f[i] = G[<<i, f[i - 1]>>]
    BY <2>2, Table
  <2>. QED  BY <2>1, <2>3
<1>3. \A i \in 1 .. n : f[i] = f[i - 1] + Stride(z[i])
  <2>. SUFFICES ASSUME NEW i \in 1 .. n  PROVE f[i] = f[i - 1] + Stride(z[i])
    OBVIOUS
  <2>1. i - 1 \in 0 .. n
    OBVIOUS
  <2>2. <<i, f[i - 1]>> \in (1 .. n) \X Nat
    BY <2>1
  <2>3. F[<<i, f[i - 1]>>] = f[i - 1] + Stride(z[i])
    BY <2>2
  <2>. QED  BY <1>2, <2>3
<1>. DEFINE g == [j \in 1 .. n + 1 |-> f[j - 1]]
<1>4. \A j \in 1 .. n + 1 :
        g[j] = IF j = 1 THEN a ELSE g[j - 1] + BLOCK * (1 + Blocks(m.archive[j - 1].size))
  <2>. SUFFICES ASSUME NEW j \in 1 .. n + 1
                PROVE  g[j] = IF j = 1 THEN a ELSE g[j - 1] + BLOCK * (1 + Blocks(m.archive[j - 1].size))
    OBVIOUS
  <2>1. CASE j = 1
    BY <1>2, <2>1
  <2>2. CASE j # 1
    <3>1. j - 1 \in 1 .. n /\ j - 1 \in 1 .. n + 1
      BY <2>2
    <3>2. g[j - 1] = f[j - 1 - 1] /\ g[j] = f[j - 1]
      BY <3>1
    <3>3. f[j - 1] = f[j - 1 - 1] + Stride(z[j - 1])
      BY <1>3, <3>1
    <3>4. Stride(z[j - 1]) = BLOCK * (1 + Blocks(m.archive[j - 1].size))
      BY <1>t, <1>z, <3>1
    <3>. QED  BY <2>2, <3>2, <3>3, <3>4
  <2>. QED  BY <2>1, <2>2
<1>5. PICK h : h = g
  OBVIOUS
<1>6. h = [j \in 1 .. Len(m.archive) + 1 |->
             IF j = 1 THEN m.mods[1].start
             ELSE h[j - 1] + BLOCK * (1 + Blocks(m.archive[j - 1].size))]
  <2>0. h = [j \in 1 .. n + 1 |-> h[j]]
    BY <1>5, Zenon
  <2>1. h = [j \in 1 .. Len(m.archive) + 1 |-> h[j]]
    BY <1>0, <2>0
  <2>2. \A j \in 1 .. Len(m.archive) + 1 :
          h[j] = IF j = 1 THEN m.mods[1].start
                 ELSE h[j - 1] + BLOCK * (1 + Blocks(m.archive[j - 1].size))
    BY <1>0, <1>4, <1>5, Zenon
  <2>. QED  BY <2>1, <2>2, Zenon
<1>. DEFINE w == CHOOSE at : at = [j \in 1 .. Len(m.archive) + 1 |->
              IF j = 1 THEN m.mods[1].start
              ELSE at[j - 1] + BLOCK * (1 + Blocks(m.archive[j - 1].size))]
<1>7. \A i : HeaderAddr(m, i) = w[i]
  BY Zenon DEF HeaderAddr
<1>8. w = [j \in 1 .. Len(m.archive) + 1 |->
             IF j = 1 THEN m.mods[1].start
             ELSE w[j - 1] + BLOCK * (1 + Blocks(m.archive[j - 1].size))]
  BY <1>6, Zenon
<1>. HIDE DEF w
<1>9. PICK v : v = w
  OBVIOUS
<1>10. v = [j \in 1 .. Len(m.archive) + 1 |->
              IF j = 1 THEN m.mods[1].start
              ELSE v[j - 1] + BLOCK * (1 + Blocks(m.archive[j - 1].size))]
  BY <1>8, <1>9
<1>11. v[1] = a
  <2>1. 1 \in 1 .. Len(m.archive) + 1
    BY <1>0
  <2>. QED  BY <1>0, <1>10, <2>1
<1>12. ASSUME NEW i \in 1 .. n  PROVE v[i + 1] = v[i] + Stride(m.archive[i].size)
  <2>1. i + 1 \in 1 .. Len(m.archive) + 1 /\ i + 1 # 1 /\ i + 1 - 1 = i
    BY <1>0
  <2>2. v[i + 1] = v[i + 1 - 1] + BLOCK * (1 + Blocks(m.archive[i + 1 - 1].size))
    BY <1>10, <2>1
  <2>3. BLOCK * (1 + Blocks(m.archive[i].size)) = Stride(m.archive[i].size)
    BY <1>t, <1>z
  <2>. QED  BY <2>1, <2>2, <2>3
<1>. QED  BY <1>0, <1>7, <1>9, <1>11, <1>12, Zenon

\* The headers lie one after the other, with the bytes of each file before the next.
LEMMA HeadersAscend ==
  ASSUME NEW m \in Machines, m.mods # <<>>, NEW j \in 1 .. Len(m.archive) + 1
  PROVE  /\ HeaderAddr(m, j) \in Nat /\ m.mods[1].start <= HeaderAddr(m, j)
         /\ \A i \in 1 .. Len(m.archive) :
              i < j => HeaderAddr(m, i) + BLOCK + m.archive[i].size <= HeaderAddr(m, j)
<1>0. PICK n \in Nat, a \in Nat : n = Len(m.archive) /\ a = m.mods[1].start
  BY ArchiveIs
<1>z. PICK z, h, t : /\ z = [i \in 1 .. n |-> m.archive[i].size]
                     /\ h = [i \in 1 .. n + 1 |-> HeaderAddr(m, i)]
                     /\ t = [i \in 1 .. n |-> Stride(m.archive[i].size)]
  OBVIOUS
<1>1. /\ \A i \in 1 .. n + 1 : h[i] = HeaderAddr(m, i)
      /\ \A i \in 1 .. n : z[i] = m.archive[i].size /\ t[i] = Stride(m.archive[i].size)
  BY <1>z
<1>2. \A i \in 1 .. n : z[i] \in Nat /\ t[i] \in Nat /\ BLOCK + z[i] <= t[i]
  BY <1>0, <1>1, ArchiveIs, StepIs
<1>3. h[1] = a /\ \A i \in 1 .. n : h[i + 1] = h[i] + t[i]
  <2>1. 1 \in 1 .. n + 1 /\ \A i \in 1 .. n : i \in 1 .. n + 1 /\ i + 1 \in 1 .. n + 1
    OBVIOUS
  <2>2. HeaderAddr(m, 1) = a
    BY <1>0, HeadersFollow
  <2>3. \A i \in 1 .. n : HeaderAddr(m, i + 1) = HeaderAddr(m, i) + Stride(m.archive[i].size)
    BY <1>0, HeadersFollow
  <2>. QED  BY <1>1, <2>1, <2>2, <2>3
<1>. DEFINE S == {k \in Nat : /\ h[k + 1] \in Nat /\ a <= h[k + 1]
                             /\ \A i \in 1 .. n :
                                  i < k + 1 => h[i] \in Nat /\ h[i] + BLOCK + z[i] <= h[k + 1]}
<1>4. 0 \in S
  BY <1>3
<1>5. ASSUME NEW k \in 0 .. n - 1, k \in S  PROVE k + 1 \in S
  <2>0. k + 1 \in 1 .. n /\ k + 1 \in Nat
    OBVIOUS
  <2>1. PICK x \in Nat, y \in Nat, c \in Nat : x = h[k + 1] /\ y = t[k + 1] /\ c = z[k + 1]
    BY <1>2, <1>5, <2>0
  <2>2. h[k + 1 + 1] = x + y /\ BLOCK + c <= y /\ a <= x
    BY <1>2, <1>3, <1>5, <2>0, <2>1
  <2>3. ASSUME NEW i \in 1 .. n, i < k + 1 + 1  PROVE h[i] \in Nat /\ h[i] + BLOCK + z[i] <= x + y
    <3>1. CASE i = k + 1
      <4>1. h[i] = x /\ z[i] = c
        BY <2>1, <3>1
      <4>2. x + BLOCK + c <= x + y
        BY <2>2, Units
      <4>. QED  BY <4>1, <4>2
    <3>2. CASE i # k + 1
      <4>0. i < k + 1
        BY <2>3, <3>2
      <4>1. h[i] \in Nat /\ h[i] + BLOCK + z[i] <= x
        BY <1>5, <2>1, <4>0
      <4>2. PICK b \in Nat, e \in Nat : b = h[i] /\ e = z[i]
        BY <1>2, <4>1
      <4>3. b + BLOCK + e <= x + y
        BY <4>1, <4>2, Units
      <4>. QED  BY <4>2, <4>3
    <3>. QED  BY <3>1, <3>2
  <2>4. x + y \in Nat /\ a <= x + y
    BY <2>2
  <2>. QED  BY <2>0, <2>2, <2>3, <2>4
<1>6. PICK T : T = S
  OBVIOUS
<1>7. 0 \in T /\ \A i \in 0 .. n - 1 : i \in T => i + 1 \in T
  BY <1>4, <1>5, <1>6
<1>8. j - 1 \in 0 .. n /\ j - 1 + 1 = j
  BY <1>0
<1>9. j - 1 \in T
  BY <1>7, <1>8, CountUp
<1>10. h[j] \in Nat /\ a <= h[j] /\ \A i \in 1 .. n : i < j => h[i] + BLOCK + z[i] <= h[j]
  BY <1>6, <1>8, <1>9
<1>11. j \in 1 .. n + 1 /\ \A i \in 1 .. n : i \in 1 .. n + 1
  BY <1>0
<1>. QED  BY <1>0, <1>1, <1>10, <1>11

\* In a module that is well loaded each header is found where it is, and none is
\* found after the last; all of it is mapped, and below 4 GiB.
LEMMA HeaderFound ==
  ASSUME NEW m \in Machines, WellLoaded(m), NEW i \in 1 .. Len(m.archive) + 1
  PROVE  /\ HeadersAt(m, HeaderAddr(m, i)) = {i} \cap DOMAIN m.archive
         /\ ~Unmapped(HeaderAddr(m, i))
         /\ Bytes(HeaderAddr(m, i), HeaderAddr(m, i) + BLOCK) \cap Overwritten(m, m.seen) = {}
         /\ HeaderAddr(m, i) + BLOCK <= m.mods[1].end
         /\ i \in DOMAIN m.archive =>
              /\ m.archive[i].size < SPACE
              /\ HeaderAddr(m, i) + BLOCK + m.archive[i].size <= m.mods[1].end
<1>0. /\ m.mods # <<>> /\ m.mods[1].end <= IDENTITY
      /\ HeaderAddr(m, Len(m.archive) + 1) + BLOCK <= m.mods[1].end
  BY DEF WellLoaded
<1>1. PICK n \in Nat, a \in Nat, end \in Nat :
        n = Len(m.archive) /\ a = m.mods[1].start /\ end = m.mods[1].end /\ end <= SPACE
  BY <1>0, ArchiveIs
<1>2. DOMAIN m.archive = 1 .. n /\ i \in 1 .. n + 1 /\ n + 1 \in 1 .. Len(m.archive) + 1
  BY <1>0, <1>1, ArchiveIs
<1>3. Bytes(a, end) \cap Overwritten(m, m.seen) = {}
  <2>1. m.seen = AsLoaded(m) /\ Bytes(a, end) \cap Overwritten(m, AsLoaded(m)) = {}
    BY <1>1, BootAssumption DEF WellLoaded
  <2>. QED  BY <2>1
<1>z. PICK z, h : /\ z = [j \in 1 .. n |-> m.archive[j].size]
                  /\ h = [j \in 1 .. n + 1 |-> HeaderAddr(m, j)]
  OBVIOUS
<1>4. /\ \A j \in 1 .. n + 1 : h[j] = HeaderAddr(m, j)
      /\ \A j \in 1 .. n : z[j] = m.archive[j].size /\ z[j] \in Nat
  BY <1>0, <1>1, <1>z, ArchiveIs
<1>5. /\ \A j \in 1 .. n + 1 : h[j] \in Nat /\ a <= h[j]
      /\ \A j \in 1 .. n + 1, k \in 1 .. n : k < j => h[k] + BLOCK + z[k] <= h[j]
  <2>. SUFFICES ASSUME NEW j \in 1 .. n + 1
                PROVE  /\ h[j] \in Nat /\ a <= h[j]
                       /\ \A k \in 1 .. n : k < j => h[k] + BLOCK + z[k] <= h[j]
    OBVIOUS
  <2>1. j \in 1 .. Len(m.archive) + 1
    BY <1>1
  <2>2. /\ HeaderAddr(m, j) \in Nat /\ m.mods[1].start <= HeaderAddr(m, j)
        /\ \A k \in 1 .. Len(m.archive) :
              k < j => HeaderAddr(m, k) + BLOCK + m.archive[k].size <= HeaderAddr(m, j)
    BY <1>0, <2>1, HeadersAscend
  <2>3. \A k \in 1 .. n : k \in 1 .. n + 1
    OBVIOUS
  <2>. QED  BY <1>1, <1>4, <2>2, <2>3
<1>6. h[n + 1] + BLOCK <= end /\ end <= IDENTITY
  BY <1>0, <1>1, <1>4
<1>7. ASSUME NEW j \in 1 .. n + 1, NEW k \in 1 .. n, h[k] = h[j]  PROVE k = j
  <2>0. h[k] \in Nat /\ h[j] \in Nat /\ z[k] \in Nat /\ BLOCK \in Nat /\ BLOCK > 0
    <3>1. k \in 1 .. n + 1
      OBVIOUS
    <3>2. h[k] \in Nat /\ h[j] \in Nat
      BY <1>5, <3>1, Zenon
    <3>3. z[k] \in Nat
      BY <1>4, Zenon
    <3>. QED  BY <3>2, <3>3, Units
  <2>1. CASE k < j
    BY <1>5, <1>7, <2>0, <2>1
  <2>2. CASE j < k
    <3>1. j \in 1 .. n /\ k \in 1 .. n + 1 /\ z[j] \in Nat
      BY <1>4, <2>2
    <3>2. h[j] + BLOCK + z[j] <= h[k]
      BY <1>5, <2>2, <3>1
    <3>. QED  BY <1>7, <2>0, <3>1, <3>2
  <2>. QED  BY <2>1, <2>2
<1>8. h[i] + BLOCK <= end
  <2>0. n + 1 \in 1 .. n + 1
    OBVIOUS
  <2>1. CASE i = n + 1
    BY <1>6, <2>1
  <2>2. CASE i # n + 1
    <3>1. i \in 1 .. n /\ i < n + 1
      BY <1>2, <2>2
    <3>2. PICK x \in Nat, y \in Nat, c \in Nat : x = h[i] /\ y = h[n + 1] /\ c = z[i]
      BY <1>2, <1>4, <1>5, <2>0, <3>1
    <3>3. x + BLOCK + c <= y /\ y + BLOCK <= end
      BY <1>5, <1>6, <2>0, <3>1, <3>2
    <3>4. x + BLOCK <= end
      BY <3>3, Units
    <3>. QED  BY <3>2, <3>4
  <2>. QED  BY <2>1, <2>2
<1>9. ~Unmapped(HeaderAddr(m, i))
  <2>1. PICK x \in Nat : x = HeaderAddr(m, i) /\ x + BLOCK <= end
    BY <1>2, <1>4, <1>5, <1>8
  <2>2. ~(x + BLOCK > IDENTITY)
    BY <1>6, <2>1, Units
  <2>. QED  BY <2>1, <2>2 DEF Unmapped
<1>12. /\ Bytes(HeaderAddr(m, i), HeaderAddr(m, i) + BLOCK) \cap Overwritten(m, m.seen) = {}
       /\ HeaderAddr(m, i) + BLOCK <= m.mods[1].end
  <2>1. PICK x \in Nat : x = HeaderAddr(m, i) /\ x + BLOCK <= end /\ a <= x
    BY <1>2, <1>4, <1>5, <1>8
  <2>2. Bytes(x, x + BLOCK) \subseteq Bytes(a, end)
    BY <2>1, Units DEF Bytes
  <2>. QED  BY <1>1, <1>3, <2>1, <2>2
<1>10. HeadersAt(m, HeaderAddr(m, i)) = {i} \cap DOMAIN m.archive
  <2>1. PICK x \in Nat : x = HeaderAddr(m, i) /\ x = h[i] /\ a <= x
    BY <1>2, <1>4, <1>5
  <2>3. \A k \in 1 .. n : x = HeaderAddr(m, k) <=> k = i
    <3>. SUFFICES ASSUME NEW k \in 1 .. n  PROVE x = HeaderAddr(m, k) <=> k = i
      OBVIOUS
    <3>1. k \in 1 .. n + 1
      OBVIOUS
    <3>. QED  BY <1>2, <1>4, <1>7, <2>1, <3>1
  <2>4. HeadersAt(m, x) = {k \in 1 .. n : k = i}
    BY <1>2, <2>3 DEF HeadersAt
  <2>. QED  BY <1>2, <2>1, <2>4
<1>11. ASSUME i \in DOMAIN m.archive
       PROVE  /\ m.archive[i].size < SPACE
              /\ HeaderAddr(m, i) + BLOCK + m.archive[i].size <= m.mods[1].end
  <2>0. i \in 1 .. n /\ i < n + 1 /\ n + 1 \in 1 .. n + 1
    BY <1>2, <1>11
  <2>1. PICK x \in Nat, y \in Nat, c \in Nat : x = h[i] /\ y = h[n + 1] /\ c = z[i]
    BY <1>2, <1>4, <1>5, <2>0
  <2>2. x + BLOCK + c <= y /\ y + BLOCK <= end
    BY <1>5, <1>6, <2>0, <2>1
  <2>3. c < SPACE /\ x + BLOCK + c <= end
    BY <1>1, <2>2, Units
  <2>. QED  BY <1>1, <1>2, <1>4, <2>0, <2>1, <2>3
<1>. QED  BY <1>9, <1>10, <1>11, <1>12

-----------------------------------------------------------------------------
\* The place of a file among the files of the archive counts those up to it.
LEMMA PlaceIs ==
  ASSUME NEW m \in Machines, m.mods # <<>>
  PROVE  /\ Place(m, 0) = 0 /\ Place(m, Len(m.archive)) = Cardinality(Plain(m))
         /\ \A i \in 0 .. Len(m.archive) : Place(m, i) \in Nat
         /\ \A i \in 1 .. Len(m.archive) :
              Place(m, i) = IF i \in Plain(m) THEN Place(m, i - 1) + 1 ELSE Place(m, i - 1)
<1>0. PICK n \in Nat : n = Len(m.archive)
  BY ArchiveIs
<1>1. PICK P \in SUBSET (1 .. n) : P = Plain(m)
  <2>1. DOMAIN m.archive = 1 .. n
    BY <1>0, ArchiveIs
  <2>. QED  BY <2>1 DEF Plain
<1>p. \A j \in P : j \in Nat /\ 1 <= j /\ j <= n
  OBVIOUS
<1>2. \A i : Place(m, i) = Cardinality({j \in P : j <= i})
  BY <1>1 DEF Place
<1>3. \A i \in 0 .. n : IsFiniteSet({j \in P : j <= i}) /\ Cardinality({j \in P : j <= i}) \in Nat
  <2>. SUFFICES ASSUME NEW i \in 0 .. n
                PROVE  IsFiniteSet({j \in P : j <= i}) /\ Cardinality({j \in P : j <= i}) \in Nat
    OBVIOUS
  <2>1. PICK S \in SUBSET Nat : S = {j \in P : j <= i}
    BY <1>p
  <2>2. i \in Nat /\ \A s \in S : s <= i
    BY <2>1
  <2>3. IsFiniteSet(S)
    BY <2>2, FS_BoundedSetOfNaturals
  <2>4. Cardinality(S) \in Nat
    BY <2>3, FS_CardinalityType
  <2>. QED  BY <2>1, <2>3, <2>4
<1>4. Place(m, 0) = 0
  <2>0. \A j \in P : ~(j <= 0)
    BY <1>p
  <2>1. {j \in P : j <= 0} = {}
    BY <2>0, Zenon
  <2>. QED  BY <1>2, <2>1, FS_EmptySet
<1>5. Place(m, n) = Cardinality(P)
  <2>1. {j \in P : j <= n} = P
    BY <1>p
  <2>. QED  BY <1>2, <2>1
<1>6. ASSUME NEW i \in 1 .. n
      PROVE  Place(m, i) = IF i \in P THEN Place(m, i - 1) + 1 ELSE Place(m, i - 1)
  <2>0. i - 1 \in 0 .. n
    OBVIOUS
  <2>1. PICK S : S = {j \in P : j <= i - 1}
    OBVIOUS
  <2>2. IsFiniteSet(S) /\ i \notin S
    <3>1. IsFiniteSet(S)
      BY <1>3, <2>0, <2>1, Zenon
    <3>2. ~(i <= i - 1)
      OBVIOUS
    <3>. QED  BY <2>1, <3>1, <3>2, Zenon
  <2>s. \A j \in P : j <= i <=> (j <= i - 1 \/ j = i)
    BY <1>p
  <2>3. CASE i \in P
    <3>1. {j \in P : j <= i} = S \cup {i}
      BY <2>1, <2>3, <2>s, Zenon
    <3>2. Cardinality(S \cup {i}) = Cardinality(S) + 1
      BY <2>2, FS_AddElement
    <3>. QED  BY <1>2, <2>1, <2>3, <3>1, <3>2
  <2>4. CASE i \notin P
    <3>1. {j \in P : j <= i} = S
      <4>1. \A j \in P : j <= i <=> j <= i - 1
        BY <2>4, <2>s, Zenon
      <4>. QED  BY <2>1, <4>1, Zenon
    <3>. QED  BY <1>2, <2>1, <2>4, <3>1
  <2>. QED  BY <2>3, <2>4
<1>. QED  BY <1>0, <1>1, <1>2, <1>3, <1>4, <1>5, <1>6

\* A later entry has no earlier place, and a later file a later one.
LEMMA PlaceAscends ==
  ASSUME NEW m \in Machines, m.mods # <<>>, NEW j \in 0 .. Len(m.archive), NEW i \in 0 .. j
  PROVE  /\ Place(m, i) <= Place(m, j)
         /\ j \in Plain(m) /\ i < j => Place(m, i) < Place(m, j)
<1>0. PICK n \in Nat : n = Len(m.archive)
  BY ArchiveIs
<1>1. PICK p : p = [k \in 0 .. n |-> Place(m, k)]
  OBVIOUS
<1>2. \A k \in 0 .. n : p[k] = Place(m, k) /\ p[k] \in Nat
  BY <1>0, <1>1, PlaceIs
<1>3. \A k \in 1 .. n : p[k] = IF k \in Plain(m) THEN p[k - 1] + 1 ELSE p[k - 1]
  <2>1. \A k \in 1 .. n : k \in 0 .. n /\ k - 1 \in 0 .. n
    OBVIOUS
  <2>2. \A k \in 1 .. n : Place(m, k) = IF k \in Plain(m) THEN Place(m, k - 1) + 1 ELSE Place(m, k - 1)
    BY <1>0, PlaceIs
  <2>. QED  BY <1>2, <2>1, <2>2
<1>4. i \in 0 .. n /\ j \in 0 .. n /\ i <= j
  BY <1>0
<1>. DEFINE S == {k \in Nat : i + k <= n => p[i] <= p[i + k]}
<1>5. 0 \in S
  BY <1>2, <1>4
<1>6. ASSUME NEW k \in 0 .. n - 1, k \in S  PROVE k + 1 \in S
  <2>. SUFFICES ASSUME i + (k + 1) <= n  PROVE p[i] <= p[i + (k + 1)]
    OBVIOUS
  <2>0. i + (k + 1) \in 1 .. n /\ i + (k + 1) - 1 = i + k /\ i + k \in 0 .. n
    BY <1>4
  <2>1. PICK x \in Nat, y \in Nat : x = p[i] /\ y = p[i + k] /\ x <= y
    BY <1>2, <1>4, <1>6, <2>0
  <2>2. p[i + (k + 1)] = y \/ p[i + (k + 1)] = y + 1
    BY <1>3, <2>0, <2>1
  <2>. QED  BY <2>1, <2>2
<1>7. PICK T : T = S
  OBVIOUS
<1>8. 0 \in T /\ \A k \in 0 .. n - 1 : k \in T => k + 1 \in T
  BY <1>5, <1>6, <1>7
<1>9. \A k \in 0 .. n : k \in T
  BY <1>8, CountUp
<1>10. \A l \in i .. n : p[i] <= p[l]
  <2>. SUFFICES ASSUME NEW l \in i .. n  PROVE p[i] <= p[l]
    OBVIOUS
  <2>1. l - i \in 0 .. n /\ i + (l - i) = l /\ l <= n
    BY <1>4
  <2>. QED  BY <1>7, <1>9, <2>1
<1>11. Place(m, i) <= Place(m, j)
  BY <1>2, <1>4, <1>10
<1>12. ASSUME j \in Plain(m), i < j  PROVE Place(m, i) < Place(m, j)
  <2>1. j - 1 \in i .. n /\ j \in 1 .. n /\ j - 1 \in 0 .. n
    BY <1>4, <1>12
  <2>2. PICK x \in Nat, y \in Nat : x = p[i] /\ y = p[j - 1] /\ x <= y
    BY <1>2, <1>4, <1>10, <2>1
  <2>3. p[j] = y + 1
    BY <1>3, <1>12, <2>1, <2>2
  <2>. QED  BY <1>2, <1>4, <2>2, <2>3
<1>. QED  BY <1>11, <1>12

-----------------------------------------------------------------------------
\* The files found once the entries up to n have been read.
FilesUpTo(m, n, found) ==
  /\ Len(found) = Place(m, n)
  /\ \A j \in Plain(m) : j <= n => found[Place(m, j)] = FileOf(m, j)

\* Where initrd_initialize stands: p is at the header of an entry, or after the
\* last one, and what has been found are the files of the entries before it.
Reading(m, where, p, found) ==
  /\ where \in {"memory", "initrd", "up"}
  /\ found \in Seq({FileOf(m, i) : i \in DOMAIN m.archive}) /\ Len(found) <= MAX_FILES
  /\ where = "memory" => found = <<>>
  /\ where = "initrd" =>
       \E i \in 1 .. Len(m.archive) + 1 : p = HeaderAddr(m, i) /\ FilesUpTo(m, i - 1, found)
  /\ where = "up" =>
       \E i \in 1 .. Len(m.archive) + 1 :
         FilesUpTo(m, i - 1, found) /\ (i = Len(m.archive) + 1 \/ Len(found) = MAX_FILES)

\* The inductive invariant of the reading of the archive.
InitrdInv == WellLoaded(mbi) => Reading(mbi, phase, ptr, files)

\* What one entry adds.
LEMMA EntryRead ==
  ASSUME NEW m \in Machines, m.mods # <<>>, NEW i \in 1 .. Len(m.archive),
         NEW found \in Seq({FileOf(m, j) : j \in DOMAIN m.archive}),
         Len(found) < MAX_FILES, FilesUpTo(m, i - 1, found)
  PROVE  /\ i \in Plain(m) =>
              /\ Append(found, FileOf(m, i)) \in Seq({FileOf(m, j) : j \in DOMAIN m.archive})
              /\ Len(Append(found, FileOf(m, i))) <= MAX_FILES
              /\ FilesUpTo(m, i, Append(found, FileOf(m, i)))
         /\ i \notin Plain(m) => FilesUpTo(m, i, found)
<1>. DEFINE F == {FileOf(m, j) : j \in DOMAIN m.archive}
<1>0. PICK n \in Nat : n = Len(m.archive)
  BY ArchiveIs
<1>1. DOMAIN m.archive = 1 .. n /\ i \in 1 .. n /\ Plain(m) \subseteq 1 .. n
  BY <1>0, ArchiveIs DEF Plain
<1>2. PICK l \in Nat : l = Len(found)
  BY LenProperties
<1>3. /\ l = Place(m, i - 1) /\ l < MAX_FILES
      /\ Place(m, i) = IF i \in Plain(m) THEN l + 1 ELSE l
  <2>1. l = Place(m, i - 1) /\ l < MAX_FILES
    BY <1>2 DEF FilesUpTo
  <2>. QED  BY <1>0, <2>1, PlaceIs
<1>4. ASSUME NEW j \in Plain(m), j <= i - 1
      PROVE  Place(m, j) \in 1 .. l /\ found[Place(m, j)] = FileOf(m, j)
  <2>0. /\ i - 1 \in 0 .. Len(m.archive) /\ j \in 0 .. i - 1
        /\ j \in 0 .. Len(m.archive) /\ 0 \in 0 .. j /\ 0 < j
    BY <1>0, <1>1, <1>4
  <2>1. Place(m, j) <= Place(m, i - 1)
    BY <2>0, PlaceAscends
  <2>2. Place(m, 0) < Place(m, j) /\ Place(m, 0) = 0 /\ Place(m, j) \in Nat
    BY <2>0, PlaceAscends, PlaceIs
  <2>3. Place(m, j) \in 1 .. l
    BY <1>3, <2>1, <2>2
  <2>. QED  BY <1>4, <2>3 DEF FilesUpTo
<1>5. ASSUME i \in Plain(m)
      PROVE  /\ Append(found, FileOf(m, i)) \in Seq(F)
             /\ Len(Append(found, FileOf(m, i))) <= MAX_FILES
             /\ FilesUpTo(m, i, Append(found, FileOf(m, i)))
  <2>0. PICK G, f : G = F /\ f = FileOf(m, i)
    OBVIOUS
  <2>1. f \in G /\ found \in Seq(G)
    BY <1>1, <2>0
  <2>2. PICK a : a = Append(found, f)
    OBVIOUS
  <2>3. /\ a \in Seq(G) /\ Len(a) = l + 1 /\ a[l + 1] = f
        /\ \A k \in 1 .. l : a[k] = found[k]
    BY <1>2, <2>1, <2>2, AppendProperties
  <2>4. Len(a) <= MAX_FILES
    BY <1>3, <2>3, FilesAssumption
  <2>5. Place(m, i) = l + 1
    BY <1>3, <1>5
  <2>6. ASSUME NEW j \in Plain(m), j <= i  PROVE a[Place(m, j)] = FileOf(m, j)
    <3>1. CASE j = i
      BY <2>0, <2>3, <2>5, <3>1
    <3>2. CASE j # i
      <4>1. j <= i - 1
        BY <1>1, <2>6, <3>2
      <4>2. Place(m, j) \in 1 .. l /\ found[Place(m, j)] = FileOf(m, j)
        BY <1>4, <4>1
      <4>. QED  BY <2>3, <4>2
    <3>. QED  BY <3>1, <3>2
  <2>7. FilesUpTo(m, i, a)
    BY <2>3, <2>5, <2>6 DEF FilesUpTo
  <2>. QED  BY <2>0, <2>2, <2>3, <2>4, <2>7, Zenon
<1>6. ASSUME i \notin Plain(m)  PROVE FilesUpTo(m, i, found)
  <2>1. \A j \in Plain(m) : j <= i => j <= i - 1
    BY <1>1, <1>6
  <2>. QED  BY <1>2, <1>3, <1>4, <1>6, <2>1 DEF FilesUpTo
<1>. QED  BY <1>5, <1>6

\* Before the first entry nothing has been found.
LEMMA NothingRead ==
  ASSUME NEW m \in Machines, m.mods # <<>>  PROVE FilesUpTo(m, 0, <<>>)
<1>1. Plain(m) \subseteq 1 .. Len(m.archive) /\ Len(m.archive) \in Nat
  BY ArchiveIs DEF Plain
<1>2. \A j \in Plain(m) : ~(j <= 0)
  BY <1>1
<1>. QED  BY <1>2, PlaceIs DEF FilesUpTo

\* No step changes the machine.
LEMMA MachineStays == [BootNext]_allVars => mbi' = mbi
BY DEF BootNext, allVars, vars, machine, UseFrames, Next, pmm_alloc_frame, pmm_free_frame,
       init_initrd, initrd_entry, initrd_end

\* Every step of initrd_initialize keeps its invariant.
LEMMA InitrdStep == MachineKept /\ InitrdInv /\ [BootNext]_allVars => InitrdInv'
<1>. SUFFICES ASSUME MachineKept, InitrdInv, [BootNext]_allVars, WellLoaded(mbi)
              PROVE  Reading(mbi, phase', ptr', files')
  BY MachineStays DEF InitrdInv
<1>0. PICK m \in Machines : m = mbi /\ WellLoaded(m) /\ m.mods # <<>>
  BY DEF MachineKept, WellLoaded
<1>1. Reading(m, phase, ptr, files)
  BY <1>0 DEF InitrdInv
<1>n. PICK n \in Nat : n = Len(m.archive)
  BY <1>0, ArchiveIs
<1>2. CASE UNCHANGED bootVars
  BY <1>0, <1>1, <1>2 DEF bootVars
<1>3. CASE init_initrd
  <2>1. phase' = "initrd" /\ ptr' = m.mods[1].start /\ files' = files /\ phase = "memory"
    <3>1. m.info_mods /\ Len(m.mods) # 0
      BY <1>0, ArchiveIs
    <3>2. ~InfoUnmapped /\ ~DescriptorUnmapped
      <4>1. m.info.end <= IDENTITY /\ m.mods_addr + DESCRIPTOR <= IDENTITY
        BY <1>0 DEF WellLoaded
      <4>2. m.info.end \in Nat /\ m.mods_addr \in Nat
        BY BootAssumption
      <4>. QED  BY <1>0, <4>1, <4>2, Sizes, Units DEF InfoUnmapped, DescriptorUnmapped
    <3>3. ~InfoLost
      BY <1>0 DEF WellLoaded, InfoLost, MachineKept, AllFrames
    <3>. QED  BY <1>0, <1>3, <3>1, <3>2, <3>3 DEF init_initrd
  <2>2. files = <<>>
    BY <1>1, <2>1 DEF Reading
  <2>3. ptr' = HeaderAddr(m, 1) /\ FilesUpTo(m, 1 - 1, files) /\ 1 \in 1 .. Len(m.archive) + 1
    BY <1>0, <1>n, <2>1, <2>2, HeadersFollow, NothingRead
  <2>. QED  BY <1>0, <1>1, <2>1, <2>3 DEF Reading
<1>4. CASE initrd_entry
  <2>0. phase = "initrd" /\ phase' = "initrd" /\ Len(files) < MAX_FILES
    BY <1>4 DEF initrd_entry, More
  <2>1. PICK k \in 1 .. Len(m.archive) + 1 : ptr = HeaderAddr(m, k) /\ FilesUpTo(m, k - 1, files)
    BY <1>1, <2>0 DEF Reading
  <2>2. PICK i \in HeadersAt(m, ptr) :
          /\ files' = IF m.archive[i].file
                      THEN Append(files, [name |-> m.archive[i].name,
                                          length |-> octal_to_int(SizeField(m.archive[i].size)),
                                          data |-> ptr + BLOCK])
                      ELSE files
          /\ ptr' = Cut(ptr + HeaderStep(octal_to_int(SizeField(m.archive[i].size))))
    BY <1>0, <1>4, Zenon DEF initrd_entry
  <2>3. i = k /\ i \in DOMAIN m.archive
    BY <1>0, <2>1, <2>2, HeaderFound
  <2>4. i \in 1 .. Len(m.archive) /\ m.archive[i].size \in Nat /\ Eighths(m.archive[i].size)[DIGITS] = 0
    BY <1>0, <2>3, ArchiveIs
  <2>5. octal_to_int(SizeField(m.archive[i].size)) = m.archive[i].size
    <3>1. m.archive[i].size < SPACE
      BY <1>0, <2>1, <2>3, HeaderFound
    <3>. QED  BY <2>4, <3>1, SizeRead
  <2>6. ptr' = HeaderAddr(m, i + 1) /\ i + 1 \in 1 .. Len(m.archive) + 1 /\ i + 1 - 1 = i
    <3>0. i \in 1 .. Len(m.archive) + 1 /\ i + 1 \in 1 .. Len(m.archive) + 1 /\ i + 1 - 1 = i
      BY <1>n, <2>4
    <3>1. HeaderAddr(m, i + 1) = HeaderAddr(m, i) + Stride(m.archive[i].size)
      BY <1>0, <2>4, HeadersFollow
    <3>2. PICK x \in Nat, y \in Nat, z \in Nat, end \in Nat :
            /\ x = HeaderAddr(m, i) /\ y = HeaderAddr(m, i + 1) /\ z = m.archive[i].size
            /\ end = m.mods[1].end /\ end <= SPACE
      BY <1>0, <2>4, <3>0, HeadersAscend, ArchiveIs
    <3>3. x + BLOCK + z <= end /\ y + BLOCK <= end
      BY <1>0, <2>3, <3>0, <3>2, HeaderFound
    <3>4. BLOCK + z <= SPACE /\ y < SPACE
      <4>1. end <= SPACE
        BY <3>2
      <4>2. BLOCK \in Nat /\ BLOCK > 0 /\ SPACE \in Nat
        BY Units
      <4>. QED  BY <3>3, <4>1, <4>2
    <3>5. HeaderStep(m.archive[i].size) = Stride(m.archive[i].size)
      BY <3>2, <3>4, StepTaken
    <3>6. Cut(y) = y
      BY <3>4, CutSmall
    <3>7. ptr' = Cut(HeaderAddr(m, i) + HeaderStep(m.archive[i].size))
      BY <2>1, <2>2, <2>3, <2>5, Zenon
    <3>. QED  BY <3>0, <3>1, <3>2, <3>5, <3>6, <3>7
  <2>7. [name |-> m.archive[i].name, length |-> octal_to_int(SizeField(m.archive[i].size)),
         data |-> ptr + BLOCK] = FileOf(m, i)
    BY <2>1, <2>3, <2>5, Zenon DEF FileOf
  <2>8. IF i \in Plain(m) THEN files' = Append(files, FileOf(m, i)) ELSE files' = files
    <3>1. i \in Plain(m) <=> m.archive[i].file
      BY <2>3, Zenon DEF Plain
    <3>. QED  BY <2>2, <2>7, <3>1, Zenon
  <2>9. /\ files \in Seq({FileOf(m, j) : j \in DOMAIN m.archive}) /\ Len(files) <= MAX_FILES
        /\ FilesUpTo(m, i - 1, files)
    BY <1>1, <2>1, <2>3 DEF Reading
  <2>10. /\ files' \in Seq({FileOf(m, j) : j \in DOMAIN m.archive}) /\ Len(files') <= MAX_FILES
         /\ FilesUpTo(m, i, files')
    <3>1. /\ i \in Plain(m) =>
               /\ Append(files, FileOf(m, i)) \in Seq({FileOf(m, j) : j \in DOMAIN m.archive})
               /\ Len(Append(files, FileOf(m, i))) <= MAX_FILES
               /\ FilesUpTo(m, i, Append(files, FileOf(m, i)))
          /\ i \notin Plain(m) => FilesUpTo(m, i, files)
      BY <1>0, <2>0, <2>4, <2>9, EntryRead
    <3>. QED  BY <2>8, <2>9, <3>1, Zenon
  <2>11. Reading(m, "initrd", ptr', files')
    <3>1. PICK j : j = i + 1 /\ j - 1 = i
      BY <1>n, <2>4
    <3>2. \E j1 \in 1 .. Len(m.archive) + 1 : ptr' = HeaderAddr(m, j1) /\ FilesUpTo(m, j1 - 1, files')
      <4>1. j \in 1 .. Len(m.archive) + 1 /\ ptr' = HeaderAddr(m, j)
        BY <2>6, <3>1, Zenon
      <4>2. FilesUpTo(m, j - 1, files')
        BY <2>10, <3>1, Zenon
      <4>. QED  BY <4>1, <4>2
    <3>3. "initrd" # "memory" /\ "initrd" # "up" /\ "initrd" \in {"memory", "initrd", "up"}
      OBVIOUS
    <3>. QED  BY <2>10, <3>2, <3>3, Zenon DEF Reading
  <2>. QED  BY <1>0, <2>0, <2>11
<1>5. CASE initrd_end
  <2>0. phase = "initrd" /\ ptr' = ptr /\ files' = files
    BY <1>5 DEF initrd_end
  <2>1. PICK k \in 1 .. Len(m.archive) + 1 : ptr = HeaderAddr(m, k) /\ FilesUpTo(m, k - 1, files)
    BY <1>1, <2>0 DEF Reading
  <2>2. /\ ~Unmapped(ptr) /\ HeadersAt(m, ptr) = {k} \cap DOMAIN m.archive
        /\ ~HeaderLost(ptr) /\ DOMAIN m.archive = 1 .. Len(m.archive)
    BY <1>0, <2>1, HeaderFound, ArchiveIs DEF HeaderLost
  <2>3. phase' = "up" /\ (Len(files) = MAX_FILES \/ ~More)
    BY <1>5, <2>2 DEF initrd_end
  <2>4. Len(files) = MAX_FILES \/ k = Len(m.archive) + 1
    <3>1. CASE HeadersAt(m, ptr) = {}
      <4>1. k \notin 1 .. n
        BY <1>n, <2>2, <3>1
      <4>. QED  BY <1>n, <4>1
    <3>2. CASE ~(Len(files) < MAX_FILES)
      <4>1. files \in Seq({FileOf(m, j) : j \in DOMAIN m.archive}) /\ Len(files) <= MAX_FILES
        BY <1>1 DEF Reading
      <4>2. PICK l \in Nat : l = Len(files)
        BY <4>1, LenProperties
      <4>. QED  BY <3>2, <4>1, <4>2, FilesAssumption
    <3>. QED  BY <1>0, <2>3, <3>1, <3>2 DEF More
  <2>5. Reading(m, "up", ptr, files)
    BY <1>1, <2>1, <2>4 DEF Reading
  <2>. QED  BY <1>0, <2>0, <2>3, <2>5
<1>. QED
  BY <1>2, <1>3, <1>4, <1>5 DEF BootNext, UseFrames, allVars

\* The archive is read as its invariant says, on every machine.
THEOREM InitrdInvariance == BootSpec => []InitrdInv
<1>1. BootInit /\ MachineKept => InitrdInv
  <2>. SUFFICES ASSUME BootInit, MachineKept  PROVE Reading(mbi, phase, ptr, files)
    BY DEF InitrdInv
  <2>1. phase = "memory" /\ files = <<>>
    BY DEF BootInit
  <2>2. files \in Seq({FileOf(mbi, i) : i \in DOMAIN mbi.archive}) /\ Len(files) <= MAX_FILES
    BY <2>1, FilesAssumption
  <2>. QED  BY <2>1, <2>2 DEF Reading
<1>. QED  BY <1>1, InitrdStep, StartupUsesPmm, MachineInvariance, PTL DEF BootSpec

\* A file that has been found is the one at its place, is found by its name, and
\* its bytes are in no frame that has been handed out.
LEMMA FileServed ==
  ASSUME mbi \in Machines, WellLoaded(mbi), KernelSafe, NEW F, files \in Seq(F),
         NEW i \in Plain(mbi), Place(mbi, i) \in 1 .. Len(files),
         files[Place(mbi, i)] = FileOf(mbi, i)
  PROVE  /\ initrd_finddir(mbi.archive[i].name) \in 1 .. Place(mbi, i)
         /\ PagesOf(Bytes(FileOf(mbi, i).data, FileOf(mbi, i).data + mbi.archive[i].size)) \cap held = {}
<1>0. PICK m \in Machines : m = mbi /\ WellLoaded(m) /\ m.mods # <<>>
  BY DEF WellLoaded
<1>1. PICK n \in Nat, a \in Nat, end \in Nat :
        n = Len(m.archive) /\ a = m.mods[1].start /\ end = m.mods[1].end
  BY <1>0, ArchiveIs
<1>2. DOMAIN m.archive = 1 .. n /\ i \in 1 .. n /\ i \in DOMAIN m.archive /\ i \in 1 .. Len(m.archive) + 1
  <2>1. DOMAIN m.archive = 1 .. n
    BY <1>0, <1>1, ArchiveIs
  <2>. QED  BY <1>0, <1>1, <2>1 DEF Plain
<1>3. PICK k \in Nat : k = Place(mbi, i) /\ k \in 1 .. Len(files) /\ files[k] = FileOf(mbi, i)
  <2>1. Len(files) \in Nat
    BY LenProperties
  <2>. QED  BY <2>1
<1>4. initrd_finddir(mbi.archive[i].name) \in 1 .. k
  <2>. DEFINE S == {j \in DOMAIN files : files[j].name = mbi.archive[i].name}
  <2>1. DOMAIN files = 1 .. Len(files) /\ Len(files) \in Nat
    BY LenProperties
  <2>2. FileOf(mbi, i).name = mbi.archive[i].name
    BY DEF FileOf
  <2>3. k \in S
    BY <1>3, <2>1, <2>2
  <2>4. S \in SUBSET Nat /\ \A j \in S : j >= 1
    BY <2>1
  <2>5. PICK T : T = S
    OBVIOUS
  <2>6. initrd_finddir(mbi.archive[i].name) = Min(T)
    <3>1. S # {}
      BY <2>3
    <3>. QED  BY <2>5, <3>1, Zenon DEF initrd_finddir
  <2>7. Min(T) \in T /\ Min(T) <= k
    <3>1. T \in SUBSET Nat /\ T # {} /\ k \in T
      BY <2>3, <2>4, <2>5
    <3>. QED  BY <3>1, MinIsLeast
  <2>8. Min(T) \in Nat /\ Min(T) >= 1
    BY <2>4, <2>5, <2>7
  <2>. QED  BY <2>6, <2>7, <2>8
<1>5. PICK d \in Nat, z \in Nat :
        /\ d = FileOf(mbi, i).data /\ z = mbi.archive[i].size
        /\ a <= d /\ d + z <= end
  <2>1. PICK x \in Nat, z \in Nat : x = HeaderAddr(m, i) /\ z = m.archive[i].size
    BY <1>0, <1>1, <1>2, HeadersAscend, ArchiveIs
  <2>2. a <= x
    BY <1>0, <1>1, <1>2, <2>1, HeadersAscend
  <2>3. x + BLOCK + z <= end
    BY <1>0, <1>1, <1>2, <2>1, HeaderFound
  <2>4. FileOf(mbi, i).data = x + BLOCK
    BY <1>0, <2>1 DEF FileOf
  <2>. QED  BY <1>0, <2>1, <2>2, <2>3, <2>4, Units
<1>6. Bytes(d, d + z) \subseteq Loaded(mbi)
  <2>1. Bytes(d, d + z) \subseteq Bytes(a, end)
    BY <1>5 DEF Bytes
  <2>2. 1 \in DOMAIN mbi.mods
    BY <1>0, ArchiveIs
  <2>3. Bytes(mbi.mods[1].start, mbi.mods[1].end) \subseteq Loaded(mbi)
    BY <2>2 DEF Loaded
  <2>. QED  BY <1>0, <1>1, <2>1, <2>3
<1>7. PagesOf(Bytes(d, d + z)) \cap held = {}
  BY <1>6 DEF KernelSafe, PagesOf, WellLoaded
<1>. QED  BY <1>3, <1>4, <1>5, <1>7

\* initrd_initialize finds the files of the archive, in order and as many as it has
\* room for, each at its bytes, which no frame handed out has a part of: on every
\* machine and for every archive that is loaded whole, if the loader's data are in
\* the memory that is mapped and neither under the bitmap nor in the pool.
THEOREM InitrdTheorem == BootSpec => []InitrdServed
<1>1. MachineKept /\ KernelSafe /\ InitrdInv => InitrdServed
  <2>. SUFFICES ASSUME MachineKept, KernelSafe, InitrdInv, WellLoaded(mbi)  PROVE InitrdServed
    BY DEF InitrdServed
  <2>0. mbi \in Machines /\ mbi.mods # <<>> /\ Reading(mbi, phase, ptr, files)
    BY DEF MachineKept, WellLoaded, InitrdInv
  <2>1. phase \notin {"fault", "lost"}
    BY <2>0 DEF Reading
  <2>. SUFFICES ASSUME phase = "up"
                PROVE  /\ Len(files) = Min({Cardinality(Plain(mbi)), MAX_FILES})
                       /\ \A i \in Plain(mbi) : Place(mbi, i) <= MAX_FILES =>
                            /\ files[Place(mbi, i)] = FileOf(mbi, i)
                            /\ initrd_finddir(mbi.archive[i].name) \in 1 .. Place(mbi, i)
                            /\ PagesOf(Bytes(FileOf(mbi, i).data,
                                             FileOf(mbi, i).data + mbi.archive[i].size)) \cap held = {}
    BY <2>1 DEF InitrdServed
  <2>n. PICK n \in Nat : n = Len(mbi.archive)
    BY <2>0, ArchiveIs
  <2>2. PICK k \in 1 .. n + 1 :
          FilesUpTo(mbi, k - 1, files) /\ (k = n + 1 \/ Len(files) = MAX_FILES)
    BY <2>0, <2>n DEF Reading
  <2>3. PICK F : F = {FileOf(mbi, i) : i \in DOMAIN mbi.archive}
    OBVIOUS
  <2>4. files \in Seq(F) /\ Len(files) <= MAX_FILES
    BY <2>0, <2>3 DEF Reading
  <2>5. PICK l \in Nat : l = Len(files) /\ l = Place(mbi, k - 1) /\ l <= MAX_FILES
    BY <2>2, <2>4, LenProperties DEF FilesUpTo
  <2>6. PICK c \in Nat : c = Cardinality(Plain(mbi)) /\ c = Place(mbi, n)
    BY <2>0, <2>n, PlaceIs
  <2>7. l <= c /\ (k = n + 1 => l = c)
    <3>1. n \in 0 .. Len(mbi.archive) /\ k - 1 \in 0 .. n /\ (k = n + 1 => k - 1 = n)
      BY <2>n
    <3>2. Place(mbi, k - 1) <= Place(mbi, n)
      BY <2>0, <3>1, PlaceAscends
    <3>. QED  BY <2>5, <2>6, <3>1, <3>2
  <2>8. Len(files) = Min({Cardinality(Plain(mbi)), MAX_FILES})
    <3>1. PICK S : S = {c, MAX_FILES}
      OBVIOUS
    <3>2. S \in SUBSET Nat /\ S # {}
      BY <3>1, FilesAssumption
    <3>3. PICK x : x = Min(S)
      OBVIOUS
    <3>4. x \in S /\ \A y \in S : x <= y
      BY <3>2, <3>3, MinIsLeast
    <3>5. l \in S /\ \A y \in S : l <= y
      BY <2>2, <2>5, <2>7, <3>1
    <3>6. l = x
      BY <3>2, <3>4, <3>5
    <3>. QED  BY <2>5, <2>6, <3>1, <3>3, <3>6
  <2>9. ASSUME NEW i \in Plain(mbi), Place(mbi, i) <= MAX_FILES
        PROVE  /\ Place(mbi, i) \in 1 .. Len(files)
               /\ files[Place(mbi, i)] = FileOf(mbi, i)
    <3>0. i \in 1 .. n /\ i \in 0 .. Len(mbi.archive)
      <4>1. DOMAIN mbi.archive = 1 .. n
        BY <2>0, <2>n, ArchiveIs
      <4>2. i \in 1 .. n
        BY <4>1 DEF Plain
      <4>. QED  BY <2>n, <4>2
    <3>1. i <= k - 1
      <4>. SUFFICES ASSUME k - 1 < i  PROVE FALSE
        BY <3>0
      <4>1. k - 1 \in 0 .. i /\ k # n + 1
        BY <3>0
      <4>2. Place(mbi, k - 1) < Place(mbi, i) /\ Place(mbi, i) \in Nat
        BY <2>0, <3>0, <4>1, PlaceAscends, PlaceIs
      <4>. QED  BY <2>2, <2>5, <2>9, <4>1, <4>2, FilesAssumption
    <3>2. Place(mbi, i) \in Nat /\ Place(mbi, i) <= l
      <4>1. k - 1 \in 0 .. Len(mbi.archive) /\ i \in 0 .. k - 1
        BY <2>n, <3>0, <3>1
      <4>. QED  BY <2>0, <2>5, <3>0, <4>1, PlaceAscends, PlaceIs
    <3>3. 0 < Place(mbi, i)
      <4>1. 0 \in 0 .. i /\ 0 < i
        BY <3>0
      <4>. QED  BY <2>0, <3>0, <4>1, PlaceAscends, PlaceIs
    <3>4. files[Place(mbi, i)] = FileOf(mbi, i)
      BY <2>2, <3>1 DEF FilesUpTo
    <3>. QED  BY <2>5, <3>2, <3>3, <3>4
  <2>. QED  BY <2>0, <2>4, <2>8, <2>9, FileServed
<1>. QED  BY <1>1, StartupUsesPmm, MachineInvariance, KernelSafeTheorem, InitrdInvariance, PTL
=============================================================================
