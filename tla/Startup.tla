------------------------------- MODULE Startup -------------------------------
(***************************************************************************)
(* kernel_main from pmm_initialize on: paging and the heap take frames,    *)
(* then init_initrd reads the module the loader left in memory, one header *)
(* of the archive at a time, and the frames go on being used.              *)
(***************************************************************************)
EXTENDS Pmm

CONSTANT MAX_FILES

ASSUME FilesAssumption == MAX_FILES \in Nat

VARIABLES phase,     \* "memory", "initrd", "up", "fault", or "lost": see below
          ptr,       \* of initrd_initialize
          files      \* file_nodes and file_data: the files found, in order

bootVars == <<phase, ptr, files>>
allVars  == <<vars, bootVars>>

BootInit ==
  /\ Init
  /\ phase = "memory" /\ ptr = 0 /\ files = <<>>

\* Frames are allocated before and after the archive is read, never meanwhile.
UseFrames ==
  /\ phase \in {"memory", "up", "lost"}
  /\ Next
  /\ UNCHANGED bootVars

\* Nothing is mapped from IDENTITY on once paging_initialize has run.
Unmapped(p) == p + BLOCK > IDENTITY
InfoUnmapped == mbi.info.end > IDENTITY
DescriptorUnmapped == mbi.mods_addr + DESCRIPTOR > IDENTITY

\* What init_initrd reads need not be what the loader left: pmm_initialize has
\* written over it, or struct multiboot_info, which nothing reserves above 1 MiB,
\* is in a frame that may have been handed out.
InfoLost ==
  \/ ~Intact(mbi)
  \/ PagesOf(Bytes(mbi.info.start, mbi.info.end)) \cap (AllFrames \ reserved) # {}

\* "lost" is all that can follow when the kernel goes on with something else than
\* the loader left: any files are found, or none, or the kernel faults.
init_initrd ==
  /\ phase = "memory"
  /\ \/ InfoUnmapped /\ phase' = "fault" /\ UNCHANGED ptr
     \/ ~InfoUnmapped /\ InfoLost /\ phase' = "lost" /\ UNCHANGED ptr
     \/ /\ ~InfoUnmapped /\ ~InfoLost
        /\ ~mbi.info_mods \/ Len(mbi.mods) = 0
        /\ phase' = "up" /\ UNCHANGED ptr
     \/ /\ ~InfoUnmapped /\ ~InfoLost /\ mbi.info_mods /\ Len(mbi.mods) # 0
        /\ \/ DescriptorUnmapped /\ phase' = "fault" /\ UNCHANGED ptr
           \/ ~DescriptorUnmapped /\ phase' = "initrd" /\ ptr' = mbi.mods[1].start
  /\ UNCHANGED <<vars, files>>

\* What the loop of initrd_initialize reads at ptr: another header?
More == Len(files) < MAX_FILES /\ HeadersAt(mbi, ptr) # {}

\* pmm_initialize has written over it.
HeaderLost(p) == Bytes(p, p + BLOCK) \cap Overwritten(mbi, mbi.seen) # {}

initrd_entry ==
  /\ phase = "initrd" /\ ~Unmapped(ptr) /\ ~HeaderLost(ptr) /\ More
  /\ \E i \in HeadersAt(mbi, ptr) :
       LET e    == mbi.archive[i]
           size == octal_to_int(SizeField(e.size))
       IN  /\ files' = IF e.file
                       THEN Append(files, [name |-> e.name, length |-> size, data |-> ptr + BLOCK])
                       ELSE files
           /\ ptr' = Cut(ptr + HeaderStep(size))
  /\ UNCHANGED <<vars, phase>>

initrd_end ==
  /\ phase = "initrd"
  /\ \/ Len(files) = MAX_FILES /\ phase' = "up"
     \/ Len(files) < MAX_FILES /\ Unmapped(ptr) /\ phase' = "fault"
     \/ Len(files) < MAX_FILES /\ ~Unmapped(ptr) /\ HeaderLost(ptr) /\ phase' = "lost"
     \/ Len(files) < MAX_FILES /\ ~Unmapped(ptr) /\ ~HeaderLost(ptr) /\ ~More /\ phase' = "up"
  /\ UNCHANGED <<vars, ptr, files>>

\* initrd_finddir: the first file of that name, 0 if there is none.
initrd_finddir(name) ==
  LET S == {k \in DOMAIN files : files[k].name = name}
  IN  IF S = {} THEN 0 ELSE Min(S)

BootNext == UseFrames \/ init_initrd \/ initrd_entry \/ initrd_end

BootSpec == BootInit /\ [][BootNext]_allVars

-----------------------------------------------------------------------------
\* What must stay as it is while the kernel runs: the memory below 1 MiB, the
\* kernel and its bitmap; the modules and their descriptors.
Own(m) == Bytes(0, LOW) \cup Bytes(KernelStart, BitmapEnd(m))
Loaded(m) == Descriptors(m) \cup UNION {Bytes(m.mods[i].start, m.mods[i].end) : i \in DOMAIN m.mods}
Kept(m) == Own(m) \cup Loaded(m)

\* The regions above 1 MiB are whole pages below 4 GiB, and an empty table of
\* modules is not at address 0.
Regular(m) ==
  /\ m.info_mods => m.mods_addr > 0
  /\ \A e \in Usable(m) :
       /\ e.addr + e.len <= SPACE
       /\ e.addr + e.len <= LOW \/ (e.addr % PAGE_SIZE = 0 /\ e.len % PAGE_SIZE = 0)

\* Whatever the map says, also of memory from 4 GiB on, whose addresses lose
\* their upper half, and whatever is read where the bitmap has been written over
\* it, no frame with a byte of the low memory, the kernel or its bitmap is ever
\* handed out; and none with a byte of a module or of their descriptors, if the
\* bitmap does not lie on what passes 2 and 3 read (pass 3 of pmm_initialize
\* comes last).
KernelSafe ==
  /\ held \cap PagesOf(Own(mbi)) = {}
  /\ Intact(mbi) => held \cap PagesOf(Loaded(mbi)) = {}

\* A whole frame of a region, and the frames pass 3 has to find in the bitmap.
Covers(e, f) == e.addr <= f * PAGE_SIZE /\ (f + 1) * PAGE_SIZE <= e.addr + e.len
InMemory(m) == PagesOf(Kept(m) \cup {a \in {m.mods_addr} : m.info_mods}) \subseteq 0 .. TotalFrames(m) - 1

\* The pool is the usable memory.  On a regular map, read as it was loaded, every
\* frame in the pool lies in a usable region, and no frame of a usable region that
\* ends below 4 GiB is lost unless it is in Kept or an empty table of modules is
\* said to be in it.  If what the loader has put there is in memory, passes 2 and 3
\* write no bit outside of the bitmap.
PoolIsRam ==
  LET pool == AllFrames \ reserved
  IN  Regular(mbi) =>
        /\ Intact(mbi) =>
             /\ \A f \in pool : \E e \in Usable(mbi) : Covers(e, f)
             /\ \A f \in 0 .. Page(SPACE) - 1, e \in Usable(mbi) :
                  Covers(e, f) /\ e.addr + e.len < SPACE /\ f \notin pool =>
                    f \in PagesOf(Kept(mbi)) \/ (mbi.mods = <<>> /\ f = Page(mbi.mods_addr))
        /\ InMemory(mbi) => Written(mbi, AsLoaded(mbi)) \subseteq 0 .. BYTE * BitmapBytes(mbi) - 1

\* The loader's data are where the kernel expects them: struct multiboot_info, the
\* table of modules and the first module in the memory that is mapped one to one,
\* none of them under the bitmap, and struct multiboot_info not in a frame of the
\* pool.  The module holds the whole archive, with the empty block that ends it.
WellLoaded(m) ==
  /\ m.mods # <<>> /\ Intact(m)
  /\ m.info.end <= IDENTITY /\ m.mods_addr + DESCRIPTOR <= IDENTITY /\ m.mods[1].end <= IDENTITY
  /\ Bytes(m.mods[1].start, m.mods[1].end) \cap Overwritten(m, AsLoaded(m)) = {}
  /\ PagesOf(Bytes(m.info.start, m.info.end)) \cap (0 .. TotalFrames(m) - 1) \subseteq BootBitmap(m)
  /\ HeaderAddr(m, Len(m.archive) + 1) + BLOCK <= m.mods[1].end

\* The entries that are files, the place of one among them, and what the kernel
\* has to know of it.
Plain(m) == {i \in DOMAIN m.archive : m.archive[i].file}
Place(m, i) == Cardinality({j \in Plain(m) : j <= i})
FileOf(m, i) ==
  [name |-> m.archive[i].name, length |-> m.archive[i].size, data |-> HeaderAddr(m, i) + BLOCK]

\* initrd_initialize finds the files of the archive in order, as many as it has
\* room for, each at its bytes and found by its name, and those bytes stay
\* untouched: no frame of them is handed out, before or after.
InitrdServed ==
  WellLoaded(mbi) =>
    /\ phase \notin {"fault", "lost"}
    /\ phase = "up" =>
         /\ Len(files) = Min({Cardinality(Plain(mbi)), MAX_FILES})
         /\ \A i \in Plain(mbi) : Place(mbi, i) <= MAX_FILES =>
              /\ files[Place(mbi, i)] = FileOf(mbi, i)
              /\ initrd_finddir(mbi.archive[i].name) \in 1 .. Place(mbi, i)
              /\ LET first == FileOf(mbi, i).data
                 IN  PagesOf(Bytes(first, first + mbi.archive[i].size)) \cap held = {}
=============================================================================
