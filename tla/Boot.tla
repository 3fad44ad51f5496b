-------------------------------- MODULE Boot --------------------------------
(***************************************************************************)
(* What the kernel makes of the machine that the loader describes: the     *)
(* three passes of pmm_initialize over the multiboot memory map and        *)
(* modules, and what initrd_initialize finds at an address.  Addresses of  *)
(* the map have 64 bits, those of the kernel 32: SPACE stands for 2^32.    *)
(*                                                                         *)
(* A machine is a record of                                                *)
(*   mmap       a set of [addr, len, usable]                               *)
(*   info_mods  the flag MULTIBOOT_INFO_MODS                               *)
(*   mods       the modules, a sequence of [start, end], end exclusive     *)
(*   mods_addr  the address of their descriptors                           *)
(*   archive    what the first one holds: a sequence of [name, file, size] *)
(*   info, map  where the loader has put struct multiboot_info and the     *)
(*              memory map: [start, end]                                   *)
(*   seen       what passes 2 and 3 read: [mmap, info_mods, mods,          *)
(*              mods_addr] again.  The bitmap is filled before them, and   *)
(*              where it lies on what they read, that is anything.         *)
(***************************************************************************)
EXTENDS Integers, Sequences, FiniteSets, FiniteSetsExt, SequencesExt

CONSTANTS PAGE_SIZE, SPACE,
          BYTE,            \* bits in a byte of the bitmap
          LOW,             \* 0x100000, the memory below the kernel
          KernelStart, KernelEnd,
          DESCRIPTOR,      \* sizeof(struct multiboot_module)
          BLOCK,           \* 512, the unit of the archive
          DIGITS,          \* 11, the octal digits of a size in the archive
          IDENTITY,        \* 4 MiB, the memory mapped one to one
          Machines

-----------------------------------------------------------------------------
Cut(x) == x % SPACE
Page(a) == a \div PAGE_SIZE
Bytes(first, end) == first .. end - 1
PagesOf(S) == {Page(a) : a \in S}

Usable(r) == {e \in r.mmap : e.usable}

\* Pass 1: the top of usable RAM.
Top(e) == Cut(e.addr + e.len)
Highest(m) == Max({0} \cup {Top(e) : e \in Usable(m)})
TotalFrames(m) == Page(Highest(m))
BitmapBytes(m) == (TotalFrames(m) + BYTE - 1) \div BYTE
BitmapEnd(m) == KernelEnd + BitmapBytes(m)

\* Pass 2: the frames of the addresses that the loop over a region goes through.
RegionPages(e) ==
  LET base == Cut(e.addr)
      end  == Cut(base + Cut(e.len))
  IN  {Page(a) : a \in {b \in base .. end - 1 : (b - base) % PAGE_SIZE = 0}}
ClearsAll(r) == UNION {RegionPages(e) : e \in r.mmap}     \* (mutant: the type is not tested)
Cleared(r) == UNION {RegionPages(e) : e \in Usable(r)}

\* Pass 3: the frames of the bytes first .. end - 1, as its loops count them.
PagesBelow(first, end) == Page(first) .. Page(end) - 1    \* (mutant: up to the frame of end)
Pages(first, end) == Page(first) .. Page(Cut(end - 1))

ModsEnd(r) == Cut(r.mods_addr + Len(r.mods) * DESCRIPTOR)

ImagePages(r) == UNION {Pages(r.mods[i].start, r.mods[i].end) : i \in DOMAIN r.mods}
ModulePages(r) ==
  IF r.info_mods THEN ImagePages(r) \cup Pages(r.mods_addr, ModsEnd(r)) ELSE {}
SetLast(m, r) ==
  PagesOf(Bytes(0, LOW)) \cup Pages(KernelStart, BitmapEnd(m)) \cup ModulePages(r)

\* The bits that the three passes leave set if the last two read r, the bits these
\* write, and the memory the kernel writes: its own, the bitmap, and, without a
\* test, the bytes of the bits past the end of the bitmap.
Bitmap(m, r) == (((0 .. TotalFrames(m) - 1) \ Cleared(r)) \cup SetLast(m, r))
                  \cap (0 .. TotalFrames(m) - 1)
Written(m, r) == Cleared(r) \cup SetLast(m, r)
Overwritten(m, r) ==
  Bytes(KernelStart, BitmapEnd(m)) \cup {KernelEnd + f \div BYTE : f \in Written(m, r)}

\* What the loader has left to read, and whether it is still there for passes 2 and 3.
AsLoaded(m) ==
  [mmap |-> m.mmap, info_mods |-> m.info_mods, mods |-> m.mods, mods_addr |-> m.mods_addr]
Descriptors(m) == Bytes(m.mods_addr, m.mods_addr + Len(m.mods) * DESCRIPTOR)
Intact(m) ==
  Overwritten(m, AsLoaded(m))
    \cap (Bytes(m.info.start, m.info.end) \cup Bytes(m.map.start, m.map.end) \cup Descriptors(m)) = {}

\* The bits that pmm_initialize leaves set.
BootBitmap(m) == Bitmap(m, m.seen)

-----------------------------------------------------------------------------
(***************************************************************************)
(* The archive.  tar writes a header block for each entry and then its     *)
(* bytes, padded to whole blocks; the size is in octal digits, ended by a  *)
(* character that is none, and an empty block ends the archive.            *)
(***************************************************************************)
Blank == -1

\* A size without its last 0, 1, ... octal digits, and the field that holds it.
Eighths(n) ==
  LET rest[k \in 0 .. DIGITS] == IF k = 0 THEN n ELSE rest[k - 1] \div 8 IN rest
SizeField(n) ==
  [i \in 1 .. DIGITS + 1 |-> IF i > DIGITS THEN Blank ELSE Eighths(n)[DIGITS - i] % 8]

\* Where the header of entry i lies, and, after the last entry, the empty block.
Blocks(n) == (n + BLOCK - 1) \div BLOCK
HeaderAddr(m, i) ==
  LET at[j \in 1 .. Len(m.archive) + 1] ==
        IF j = 1 THEN m.mods[1].start ELSE at[j - 1] + BLOCK * (1 + Blocks(m.archive[j - 1].size))
  IN  at[i]

\* The entries whose header is at address p: none where the archive ends, and
\* where its data lie.
HeadersAt(m, p) == {i \in DOMAIN m.archive : p = HeaderAddr(m, i)}

\* How many octal digits s begins with, and what they say.
Digits(s) == Min({i \in 0 .. Len(s) : i = Len(s) \/ s[i + 1] \notin 0 .. 7})
octal_to_int(s) ==
  LET v[i \in 0 .. Digits(s)] == IF i = 0 THEN 0 ELSE Cut(v[i - 1] * 8 + s[i])
  IN  v[Digits(s)]

\* From one header to the next.
StepOneMore(size) == BLOCK + (Cut(size + BLOCK) \div BLOCK) * BLOCK     \* (mutant: size + 512)
HeaderStep(size) == BLOCK + (Cut(size + BLOCK - 1) \div BLOCK) * BLOCK

\* The machines the kernel can start on: there is usable memory, and modules
\* have a first and a last byte.  tar writes sizes that fit into their field.
\* What is still there is read as it was loaded.
ASSUME BootAssumption ==
  /\ PAGE_SIZE \in Nat \ {0} /\ SPACE \in Nat \ {0} /\ LOW \in Nat \ {0}
  /\ KernelStart \in Nat /\ KernelEnd \in Nat /\ DESCRIPTOR \in Nat \ {0} /\ BYTE \in Nat \ {0}
  /\ BLOCK \in Nat \ {0} /\ DIGITS \in Nat /\ IDENTITY \in Nat
  /\ \A m \in Machines :
       /\ \A e \in m.mmap : e.addr \in Nat /\ e.len \in Nat
       /\ TotalFrames(m) \in Nat \ {0}
       /\ BitmapEnd(m) \in KernelStart + 1 .. SPACE
       /\ m.mods # <<>> => m.info_mods
       /\ m.mods \in Seq([start : 0 .. SPACE - 1, end : 1 .. SPACE])
       /\ \A i \in DOMAIN m.mods : m.mods[i].start < m.mods[i].end
       /\ \A S \in {m.info, m.map} : S.start \in Nat /\ S.end \in Nat
       /\ Intact(m) => m.seen = AsLoaded(m)
       /\ m.mods_addr \in Nat /\ m.mods_addr + Len(m.mods) * DESCRIPTOR < SPACE
       /\ Len(m.archive) \in Nat /\ DOMAIN m.archive = 1 .. Len(m.archive)
       /\ \A i \in DOMAIN m.archive : m.archive[i].size \in Nat /\ Eighths(m.archive[i].size)[DIGITS] = 0
=============================================================================
