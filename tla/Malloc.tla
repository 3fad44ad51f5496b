------------------------------- MODULE Malloc -------------------------------
(***************************************************************************)
(* The allocator of malloc.c: a list of blocks over the memory that sbrk   *)
(* gives.  An address counts words of four bytes.  A block is a header of  *)
(* HDR words and its payload; list is the chain from head along next.      *)
(* size_t arithmetic is modulo SizeMax + 1.                                *)
(***************************************************************************)
EXTENDS Integers, Sequences, FiniteSets, SequencesExt, FiniteSetsExt, Functions

CONSTANTS HDR, ALIGN, PAGE,
          SizeMax,         \* the largest size_t
          BreakLimit,      \* where sys_sbrk starts to fail
          SignLimit,       \* 2 GiB, where its answers become negative
          Requests,        \* sizes asked of malloc and realloc
          Arrays,          \* pairs asked of calloc
          Steps            \* increments of the program's own sbrk

\* Sizes that sys_sbrk, whose increment is signed, takes for a growth.
Ordinary(n) == 2 * (n + HDR + ALIGN + PAGE) <= SizeMax

ASSUME MallocAssumption ==
  /\ HDR \in Nat \ {0} /\ ALIGN \in Nat \ {0} /\ PAGE \in Nat \ {0}
  /\ SizeMax \in Nat /\ BreakLimit \in Nat /\ BreakLimit < SizeMax /\ SignLimit \in Nat
  /\ \A n \in Requests : n \in Nat \ {0} /\ Ordinary(n)
  /\ Arrays \subseteq (0 .. SizeMax) \X (0 .. SizeMax)
  /\ \A a \in Arrays : a[1] * a[2] > SizeMax \/ Ordinary(a[1] * a[2])
  /\ Steps \subseteq Nat \ {0}

VARIABLES list,      \* records of addr, size, free, in the order of next
          brk,       \* the program break, 0 at the start
          live,      \* the pointers the program holds, with the size it asked for
          held,      \* how many answers the program has not given back
          got        \* history variable: the words grow has got from sbrk

vars == <<list, brk, live, held, got>>

-----------------------------------------------------------------------------
RoundUp(n, to) == (((n + to - 1) \div to) * to) % (SizeMax + 1)

UsedBlock(a, s) == [addr |-> a, size |-> s, free |-> FALSE]
FreeBlock(a, s) == [addr |-> a, size |-> s, free |-> TRUE]
End(b) == b.addr + HDR + b.size
Words(b) == b.addr .. End(b) - 1

InUse(b) == UsedBlock(b.addr, b.size)

\* find_free: the first block of the list that is free and large enough.
FitsIgnoringFree(l, size) == {i \in DOMAIN l : l[i].size >= size}   \* (mutant: b->free not tested)
Fits(l, size) == {i \in DOMAIN l : l[i].free /\ l[i].size >= size}

\* split block i of list l: the rest becomes a free block after it.
RestWithHeader(b, size) == FreeBlock(b.addr + HDR + size, b.size - size)  \* (mutant: header not counted)
Rest(b, size) == FreeBlock(b.addr + HDR + size, b.size - size - HDR)

split(l, i, size) ==
  IF l[i].size < size + HDR + ALIGN THEN l
  ELSE InsertAt([l EXCEPT ![i].size = size], i + 1, Rest(l[i], size))

\* grow: whole pages, appended to the list.
Need(size) == RoundUp(size + HDR, PAGE)
Granted(b, k) == b + k <= BreakLimit

\* sbrk takes an old break of SignLimit or more for an error; the break has moved.
TakenForError(b) == b >= SignLimit
CanGrow(b, size) == Granted(b, Need(size)) /\ ~TakenForError(b)

\* malloc of a nonzero size, on a list l and a break b: the index of the block,
\* the list, and the new break; index 0 is NULL.
MallocOn(l, b, n) ==
  LET size == RoundUp(n, ALIGN)
  IN  IF Fits(l, size) # {}
      THEN LET i == Min(Fits(l, size))
           IN  [at |-> i, list |-> [split(l, i, size) EXCEPT ![i] = InUse(@)], brk |-> b]
      ELSE IF CanGrow(b, size)
      THEN LET i == Len(l) + 1
           IN  [at |-> i, brk |-> b + Need(size),
                list |-> split(Append(l, UsedBlock(b, Need(size) - HDR)), i, size)]
      ELSE [at |-> 0, list |-> l, brk |-> IF Granted(b, Need(size)) THEN b + Need(size) ELSE b]

Pointer(r) == r.list[r.at].addr + HDR

\* The index of the block whose payload is at p.
BlockAt(l, p) == CHOOSE i \in DOMAIN l : l[i].addr + HDR = p

\* free: the block is marked, and merged with the free blocks that follow it in
\* the list and in memory.  Each adds its header and its size, and starts where
\* the one before ends: the sum of them all ends where the last one does.
Followers(l, i) ==
  {n \in 0 .. Len(l) - i : \A j \in i + 1 .. i + n : l[j].free /\ End(l[j - 1]) = l[j].addr}

FreeOn(l, p) ==
  LET i == BlockAt(l, p)
      n == Max(Followers(l, i))
      size == End(l[i + n]) - (l[i].addr + HDR)
  IN  SubSeq(l, 1, i - 1) \o <<FreeBlock(l[i].addr, size)>> \o SubSeq(l, i + n + 1, Len(l))

-----------------------------------------------------------------------------
Without(f, p) == Restrict(f, DOMAIN f \ {p})
With(f, p, n) == [q \in DOMAIN f \cup {p} |-> IF q = p THEN n ELSE f[q]]

Init == list = <<>> /\ brk = 0 /\ live = [p \in {} |-> 0] /\ held = 0 /\ got = {}

\* malloc(n); n of calloc may be 0, which is answered with NULL.
Allocate(n, asked) ==
  LET r == MallocOn(list, brk, n)
  IN  /\ n # 0
      /\ list' = r.list /\ brk' = r.brk
      /\ IF r.at # 0
         THEN /\ live' = With(live, Pointer(r), asked)
              /\ held' = held + 1
              /\ got' = got \cup (brk .. r.brk - 1)
         ELSE UNCHANGED <<live, held, got>>

malloc(n) == Allocate(n, n)

\* calloc: the product wraps, and the division finds out.
Unchecked(n, size) == TRUE               \* (mutant: no overflow test)
NoOverflow(n, size) == n = 0 \/ ((n * size) % (SizeMax + 1)) \div n = size

calloc(n, size) ==
  /\ NoOverflow(n, size)
  /\ Allocate((n * size) % (SizeMax + 1), n * size)

free(p) ==
  /\ p \in DOMAIN live
  /\ list' = FreeOn(list, p)
  /\ live' = Without(live, p)
  /\ held' = held - 1
  /\ UNCHANGED <<brk, got>>

\* realloc of a block that is large enough returns it as it is; else the contents
\* move to a new block, and without one nothing changes.
realloc(p, n) ==
  /\ p \in DOMAIN live
  /\ IF list[BlockAt(list, p)].size >= n
     THEN live' = With(live, p, n) /\ UNCHANGED <<list, brk, got>>
     ELSE LET r == MallocOn(list, brk, n)
          IN  /\ brk' = r.brk
              /\ IF r.at # 0
                 THEN /\ list' = FreeOn(r.list, p)
                      /\ live' = Without(With(live, Pointer(r), n), p)
                      /\ got' = got \cup (brk .. r.brk - 1)
                 ELSE UNCHANGED <<list, live, got>>
  /\ UNCHANGED held

\* The program may call sbrk itself; that memory is none of malloc's.
user_sbrk(k) ==
  /\ Granted(brk, k)
  /\ brk' = brk + k
  /\ UNCHANGED <<list, live, held, got>>

Next ==
  \/ \E n \in Requests : malloc(n)
  \/ \E a \in Arrays : calloc(a[1], a[2])
  \/ \E p \in DOMAIN live : free(p) \/ \E n \in Requests : realloc(p, n)
  \/ \E k \in Steps : user_sbrk(k)

Spec == Init /\ [][Next]_vars

-----------------------------------------------------------------------------
\* The list is in address order and its blocks do not overlap, headers included;
\* together they are all the memory grow has ever got, and nothing that sbrk gave
\* to the program or that was lost: splitting and merging lose and double no word.
Tiling ==
  /\ \A i \in 1 .. Len(list) - 1 : End(list[i]) <= list[i + 1].addr
  /\ list # <<>> => End(Last(list)) <= brk
  /\ UNION {Words(list[i]) : i \in DOMAIN list} = got

\* The blocks in use are the ones the program holds, no block has been handed out
\* twice, and each has room for what was asked.
Honoured ==
  /\ Cardinality(DOMAIN live) = held
  /\ {list[i].addr + HDR : i \in {j \in DOMAIN list : ~list[j].free}} = DOMAIN live
  /\ \A p \in DOMAIN live : live[p] <= list[BlockAt(list, p)].size

\* malloc.c implements the abstract heap.
H == INSTANCE Heap WITH Addresses <- 0 .. BreakLimit
HeapSpec == H!Spec
=============================================================================
