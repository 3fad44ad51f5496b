---------------------------- MODULE MallocProofs ----------------------------
(***************************************************************************)
(* The allocator of libc, for any sizes of headers and pages and any       *)
(* sequence of calls: its list tiles the memory that grow has got, its     *)
(* blocks in use are those the program holds, and it implements Heap.      *)
(***************************************************************************)
EXTENDS Malloc, NatMin, FiniteSetTheorems, SequenceTheorems

BlockType == [addr : Nat, size : Nat, free : BOOLEAN]

\* The list l lies below b, in the order of addresses, and its words are g.
Ordered(l) == \A i, j \in 1 .. Len(l) : i < j => End(l[i]) <= l[j].addr
Below(l, b) == \A i \in 1 .. Len(l) : End(l[i]) <= b
Covers(l, g) ==
  /\ \A i \in 1 .. Len(l) : Words(l[i]) \subseteq g
  /\ \A x \in g : \E i \in 1 .. Len(l) : x \in Words(l[i])

\* The blocks of l that are in use, but for block k, are the pointers of v.
HoldsBut(l, v, k) ==
  /\ \A i \in 1 .. Len(l) \ {k} : ~l[i].free =>
       l[i].addr + HDR \in DOMAIN v /\ v[l[i].addr + HDR] \in 0 .. l[i].size
  /\ \A p \in DOMAIN v : \E i \in 1 .. Len(l) \ {k} : ~l[i].free /\ l[i].addr + HDR = p

Laid(l, b, g) == l \in Seq(BlockType) /\ b \in 0 .. BreakLimit /\ Ordered(l) /\ Below(l, b) /\ Covers(l, g)
Good(l, b, g, v) == Laid(l, b, g) /\ HoldsBut(l, v, 0)

\* The inductive invariant.
MallocInv ==
  /\ Good(list, brk, got, live)
  /\ IsFiniteSet(DOMAIN live) /\ held \in Nat /\ Cardinality(DOMAIN live) = held

-----------------------------------------------------------------------------
\* The first i elements of l, then e, then those from k on.
Splice(l, i, e, k) == SubSeq(l, 1, i) \o <<e>> \o SubSeq(l, k, Len(l))

IsSplice(S, m, l, i, e, k) ==
  /\ m \in Seq(S) /\ Len(m) = Len(l) + i + 2 - k
  /\ \A j \in 1 .. Len(m) :
       m[j] = IF j <= i THEN l[j] ELSE IF j = i + 1 THEN e ELSE l[j + k - (i + 2)]

LEMMA Spliced ==
  ASSUME NEW S, NEW l \in Seq(S), NEW i \in 0 .. Len(l), NEW k \in i + 1 .. Len(l) + 1, NEW e \in S
  PROVE  IsSplice(S, Splice(l, i, e, k), l, i, e, k)
<1>0. PICK m : m = Splice(l, i, e, k)
  OBVIOUS
<1>1. PICK n \in Nat : n = Len(l)
  BY LenProperties
<1>2. i \in 0 .. n /\ i \in Nat /\ k \in i + 1 .. n + 1 /\ k \in Nat
  BY <1>1
<1>3. PICK a : a = SubSeq(l, 1, i)
  OBVIOUS
<1>4. a \in Seq(S) /\ Len(a) = i /\ \A j \in 1 .. i : a[j] = l[j]
  <2>1. \A j \in 1 .. i : l[j] \in S
    BY <1>1, <1>2, ElementOfSeq
  <2>2. /\ a \in Seq(S) /\ Len(a) = IF 1 <= i THEN i - 1 + 1 ELSE 0
        /\ \A j \in 1 .. i - 1 + 1 : a[j] = l[1 + j - 1]
    BY <1>2, <1>3, <2>1, SubSeqProperties
  <2>. QED  BY <1>2, <2>2
<1>5. PICK c : c = SubSeq(l, k, n)
  OBVIOUS
<1>6. c \in Seq(S) /\ Len(c) = n - k + 1 /\ \A j \in 1 .. n - k + 1 : c[j] = l[k + j - 1]
  <2>1. \A j \in k .. n : l[j] \in S
    BY <1>1, <1>2, ElementOfSeq
  <2>2. /\ c \in Seq(S) /\ Len(c) = IF k <= n THEN n - k + 1 ELSE 0
        /\ \A j \in 1 .. n - k + 1 : c[j] = l[k + j - 1]
    BY <1>2, <1>5, <2>1, SubSeqProperties
  <2>. QED  BY <1>2, <2>2
<1>7. PICK b : b = <<e>>
  OBVIOUS
<1>8. b \in Seq(S) /\ Len(b) = 1 /\ b[1] = e
  BY <1>7
<1>9. PICK ab : ab = a \o b
  OBVIOUS
<1>10. /\ ab \in Seq(S) /\ Len(ab) = i + 1
       /\ \A j \in 1 .. i + 1 : ab[j] = IF j <= i THEN l[j] ELSE e
  <2>1. /\ a \o b \in Seq(S) /\ Len(a \o b) = Len(a) + Len(b)
        /\ \A j \in 1 .. Len(a) + Len(b) : (a \o b)[j] = IF j <= Len(a) THEN a[j] ELSE b[j - Len(a)]
    BY <1>4, <1>8, ConcatProperties
  <2>2. \A j \in 1 .. i + 1 : ab[j] = IF j <= i THEN a[j] ELSE b[j - i]
    BY <1>2, <1>4, <1>8, <1>9, <2>1
  <2>3. ASSUME NEW j \in 1 .. i + 1  PROVE ab[j] = IF j <= i THEN l[j] ELSE e
    BY <1>2, <1>4, <1>8, <2>2
  <2>. QED  BY <1>2, <1>4, <1>8, <1>9, <2>1, <2>3
<1>11. m = ab \o c
  BY <1>0, <1>1, <1>3, <1>5, <1>7, <1>9 DEF Splice
<1>12. PICK w \in Nat : w = n + i + 2 - k
  BY <1>2
<1>13. /\ m \in Seq(S) /\ Len(m) = w
       /\ \A j \in 1 .. w : m[j] = IF j <= i + 1 THEN ab[j] ELSE c[j - (i + 1)]
  <2>1. /\ ab \o c \in Seq(S) /\ Len(ab \o c) = Len(ab) + Len(c)
        /\ \A j \in 1 .. Len(ab) + Len(c) : (ab \o c)[j] = IF j <= Len(ab) THEN ab[j] ELSE c[j - Len(ab)]
    BY <1>6, <1>10, ConcatProperties
  <2>2. Len(ab) + Len(c) = w
    BY <1>2, <1>6, <1>10, <1>12
  <2>. QED  BY <1>10, <1>11, <2>1, <2>2
<1>14. ASSUME NEW j \in 1 .. w
       PROVE  m[j] = IF j <= i THEN l[j] ELSE IF j = i + 1 THEN e ELSE l[j + k - (i + 2)]
  <2>1. CASE j <= i + 1
    <3>1. j \in 1 .. i + 1 /\ m[j] = ab[j]
      <4>1. j \in 1 .. i + 1
        BY <1>2, <2>1
      <4>2. m[j] = ab[j]
        BY <1>13, <2>1
      <4>. QED  BY <4>1, <4>2
    <3>2. m[j] = IF j <= i THEN l[j] ELSE e
      BY <1>10, <3>1
    <3>3. ~(j <= i) => j = i + 1
      BY <1>2, <3>1
    <3>. QED  BY <3>2, <3>3
  <2>2. CASE ~(j <= i + 1)
    <3>1. j - (i + 1) \in 1 .. n - k + 1 /\ k + (j - (i + 1)) - 1 = j + k - (i + 2)
      BY <1>2, <1>12, <2>2
    <3>2. c[j - (i + 1)] = l[k + (j - (i + 1)) - 1]
      BY <1>6, <3>1
    <3>3. m[j] = l[j + k - (i + 2)]
      BY <1>13, <2>2, <3>1, <3>2
    <3>4. ~(j <= i) /\ j # i + 1
      BY <1>2, <2>2
    <3>. QED  BY <3>3, <3>4
  <2>. QED  BY <2>1, <2>2
<1>. QED  BY <1>0, <1>1, <1>12, <1>13, <1>14 DEF IsSplice

-----------------------------------------------------------------------------
\* The constants as numbers.
LEMMA Sizes ==
  HDR \in Nat \ {0} /\ ALIGN \in Nat \ {0} /\ PAGE \in Nat \ {0} /\ BreakLimit \in Nat /\ SizeMax \in Nat
BY MallocAssumption

\* What the definitions say of a typed block ...
LEMMA BlockFacts ==
  ASSUME NEW b \in BlockType
  PROVE  /\ b.addr \in Nat /\ b.size \in Nat /\ b.free \in BOOLEAN
         /\ End(b) = b.addr + HDR + b.size /\ End(b) \in Nat
BY Sizes DEF BlockType, End

\* ... and of one that was just made.
LEMMA UsedIs ==
  ASSUME NEW a \in Nat, NEW s \in Nat
  PROVE  /\ UsedBlock(a, s) \in BlockType
         /\ UsedBlock(a, s).addr = a /\ UsedBlock(a, s).size = s
         /\ End(UsedBlock(a, s)) = a + HDR + s
BY DEF UsedBlock, BlockType, End

LEMMA FreeIs ==
  ASSUME NEW a \in Nat, NEW s \in Nat
  PROVE  /\ FreeBlock(a, s) \in BlockType
         /\ FreeBlock(a, s).addr = a /\ FreeBlock(a, s).size = s
         /\ End(FreeBlock(a, s)) = a + HDR + s
BY DEF FreeBlock, BlockType, End

\* Block i of l taken for size words: what malloc does to the block it has found,
\* whether or not split makes two blocks of it.
TakenAt(l, i, size) == [split(l, i, size) EXCEPT ![i] = InUse(@)]

LEMMA TakenWhole ==
  ASSUME NEW l \in Seq(BlockType), NEW i \in 1 .. Len(l), NEW size \in Nat,
         l[i].size < size + HDR + ALIGN, NEW m, m = TakenAt(l, i, size)
  PROVE  /\ m \in Seq(BlockType) /\ Len(m) = Len(l)
         /\ \A j \in 1 .. Len(l) : m[j] = IF j = i THEN UsedBlock(l[i].addr, l[i].size) ELSE l[j]
<1>1. m = [l EXCEPT ![i] = InUse(@)]
  BY DEF TakenAt, split
<1>2. l[i] \in BlockType
  BY ElementOfSeq
<1>4. UsedBlock(l[i].addr, l[i].size) \in BlockType
  BY <1>2, BlockFacts, UsedIs
<1>5. m = [l EXCEPT ![i] = UsedBlock(l[i].addr, l[i].size)]
  BY <1>1 DEF InUse
<1>6. PICK e \in BlockType : e = UsedBlock(l[i].addr, l[i].size)
  BY <1>4
<1>7. m = [l EXCEPT ![i] = e]
  BY <1>5, <1>6
<1>8. /\ m \in Seq(BlockType) /\ Len(m) = Len(l)
      /\ \A j \in 1 .. Len(l) : m[j] = IF j = i THEN e ELSE l[j]
  BY <1>7, ExceptSeq
<1>. QED  BY <1>6, <1>8

\* What split does when the remainder is large enough.
LEMMA SplitIs ==
  ASSUME NEW l \in Seq(BlockType), NEW i \in 1 .. Len(l), NEW size \in Nat,
         ~(l[i].size < size + HDR + ALIGN),
         NEW l2, l2 = split(l, i, size)
  PROVE  /\ l2 \in Seq(BlockType) /\ Len(l2) = Len(l) + 1
         /\ \A j \in 1 .. Len(l2) :
              l2[j] = IF j < i THEN l[j] ELSE IF j = i THEN [l[i] EXCEPT !.size = size]
                      ELSE IF j = i + 1 THEN Rest(l[i], size) ELSE l[j - 1]
         /\ i \in 1 .. Len(l2) /\ l2[i] = [l[i] EXCEPT !.size = size]
         /\ Rest(l[i], size) \in BlockType
<1>0. PICK n \in Nat : n = Len(l)
  BY LenProperties
<1>1. l[i] \in BlockType /\ i \in 1 .. n /\ i \in Nat
  BY <1>0, ElementOfSeq
<1>2. Rest(l[i], size) \in BlockType
  <2>1. l[i].addr + HDR + size \in Nat /\ l[i].size - size - HDR \in Nat
    <3>1. PICK b \in BlockType : b = l[i]
      BY <1>1
    <3>2. b.addr \in Nat /\ b.size \in Nat /\ HDR \in Nat /\ ALIGN \in Nat /\ ~(b.size < size + HDR + ALIGN)
      BY <3>1, BlockFacts, Sizes
    <3>3. b.addr + HDR + size \in Nat /\ b.size - size - HDR \in Nat
      BY <3>2
    <3>. QED  BY <3>1, <3>3
  <2>. QED  BY <2>1, FreeIs DEF Rest
<1>3. PICK e1 : e1 = [l[i] EXCEPT !.size = size]
  OBVIOUS
<1>4. PICK l1 : l1 = [l EXCEPT ![i].size = size]
  OBVIOUS
<1>5. e1 \in BlockType /\ l1 = [l EXCEPT ![i] = e1]
  <2>1. [l[i] EXCEPT !.size = size] \in BlockType
    BY <1>1 DEF BlockType
  <2>2. l1 = [l EXCEPT ![i] = [l[i] EXCEPT !.size = size]]
    BY <1>4
  <2>. QED  BY <1>3, <2>1, <2>2
<1>6. /\ l1 \in Seq(BlockType) /\ Len(l1) = n
      /\ \A j \in 1 .. n : l1[j] = IF j = i THEN e1 ELSE l[j]
  BY <1>0, <1>5, ExceptSeq
<1>7. l2 = InsertAt(l1, i + 1, Rest(l[i], size))
  BY <1>4 DEF split
<1>8. l2 = SubSeq(l1, 1, i) \o <<Rest(l[i], size)>> \o SubSeq(l1, i + 1, Len(l1))
  <2>1. PICK k \in Int : k = i + 1 /\ k - 1 = i
    BY <1>1
  <2>2. l2 = SubSeq(l1, 1, k - 1) \o <<Rest(l[i], size)>> \o SubSeq(l1, k, Len(l1))
    BY <1>7, <2>1, Zenon DEF InsertAt
  <2>. QED  BY <2>1, <2>2, Zenon
<1>9. /\ l2 \in Seq(BlockType) /\ Len(l2) = n + i + 2 - (i + 1)
      /\ \A j \in 1 .. Len(l2) : l2[j] = IF j <= i THEN l1[j] ELSE IF j = i + 1 THEN Rest(l[i], size)
                                         ELSE l1[j + (i + 1) - (i + 2)]
  <2>1. i \in 0 .. Len(l1) /\ i + 1 \in i + 1 .. Len(l1) + 1
    BY <1>1, <1>6
  <2>2. l2 = Splice(l1, i, Rest(l[i], size), i + 1)
    BY <1>8, Zenon DEF Splice
  <2>3. IsSplice(BlockType, l2, l1, i, Rest(l[i], size), i + 1)
    BY <1>2, <1>6, <2>1, <2>2, Spliced
  <2>. QED  BY <1>6, <2>3 DEF IsSplice
<1>10. Len(l2) = n + 1
  BY <1>1, <1>9
<1>11. ASSUME NEW j \in 1 .. n + 1
       PROVE  l2[j] = IF j < i THEN l[j] ELSE IF j = i THEN e1
                      ELSE IF j = i + 1 THEN Rest(l[i], size) ELSE l[j - 1]
  <2>1. j + (i + 1) - (i + 2) = j - 1
    BY <1>1
  <2>2. l2[j] = IF j <= i THEN l1[j] ELSE IF j = i + 1 THEN Rest(l[i], size) ELSE l1[j - 1]
    BY <1>9, <1>10, <2>1
  <2>3. CASE j <= i
    <3>1. j \in 1 .. n
      BY <1>1, <2>3
    <3>2. l2[j] = IF j = i THEN e1 ELSE l[j]
      BY <1>6, <2>2, <2>3, <3>1
    <3>. QED  BY <1>1, <2>3, <3>1, <3>2
  <2>4. CASE ~(j <= i)
    <3>1. ~(j < i) /\ j # i
      BY <1>1, <2>4
    <3>2. ASSUME j # i + 1  PROVE l1[j - 1] = l[j - 1]
      <4>1. j - 1 \in 1 .. n /\ j - 1 # i
        BY <1>1, <2>4, <3>2
      <4>. QED  BY <1>6, <4>1
    <3>. QED  BY <2>2, <2>4, <3>1, <3>2
  <2>. QED  BY <2>3, <2>4
<1>13. i \in 1 .. Len(l2) /\ l2[i] = e1
  <2>1. i \in 1 .. n + 1
    BY <1>1
  <2>. QED  BY <1>10, <1>11, <2>1
<1>. QED  BY <1>0, <1>2, <1>3, <1>9, <1>10, <1>11, <1>13

LEMMA TakenSplit ==
  ASSUME NEW l \in Seq(BlockType), NEW i \in 1 .. Len(l), NEW size \in Nat,
         ~(l[i].size < size + HDR + ALIGN), NEW m, m = TakenAt(l, i, size)
  PROVE  /\ m \in Seq(BlockType) /\ Len(m) = Len(l) + 1
         /\ \A j \in 1 .. Len(m) :
              m[j] = IF j < i THEN l[j]
                     ELSE IF j = i THEN UsedBlock(l[i].addr, size)
                     ELSE IF j = i + 1 THEN Rest(l[i], size) ELSE l[j - 1]
         /\ Rest(l[i], size) \in BlockType
<1>0. PICK n \in Nat : n = Len(l)
  BY LenProperties
<1>1. l[i] \in BlockType /\ i \in 1 .. n /\ i \in Nat
  BY <1>0, ElementOfSeq
<1>2. PICK l2, e1 : l2 = split(l, i, size) /\ e1 = [l[i] EXCEPT !.size = size]
  OBVIOUS
<1>3. UsedBlock(l[i].addr, size) \in BlockType
  BY <1>1, BlockFacts, UsedIs
<1>4. e1.addr = l[i].addr /\ e1.size = size
  BY <1>1, <1>2 DEF BlockType
<1>5. /\ l2 \in Seq(BlockType) /\ Len(l2) = n + 1
      /\ \A j \in 1 .. n + 1 :
           l2[j] = IF j < i THEN l[j] ELSE IF j = i THEN e1
                   ELSE IF j = i + 1 THEN Rest(l[i], size) ELSE l[j - 1]
      /\ i \in 1 .. n + 1 /\ l2[i] = e1
      /\ Rest(l[i], size) \in BlockType
  <2>1. /\ l2 \in Seq(BlockType) /\ Len(l2) = Len(l) + 1
        /\ \A j \in 1 .. Len(l2) :
             l2[j] = IF j < i THEN l[j] ELSE IF j = i THEN [l[i] EXCEPT !.size = size]
                     ELSE IF j = i + 1 THEN Rest(l[i], size) ELSE l[j - 1]
        /\ i \in 1 .. Len(l2) /\ l2[i] = [l[i] EXCEPT !.size = size]
        /\ Rest(l[i], size) \in BlockType
    <3>1. l2 = split(l, i, size)
      BY <1>2
    <3>. QED  BY <3>1, SplitIs
  <2>2. Len(l2) = n + 1
    BY <1>0, <2>1
  <2>. QED  BY <1>2, <2>1, <2>2, Zenon
<1>14. m = [l2 EXCEPT ![i] = UsedBlock(l[i].addr, size)]
  <2>1. InUse(l2[i]) = UsedBlock(l[i].addr, size)
    BY <1>4, <1>5 DEF InUse
  <2>2. m = [l2 EXCEPT ![i] = InUse(@)]
    BY <1>2 DEF TakenAt
  <2>. QED  BY <2>1, <2>2
<1>15. /\ m \in Seq(BlockType) /\ Len(m) = n + 1
       /\ \A j \in 1 .. n + 1 : m[j] = IF j = i THEN UsedBlock(l[i].addr, size) ELSE l2[j]
  <2>1. PICK e \in BlockType : e = UsedBlock(l[i].addr, size)
    BY <1>3
  <2>2. m = [l2 EXCEPT ![i] = e]
    BY <1>14, <2>1
  <2>3. /\ m \in Seq(BlockType) /\ Len(m) = Len(l2)
        /\ \A j \in 1 .. Len(l2) : m[j] = IF j = i THEN e ELSE l2[j]
    BY <1>5, <2>2, ExceptSeq
  <2>. QED  BY <1>5, <2>1, <2>3
<1>16. ASSUME NEW j \in 1 .. n + 1
       PROVE  m[j] = IF j < i THEN l[j] ELSE IF j = i THEN UsedBlock(l[i].addr, size)
                     ELSE IF j = i + 1 THEN Rest(l[i], size) ELSE l[j - 1]
  <2>1. CASE j = i
    <3>1. m[j] = UsedBlock(l[i].addr, size)
      BY <1>15, <2>1, Zenon
    <3>2. ~(j < i)
      BY <1>1, <2>1
    <3>. QED  BY <2>1, <3>1, <3>2, Zenon
  <2>2. CASE j # i
    <3>1. m[j] = l2[j]
      BY <1>15, <2>2
    <3>. QED  BY <1>5, <2>2, <3>1, Zenon
  <2>. QED  BY <2>1, <2>2
<1>. QED  BY <1>0, <1>5, <1>15, <1>16

\* What a list that is laid out says of its blocks; no two start at one address.
LEMMA LaidFacts ==
  ASSUME NEW l, NEW b, NEW g, Laid(l, b, g)
  PROVE  /\ l \in Seq(BlockType) /\ Len(l) \in Nat /\ b \in 0 .. BreakLimit /\ b \in Nat
         /\ \A j \in 1 .. Len(l) : /\ l[j] \in BlockType /\ l[j].addr \in Nat /\ l[j].size \in Nat
                                   /\ End(l[j]) \in Nat /\ End(l[j]) = l[j].addr + HDR + l[j].size
         /\ \A j, k \in 1 .. Len(l) : j # k => l[j].addr # l[k].addr
<1>1. l \in Seq(BlockType) /\ Len(l) \in Nat /\ b \in 0 .. BreakLimit /\ b \in Nat
  BY LenProperties, BlockFacts DEF Laid
<1>2. ASSUME NEW j \in 1 .. Len(l)
      PROVE  /\ l[j] \in BlockType /\ l[j].addr \in Nat /\ l[j].size \in Nat
             /\ End(l[j]) \in Nat /\ End(l[j]) = l[j].addr + HDR + l[j].size
  <2>1. l[j] \in BlockType
    BY <1>1, ElementOfSeq
  <2>. QED  BY <2>1, BlockFacts
<1>3. ASSUME NEW j \in 1 .. Len(l), NEW k \in 1 .. Len(l), j < k  PROVE l[j].addr # l[k].addr
  <2>1. End(l[j]) <= l[k].addr
    BY <1>3 DEF Laid, Ordered
  <2>2. l[j].addr \in Nat /\ l[j].size \in Nat /\ End(l[j]) = l[j].addr + HDR + l[j].size /\ l[k].addr \in Nat
    BY <1>2
  <2>3. PICK x \in Nat, y \in Nat, z \in Nat : x = l[j].addr /\ y = l[j].size /\ z = l[k].addr
    BY <2>2
  <2>4. x + HDR + y <= z
    BY <2>1, <2>2, <2>3
  <2>5. x # z
    BY <2>3, <2>4, Sizes
  <2>. QED  BY <2>3, <2>5
<1>4. ASSUME NEW j \in 1 .. Len(l), NEW k \in 1 .. Len(l), j # k  PROVE l[j].addr # l[k].addr
  <2>1. j < k \/ k < j
    BY <1>1, <1>4
  <2>. QED  BY <1>3, <2>1
<1>. QED  BY <1>1, <1>2, <1>4

\* Where each block of the new list comes from: it lies inside that block, and two
\* blocks that come from one lie behind each other.
CutFrom(l, m, i, src) ==
  /\ src[i] = i
  /\ \A j \in 1 .. Len(m) :
       /\ l[src[j]].addr <= m[j].addr /\ End(m[j]) <= End(l[src[j]])
       /\ src[j] # i => m[j] = l[src[j]]
       /\ src[j] = i /\ j # i => m[j].free
  /\ \A j, k \in 1 .. Len(m) :
       j < k => src[j] < src[k] \/ (src[j] = src[k] /\ End(m[j]) <= m[k].addr)
  /\ \A h \in 1 .. Len(l) \ {i} : \E j \in 1 .. Len(m) : src[j] = h
  /\ \A x \in Words(l[i]) : \E j \in 1 .. Len(m) : x \in Words(m[j])

LEMMA TakenParts ==
  ASSUME NEW l, NEW b, NEW g, Laid(l, b, g), NEW i \in 1 .. Len(l), NEW size \in Nat, size <= l[i].size,
         NEW m, m = TakenAt(l, i, size)
  PROVE  /\ m \in Seq(BlockType) /\ i \in 1 .. Len(m) /\ Len(m) \in Nat
         /\ m[i].addr = l[i].addr /\ size <= m[i].size /\ ~m[i].free
         /\ \E src \in [1 .. Len(m) -> 1 .. Len(l)] : CutFrom(l, m, i, src)
<1>0. PICK n \in Nat : n = Len(l)
  BY LaidFacts
<1>1. l \in Seq(BlockType) /\ i \in 1 .. n /\ i \in Nat
  BY <1>0, LaidFacts
<1>2. PICK a \in Nat, z \in Nat : a = l[i].addr /\ z = l[i].size /\ End(l[i]) = a + HDR + z /\ size <= z
  BY LaidFacts
<1>3. HDR \in Nat \ {0} /\ ALIGN \in Nat \ {0}
  BY Sizes
<1>4. \A j \in 1 .. n : l[j].addr \in Nat /\ End(l[j]) \in Nat
  BY <1>0, LaidFacts
<1>5. CASE z < size + HDR + ALIGN
  <2>1. /\ m \in Seq(BlockType) /\ Len(m) = n
        /\ \A j \in 1 .. n : m[j] = IF j = i THEN UsedBlock(a, z) ELSE l[j]
    <3>1. /\ m \in Seq(BlockType) /\ Len(m) = Len(l)
          /\ \A j \in 1 .. Len(l) : m[j] = IF j = i THEN UsedBlock(l[i].addr, l[i].size) ELSE l[j]
      <4>1. l[i].size < size + HDR + ALIGN
        BY <1>2, <1>5
      <4>2. l \in Seq(BlockType) /\ i \in 1 .. Len(l) /\ size \in Nat /\ m = TakenAt(l, i, size)
        BY <1>1
      <4>. QED  BY <4>1, <4>2, TakenWhole
    <3>. QED  BY <1>0, <1>2, <3>1
  <2>2. m[i] = UsedBlock(a, z)
    BY <1>1, <2>1
  <2>3. m[i].addr = a /\ m[i].size = z /\ ~m[i].free /\ End(m[i]) = a + HDR + z
    <3>1. ~m[i].free
      BY <2>2 DEF UsedBlock
    <3>2. m[i].addr = a /\ m[i].size = z /\ End(m[i]) = a + HDR + z
      <4>1. UsedBlock(a, z).addr = a /\ UsedBlock(a, z).size = z /\ End(UsedBlock(a, z)) = a + HDR + z
        BY UsedIs
      <4>. QED  BY <2>2, <4>1, Zenon
    <3>. QED  BY <3>1, <3>2
  <2>. DEFINE src == [j \in 1 .. n |-> j]
  <2>4. src \in [1 .. n -> 1 .. n] /\ src[i] = i
    BY <1>1
  <2>5. ASSUME NEW j \in 1 .. n
        PROVE  /\ l[src[j]].addr <= m[j].addr /\ End(m[j]) <= End(l[src[j]])
               /\ src[j] # i => m[j] = l[src[j]]
               /\ src[j] = i /\ j # i => m[j].free
    <3>1. CASE j = i
      BY <1>2, <1>3, <2>3, <3>1
    <3>2. CASE j # i
      <4>1. src[j] = j /\ m[j] = l[j]
        BY <2>1, <3>2
      <4>. QED  BY <1>4, <3>2, <4>1
    <3>. QED  BY <3>1, <3>2
  <2>6. \A j, k \in 1 .. n : j < k => src[j] < src[k]
    OBVIOUS
  <2>7. \A h \in 1 .. n \ {i} : \E j \in 1 .. n : src[j] = h
    OBVIOUS
  <2>8. \A x \in Words(l[i]) : x \in Words(m[i])
    BY <1>2, <2>3 DEF Words
  <2>. HIDE DEF src
  <2>9. CutFrom(l, m, i, src)
    BY <1>0, <1>1, <2>1, <2>4, <2>5, <2>6, <2>7, <2>8 DEF CutFrom
  <2>10. size <= m[i].size /\ m[i].addr = l[i].addr
    BY <1>2, <2>3
  <2>11. n = Len(m) /\ i \in 1 .. Len(m) /\ Len(m) \in Nat
    BY <1>1, <2>1
  <2>. QED  BY <1>0, <1>2, <2>1, <2>3, <2>4, <2>9, <2>10, <2>11
<1>6. CASE ~(z < size + HDR + ALIGN)
  <2>0. PICK w \in Nat : w = n + 1
    OBVIOUS
  <2>1. /\ m \in Seq(BlockType) /\ Len(m) = w
        /\ \A j \in 1 .. w : m[j] = IF j < i THEN l[j] ELSE IF j = i THEN UsedBlock(a, size)
                                    ELSE IF j = i + 1 THEN Rest(l[i], size) ELSE l[j - 1]
        /\ Rest(l[i], size) \in BlockType
    <3>1. /\ m \in Seq(BlockType) /\ Len(m) = Len(l) + 1
          /\ \A j \in 1 .. Len(m) :
              m[j] = IF j < i THEN l[j]
                     ELSE IF j = i THEN UsedBlock(l[i].addr, size)
                     ELSE IF j = i + 1 THEN Rest(l[i], size) ELSE l[j - 1]
          /\ Rest(l[i], size) \in BlockType
      <4>1. ~(l[i].size < size + HDR + ALIGN)
        BY <1>2, <1>6
      <4>. QED  BY <1>1, <1>2, <1>3, <4>1, TakenSplit
    <3>. QED  BY <1>0, <1>2, <2>0, <3>1
  <2>2. i \in 1 .. w /\ i + 1 \in 1 .. w
    BY <1>1, <2>0
  <2>3. m[i] = UsedBlock(a, size) /\ m[i + 1] = Rest(l[i], size)
    <3>1. ~(i < i) /\ ~(i + 1 < i) /\ i + 1 # i
      BY <1>1
    <3>. QED  BY <2>1, <2>2, <3>1
  <2>4. m[i].addr = a /\ m[i].size = size /\ ~m[i].free /\ End(m[i]) = a + HDR + size
    <3>1. ~m[i].free
      BY <2>3 DEF UsedBlock
    <3>2. m[i].addr = a /\ m[i].size = size /\ End(m[i]) = a + HDR + size
      <4>1. UsedBlock(a, size).addr = a /\ UsedBlock(a, size).size = size /\ End(UsedBlock(a, size)) = a + HDR + size
        BY UsedIs
      <4>. QED  BY <2>3, <4>1, Zenon
    <3>. QED  BY <3>1, <3>2
  <2>5. m[i + 1].addr = a + HDR + size /\ m[i + 1].free /\ End(m[i + 1]) = a + HDR + z
    <3>1. PICK c \in Nat, d \in Nat : c = a + HDR + size /\ d = z - size - HDR
      BY <1>3, <1>6
    <3>2. m[i + 1] = FreeBlock(c, d)
      BY <1>2, <2>3, <3>1 DEF Rest
    <3>3. m[i + 1].addr = c /\ m[i + 1].size = d
      <4>1. FreeBlock(c, d).addr = c /\ FreeBlock(c, d).size = d
        BY FreeIs
      <4>. QED  BY <3>2, <4>1, Zenon
    <3>6. m[i + 1].free
      BY <3>2 DEF FreeBlock
    <3>4. End(m[i + 1]) = c + HDR + d
      BY <1>3, <3>2, FreeIs
    <3>5. c + HDR + d = a + HDR + z
      BY <1>3, <3>1
    <3>. QED  BY <3>1, <3>3, <3>4, <3>5, <3>6
  <2>. DEFINE src == [j \in 1 .. w |-> IF j <= i THEN j ELSE j - 1]
  <2>6. src \in [1 .. w -> 1 .. n] /\ src[i] = i
    BY <1>1, <2>0, <2>2
  <2>7. ASSUME NEW j \in 1 .. w
        PROVE  /\ l[src[j]].addr <= m[j].addr /\ End(m[j]) <= End(l[src[j]])
               /\ src[j] # i => m[j] = l[src[j]]
               /\ src[j] = i /\ j # i => m[j].free /\ j = i + 1
    <3>1. CASE j = i
      <4>1. src[j] = i
        BY <2>6, <3>1
      <4>2. a + HDR + size <= a + HDR + z
        BY <1>2, <1>3
      <4>. QED  BY <1>2, <2>4, <3>1, <4>1, <4>2
    <3>2. CASE j = i + 1
      <4>1. src[j] = i
        BY <1>1, <3>2
      <4>2. a <= a + HDR + size /\ a + HDR + z <= a + HDR + z
        BY <1>2, <1>3
      <4>. QED  BY <1>2, <2>5, <3>2, <4>1, <4>2
    <3>3. CASE j < i
      <4>1. src[j] = j /\ m[j] = l[j] /\ j # i /\ j \in 1 .. n
        <5>1. j \in 1 .. n /\ j # i /\ j <= i
          BY <1>1, <3>3
        <5>. QED  BY <2>1, <3>3, <5>1
      <4>. QED  BY <1>4, <4>1
    <3>4. CASE j > i + 1
      <4>1. src[j] = j - 1 /\ j - 1 # i /\ j - 1 \in 1 .. n /\ ~(j < i) /\ j # i /\ j # i + 1
        BY <1>1, <2>0, <3>4
      <4>2. m[j] = l[j - 1]
        BY <2>1, <4>1
      <4>. QED  BY <1>4, <4>1, <4>2
    <3>5. j = i \/ j = i + 1 \/ j < i \/ j > i + 1
      BY <1>1
    <3>. QED  BY <3>1, <3>2, <3>3, <3>4, <3>5
  <2>8. ASSUME NEW j \in 1 .. w, NEW k \in 1 .. w, j < k
        PROVE  src[j] < src[k] \/ (src[j] = src[k] /\ End(m[j]) <= m[k].addr)
    <3>1. CASE j = i /\ k = i + 1
      <4>1. src[j] = i /\ src[k] = i
        BY <1>1, <2>6, <3>1
      <4>2. End(m[j]) = a + HDR + size /\ m[k].addr = a + HDR + size /\ a + HDR + size \in Int
        BY <1>2, <1>3, <2>4, <2>5, <3>1
      <4>3. a + HDR + size <= a + HDR + size
        BY <4>2
      <4>. QED  BY <4>1, <4>2, <4>3
    <3>2. CASE ~(j = i /\ k = i + 1)
      BY <1>1, <2>8, <3>2
    <3>. QED  BY <3>1, <3>2
  <2>9. ASSUME NEW h \in 1 .. n \ {i}  PROVE \E j \in 1 .. w : src[j] = h
    <3>1. CASE h < i
      <4>1. h \in 1 .. w /\ src[h] = h
        BY <1>1, <2>0, <3>1
      <4>. QED  BY <4>1
    <3>2. CASE ~(h < i)
      <4>1. h + 1 \in 1 .. w /\ src[h + 1] = h
        BY <1>1, <2>0, <3>2
      <4>. QED  BY <4>1
    <3>. QED  BY <3>1, <3>2
  <2>10. ASSUME NEW x \in Words(l[i])  PROVE \E j \in 1 .. w : x \in Words(m[j])
    <3>1. x \in a .. a + HDR + z - 1
      <4>1. Words(l[i]) = l[i].addr .. End(l[i]) - 1
        BY Zenon DEF Words
      <4>. QED  BY <1>2, <1>3, <4>1
    <3>2. CASE x < a + HDR + size
      <4>1. x \in a .. a + HDR + size - 1
        BY <1>2, <1>3, <3>1, <3>2
      <4>2. Words(m[i]) = m[i].addr .. End(m[i]) - 1
        BY Zenon DEF Words
      <4>3. x \in Words(m[i])
        BY <1>3, <2>4, <4>1, <4>2
      <4>. QED  BY <2>2, <4>3
    <3>3. CASE ~(x < a + HDR + size)
      <4>1. x \in a + HDR + size .. a + HDR + z - 1
        BY <1>2, <1>3, <3>1, <3>3
      <4>2. Words(m[i + 1]) = m[i + 1].addr .. End(m[i + 1]) - 1
        BY Zenon DEF Words
      <4>3. x \in Words(m[i + 1])
        BY <1>3, <2>5, <4>1, <4>2
      <4>. QED  BY <2>2, <4>3
    <3>. QED  BY <3>2, <3>3
  <2>. HIDE DEF src
  <2>11. size <= m[i].size /\ m[i].addr = l[i].addr
    BY <1>2, <2>4
  <2>12. CutFrom(l, m, i, src)
    BY <1>0, <2>1, <2>6, <2>7, <2>8, <2>9, <2>10 DEF CutFrom
  <2>. QED  BY <1>0, <1>1, <2>0, <2>1, <2>2, <2>4, <2>6, <2>11, <2>12
<1>. QED  BY <1>2, <1>5, <1>6

\* The block that malloc takes: the list stays laid out over the same words, and
\* the program holds one pointer more, one it did not hold.
LEMMA Taken ==
  ASSUME NEW l, NEW b, NEW g, Laid(l, b, g), NEW i \in 1 .. Len(l), NEW size \in Nat, size <= l[i].size,
         NEW m, m = TakenAt(l, i, size), NEW v, HoldsBut(l, v, i), NEW asked \in 0 .. size,
         NEW p, p = l[i].addr + HDR
  PROVE  /\ Good(m, b, g, With(v, p, asked)) /\ p \notin DOMAIN v
         /\ i \in 1 .. Len(m) /\ m[i].addr = l[i].addr
<1>0. PICK n \in Nat : n = Len(l)
  BY LaidFacts
<1>1. /\ m \in Seq(BlockType) /\ i \in 1 .. Len(m) /\ Len(m) \in Nat
      /\ m[i].addr = l[i].addr /\ size <= m[i].size /\ ~m[i].free
      /\ \E src \in [1 .. Len(m) -> 1 .. Len(l)] : CutFrom(l, m, i, src)
  BY TakenParts
<1>2. PICK w \in Nat : w = Len(m)
  BY <1>1
<1>3. PICK src \in [1 .. w -> 1 .. n] : CutFrom(l, m, i, src)
  BY <1>0, <1>1, <1>2
<1>4. \A j \in 1 .. n : l[j].addr \in Nat /\ End(l[j]) \in Nat
  BY <1>0, LaidFacts
<1>5. ASSUME NEW j \in 1 .. w
      PROVE  /\ m[j] \in BlockType /\ m[j].addr \in Nat /\ m[j].size \in Nat /\ End(m[j]) \in Nat /\ src[j] \in 1 .. n
             /\ l[src[j]].addr <= m[j].addr /\ End(m[j]) <= End(l[src[j]])
  <2>1. m[j] \in BlockType
    BY <1>1, <1>2, ElementOfSeq
  <2>2. src[j] \in 1 .. n
    BY <1>3
  <2>3. l[src[j]].addr <= m[j].addr /\ End(m[j]) <= End(l[src[j]])
    BY <1>2, <1>3 DEF CutFrom
  <2>. QED  BY <2>1, <2>2, <2>3, BlockFacts
<1>6. ASSUME NEW j \in 1 .. w, NEW k \in 1 .. w, j < k  PROVE End(m[j]) <= m[k].addr
  <2>1. src[j] < src[k] \/ (src[j] = src[k] /\ End(m[j]) <= m[k].addr)
    BY <1>2, <1>3, <1>6 DEF CutFrom
  <2>2. CASE src[j] < src[k]
    <3>1. End(l[src[j]]) <= l[src[k]].addr
      BY <1>0, <1>5, <2>2 DEF Laid, Ordered
    <3>2. /\ End(m[j]) <= End(l[src[j]]) /\ l[src[k]].addr <= m[k].addr
          /\ End(m[j]) \in Nat /\ m[k].addr \in Nat /\ src[j] \in 1 .. n /\ src[k] \in 1 .. n
      BY <1>5
    <3>3. End(l[src[j]]) \in Nat /\ l[src[k]].addr \in Nat
      BY <1>4, <3>2
    <3>4. \A x, y, z, u \in Nat : x <= y /\ y <= z /\ z <= u => x <= u
      OBVIOUS
    <3>. QED  BY <3>1, <3>2, <3>3, <3>4, Zenon
  <2>. QED  BY <2>1, <2>2
<1>7. ASSUME NEW j \in 1 .. w  PROVE End(m[j]) <= b
  <2>1. End(l[src[j]]) <= b /\ End(l[src[j]]) \in Nat
    BY <1>0, <1>4, <1>5 DEF Laid, Below
  <2>2. b \in Nat /\ End(m[j]) \in Nat /\ End(m[j]) <= End(l[src[j]])
    BY <1>5, LaidFacts
  <2>. QED  BY <2>1, <2>2
<1>8. ASSUME NEW j \in 1 .. w  PROVE Words(m[j]) \subseteq g
  <2>1. Words(l[src[j]]) \subseteq g
    BY <1>0, <1>5 DEF Laid, Covers
  <2>2. /\ Words(m[j]) = m[j].addr .. End(m[j]) - 1
        /\ Words(l[src[j]]) = l[src[j]].addr .. End(l[src[j]]) - 1
    BY Zenon DEF Words
  <2>3. PICK x1 \in Nat, y1 \in Nat, x2 \in Nat, y2 \in Nat :
           x1 = m[j].addr /\ y1 = End(m[j]) /\ x2 = l[src[j]].addr /\ y2 = End(l[src[j]])
    BY <1>4, <1>5
  <2>4. x2 <= x1 /\ y1 <= y2
    BY <1>5, <2>3
  <2>5. ASSUME NEW x \in x1 .. y1 - 1  PROVE x \in x2 .. y2 - 1
    BY <2>4
  <2>. QED  BY <2>1, <2>2, <2>3, <2>5
<1>9. ASSUME NEW h \in 1 .. n, h # i  PROVE \E j \in 1 .. w : m[j] = l[h] /\ j # i
  <2>1. PICK j \in 1 .. w : src[j] = h
    BY <1>0, <1>2, <1>3, <1>9 DEF CutFrom
  <2>2. m[j] = l[h] /\ src[i] = i
    BY <1>2, <1>3, <1>9, <2>1 DEF CutFrom
  <2>. QED  BY <1>9, <2>1, <2>2
<1>10. ASSUME NEW x \in g  PROVE \E j \in 1 .. w : x \in Words(m[j])
  <2>1. PICK h \in 1 .. n : x \in Words(l[h])
    BY <1>0 DEF Laid, Covers
  <2>2. CASE h = i
    BY <1>2, <1>3, <2>1, <2>2 DEF CutFrom
  <2>3. CASE h # i
    BY <1>9, <2>1, <2>3
  <2>. QED  BY <2>2, <2>3
<1>11. Laid(m, b, g)
  <2>1. Ordered(m) /\ Below(m, b) /\ Covers(m, g)
    BY <1>2, <1>6, <1>7, <1>8, <1>10 DEF Ordered, Below, Covers
  <2>. QED  BY <1>1, <2>1, LaidFacts DEF Laid
<1>12. ASSUME NEW h \in 1 .. n, h # i  PROVE l[h].addr + HDR # p
  <2>1. l[h].addr # l[i].addr /\ l[h].addr \in Nat /\ l[i].addr \in Nat
    BY <1>0, <1>12, LaidFacts
  <2>2. PICK x \in Nat, y \in Nat : x = l[h].addr /\ y = l[i].addr
    BY <2>1
  <2>3. x + HDR # y + HDR
    BY <2>1, <2>2, Sizes
  <2>. QED  BY <2>2, <2>3
<1>13. p \notin DOMAIN v
  BY <1>0, <1>12 DEF HoldsBut
<1>14. PICK u : u = With(v, p, asked)
  OBVIOUS
<1>15. DOMAIN u = DOMAIN v \cup {p} /\ u[p] = asked /\ \A q \in DOMAIN v : q # p => u[q] = v[q]
  <2>1. /\ DOMAIN With(v, p, asked) = DOMAIN v \cup {p} /\ With(v, p, asked)[p] = asked
        /\ \A q \in DOMAIN v : q # p => With(v, p, asked)[q] = v[q]
    BY DEF With
  <2>. QED  BY <1>14, <2>1, Zenon
<1>16. ASSUME NEW j \in 1 .. w, ~m[j].free
       PROVE  m[j].addr + HDR \in DOMAIN u /\ u[m[j].addr + HDR] \in 0 .. m[j].size
  <2>1. CASE j = i
    <3>1. m[j].addr + HDR = p
      BY <1>1, <2>1
    <3>2. asked \in 0 .. m[j].size
      <4>1. size <= m[j].size /\ m[j].size \in Nat
        BY <1>1, <1>5, <2>1
      <4>. QED  BY <4>1
    <3>. QED  BY <1>15, <3>1, <3>2
  <2>2. CASE j # i
    <3>1. src[j] # i
      BY <1>2, <1>3, <1>16, <2>2 DEF CutFrom
    <3>2. PICK h \in 1 .. n : h = src[j] /\ h # i /\ m[j] = l[h]
      BY <1>2, <1>3, <1>5, <3>1 DEF CutFrom
    <3>3. ~l[h].free
      BY <1>16, <3>2, Zenon
    <3>4. l[h].addr + HDR \in DOMAIN v /\ v[l[h].addr + HDR] \in 0 .. l[h].size
      <4>1. h \in 1 .. Len(l) \ {i}
        BY <1>0, <3>2
      <4>. QED  BY <3>3, <4>1, Zenon DEF HoldsBut
    <3>5. l[h].addr + HDR # p
      BY <1>12, <3>2
    <3>6. u[l[h].addr + HDR] = v[l[h].addr + HDR] /\ l[h].addr + HDR \in DOMAIN u
      BY <1>15, <3>4, <3>5, Zenon
    <3>. QED  BY <3>2, <3>4, <3>6, Zenon
  <2>. QED  BY <2>1, <2>2
<1>17. ASSUME NEW q \in DOMAIN u  PROVE \E j \in 1 .. w : ~m[j].free /\ m[j].addr + HDR = q
  <2>1. CASE q = p
    BY <1>1, <1>2, <2>1
  <2>2. CASE q # p
    <3>1. q \in DOMAIN v
      BY <1>15, <2>2
    <3>2. PICK h \in 1 .. Len(l) \ {i} : ~l[h].free /\ l[h].addr + HDR = q
      BY <3>1, Zenon DEF HoldsBut
    <3>3. h \in 1 .. n /\ h # i
      BY <1>0, <3>2
    <3>4. PICK j \in 1 .. w : m[j] = l[h]
      BY <1>9, <3>3
    <3>. QED  BY <3>2, <3>4, Zenon
  <2>. QED  BY <2>1, <2>2
<1>18. 1 .. Len(m) \ {0} = 1 .. w
  BY <1>2
<1>19. HoldsBut(m, u, 0)
  BY <1>16, <1>17, <1>18, Zenon DEF HoldsBut
<1>. QED  BY <1>1, <1>11, <1>13, <1>14, <1>19, Zenon DEF Good

-----------------------------------------------------------------------------
\* Rounding up to a multiple of "to", where size_t does not wrap.
LEMMA RoundsUp ==
  ASSUME NEW n \in Nat, NEW to \in Nat \ {0}, n + to <= SizeMax
  PROVE  RoundUp(n, to) \in Nat /\ n <= RoundUp(n, to) /\ RoundUp(n, to) <= n + to
<1>1. PICK a \in Nat : a = n + to - 1
  OBVIOUS
<1>2. PICK q \in Nat, r \in 0 .. to - 1 : a \div to = q /\ a = to * q + r
  BY DivMod
<1>3. PICK k \in Nat : k = q * to /\ k = a - r
  BY <1>2
<1>4. n <= k /\ k <= n + to /\ k < SizeMax + 1 /\ SizeMax + 1 \in Nat \ {0}
  BY <1>1, <1>3, Sizes
<1>5. k % (SizeMax + 1) = k
  BY <1>4
<1>6. RoundUp(n, to) = k
  BY <1>1, <1>2, <1>3, <1>5 DEF RoundUp
<1>. QED  BY <1>4, <1>6

\* The sizes that malloc and grow compute of an ordinary request.
LEMMA Rounded ==
  ASSUME NEW n \in Nat, Ordinary(n), NEW size, size = RoundUp(n, ALIGN)
  PROVE  size \in Nat /\ n <= size /\ Need(size) \in Nat /\ size + HDR <= Need(size)
<1>1. n + ALIGN <= SizeMax /\ n + ALIGN + HDR + PAGE <= SizeMax
  BY Sizes DEF Ordinary
<1>2. size \in Nat /\ n <= size /\ size <= n + ALIGN
  BY <1>1, RoundsUp, Sizes
<1>3. PICK k \in Nat : k = size + HDR /\ k + PAGE <= SizeMax
  BY <1>1, <1>2, Sizes
<1>4. RoundUp(k, PAGE) \in Nat /\ k <= RoundUp(k, PAGE)
  BY <1>3, RoundsUp, Sizes
<1>. QED  BY <1>2, <1>3, <1>4 DEF Need

\* A list that lies below a break lies below a higher one.
LEMMA LaidUp ==
  ASSUME NEW l, NEW b, NEW g, Laid(l, b, g), NEW c \in b .. BreakLimit
  PROVE  Laid(l, c, g)
<1>1. b \in Nat /\ c \in 0 .. BreakLimit /\ b <= c /\ c \in Nat
  BY LaidFacts, Sizes
<1>2. ASSUME NEW j \in 1 .. Len(l)  PROVE End(l[j]) <= c
  <2>1. End(l[j]) <= b /\ End(l[j]) \in Nat
    BY LaidFacts DEF Laid, Below
  <2>. QED  BY <1>1, <2>1
<1>. QED  BY <1>1, <1>2 DEF Laid, Below

\* grow: a block of k words appended at the break.
GrownBy(l, b, k) == Append(l, UsedBlock(b, k - HDR))

Grew(m, l, b, g, v, k) ==
  /\ Laid(m, b + k, g \cup (b .. b + k - 1)) /\ HoldsBut(m, v, Len(l) + 1)
  /\ Len(m) = Len(l) + 1 /\ m[Len(l) + 1] = UsedBlock(b, k - HDR)

LEMMA Grown ==
  ASSUME NEW l, NEW b, NEW g, NEW v, Good(l, b, g, v), NEW k \in Nat, HDR <= k, b + k <= BreakLimit
  PROVE  Grew(GrownBy(l, b, k), l, b, g, v, k)
<1>22. PICK m, i : m = GrownBy(l, b, k) /\ i = Len(l) + 1
  OBVIOUS
<1>21. Laid(l, b, g) /\ HoldsBut(l, v, 0)
  BY DEF Good
<1>0. PICK n \in Nat : n = Len(l) /\ i = n + 1
  BY <1>21, <1>22, LaidFacts
<1>1. l \in Seq(BlockType) /\ b \in Nat /\ HDR \in Nat /\ BreakLimit \in Nat
  BY <1>21, LaidFacts, Sizes
<1>2. PICK c \in Nat : c = k - HDR
  BY <1>1
<1>3. PICK e \in BlockType : e = UsedBlock(b, c) /\ e.addr = b /\ End(e) = b + HDR + c
  BY <1>1, UsedIs
<1>4. End(e) = b + k
  BY <1>1, <1>2, <1>3
<1>5. m = Append(l, e)
  BY <1>2, <1>3, <1>22 DEF GrownBy
<1>6. m \in Seq(BlockType) /\ Len(m) = n + 1 /\ (\A j \in 1 .. n : m[j] = l[j]) /\ m[n + 1] = e
  BY <1>0, <1>1, <1>5, AppendProperties
<1>20. \A j \in 1 .. n + 1 : j \in 1 .. n \/ j = n + 1
  BY <1>0
<1>7. \A j \in 1 .. n : End(l[j]) \in Nat /\ End(l[j]) <= b
  BY <1>21, <1>0, LaidFacts DEF Laid, Below
<1>8. ASSUME NEW j \in 1 .. n + 1, NEW h \in 1 .. n + 1, j < h  PROVE End(m[j]) <= m[h].addr
  <2>1. j \in 1 .. n /\ m[j] = l[j]
    BY <1>6, <1>8
  <2>2. CASE h \in 1 .. n
    <3>1. m[h] = l[h]
      BY <1>6, <2>2
    <3>2. End(l[j]) <= l[h].addr
      BY <1>21, <1>0, <1>8, <2>1, <2>2 DEF Laid, Ordered
    <3>. QED  BY <2>1, <3>1, <3>2, Zenon
  <2>3. CASE h = n + 1
    <3>1. m[h] = e /\ End(l[j]) <= b
      BY <1>6, <1>7, <2>1, <2>3
    <3>. QED  BY <1>3, <2>1, <3>1, Zenon
  <2>. QED  BY <1>20, <2>2, <2>3, Zenon
<1>9. ASSUME NEW j \in 1 .. n + 1  PROVE End(m[j]) <= b + k
  <2>1. CASE j \in 1 .. n
    <3>1. m[j] = l[j] /\ End(l[j]) \in Nat /\ End(l[j]) <= b
      BY <1>6, <1>7, <2>1
    <3>2. End(l[j]) <= b + k
      BY <1>1, <3>1
    <3>. QED  BY <3>1, <3>2, Zenon
  <2>2. CASE j = n + 1
    <3>1. m[j] = e
      BY <1>6, <2>2
    <3>2. b + k <= b + k
      BY <1>1
    <3>. QED  BY <1>4, <3>1, <3>2, Zenon
  <2>. QED  BY <1>20, <2>1, <2>2, Zenon
<1>10. PICK gg : gg = g \cup (b .. b + k - 1)
  OBVIOUS
<1>11. Words(e) = b .. b + k - 1
  <2>1. Words(e) = e.addr .. End(e) - 1
    BY DEF Words
  <2>2. e.addr = b
    BY <1>3
  <2>3. End(e) - 1 = b + k - 1
    BY <1>1, <1>4
  <2>4. e.addr .. End(e) - 1 = b .. b + k - 1
    BY <2>2, <2>3
  <2>. QED  BY <2>1, <2>4
<1>12. ASSUME NEW j \in 1 .. n + 1  PROVE Words(m[j]) \subseteq gg
  <2>1. CASE j \in 1 .. n
    <3>1. m[j] = l[j] /\ Words(l[j]) \subseteq g
      BY <1>21, <1>0, <1>6, <2>1 DEF Laid, Covers
    <3>. QED  BY <1>10, <3>1
  <2>2. CASE j = n + 1
    BY <1>6, <1>10, <1>11, <2>2
  <2>. QED  BY <1>20, <2>1, <2>2, Zenon
<1>13. ASSUME NEW x \in gg  PROVE \E j \in 1 .. n + 1 : x \in Words(m[j])
  <2>1. CASE x \in g
    <3>1. PICK j \in 1 .. n : x \in Words(l[j])
      BY <1>21, <1>0, <2>1 DEF Laid, Covers
    <3>2. m[j] = l[j] /\ j \in 1 .. n + 1
      BY <1>6
    <3>. QED  BY <3>1, <3>2
  <2>2. CASE x \notin g
    <3>1. x \in Words(m[n + 1])
      BY <1>6, <1>10, <1>11, <2>2, Zenon
    <3>2. n + 1 \in 1 .. n + 1
      BY <1>0
    <3>. QED  BY <3>1, <3>2, Zenon
  <2>. QED  BY <2>1, <2>2
<1>14. b + k \in 0 .. BreakLimit
  BY <1>1
<1>15. Laid(m, b + k, gg)
  <2>1. Ordered(m)
    BY <1>6, <1>8 DEF Ordered
  <2>2. Below(m, b + k)
    BY <1>6, <1>9 DEF Below
  <2>3. Covers(m, gg)
    BY <1>6, <1>12, <1>13 DEF Covers
  <2>. QED  BY <1>6, <1>14, <2>1, <2>2, <2>3, Zenon DEF Laid
<1>16. 1 .. Len(m) \ {i} = 1 .. n /\ 1 .. Len(l) \ {0} = 1 .. n
  BY <1>0, <1>6
<1>17. ASSUME NEW j \in 1 .. n, ~m[j].free
       PROVE  m[j].addr + HDR \in DOMAIN v /\ v[m[j].addr + HDR] \in 0 .. m[j].size
  BY <1>6, <1>16, <1>21, <1>17, Zenon DEF HoldsBut
<1>18. ASSUME NEW p \in DOMAIN v  PROVE \E j \in 1 .. n : ~m[j].free /\ m[j].addr + HDR = p
  BY <1>6, <1>16, <1>21, Zenon DEF HoldsBut
<1>19. HoldsBut(m, v, i)
  BY <1>16, <1>17, <1>18, Zenon DEF HoldsBut
<1>. QED  BY <1>0, <1>2, <1>3, <1>6, <1>10, <1>15, <1>19, <1>22, Zenon DEF Grew

\* A block that grow has made is in use as it is: splitting it takes it.
LEMMA GrownTaken ==
  ASSUME NEW l \in Seq(BlockType), NEW i \in 1 .. Len(l), NEW size \in Nat,
         NEW a \in Nat, NEW z \in Nat, l[i] = UsedBlock(a, z)
  PROVE  split(l, i, size) = TakenAt(l, i, size)
<1>1. PICK m : m = split(l, i, size)
  OBVIOUS
<1>2. m \in Seq(BlockType) /\ i \in 1 .. Len(m) /\ InUse(m[i]) = m[i]
  <2>1. CASE l[i].size < size + HDR + ALIGN
    <3>1. m = l
      BY <1>1, <2>1 DEF split
    <3>2. InUse(UsedBlock(a, z)) = UsedBlock(a, z)
      BY DEF InUse, UsedBlock
    <3>. QED  BY <3>1, <3>2, Zenon
  <2>2. CASE ~(l[i].size < size + HDR + ALIGN)
    <3>1. m \in Seq(BlockType) /\ i \in 1 .. Len(m) /\ m[i] = [l[i] EXCEPT !.size = size]
      BY <1>1, <2>2, SplitIs
    <3>2. [UsedBlock(a, z) EXCEPT !.size = size] = UsedBlock(a, size)
      <4>1. \A f : [[addr |-> a, size |-> z, free |-> f] EXCEPT !.size = size]
                      = [addr |-> a, size |-> size, free |-> f]
        OBVIOUS
      <4>. QED  BY <4>1, Zenon DEF UsedBlock
    <3>3. InUse(UsedBlock(a, size)) = UsedBlock(a, size)
      BY DEF InUse, UsedBlock
    <3>. QED  BY <3>1, <3>2, <3>3, Zenon
  <2>. QED  BY <2>1, <2>2
<1>3. [m EXCEPT ![i] = InUse(@)] = [m EXCEPT ![i] = m[i]]
  BY <1>2
<1>4. [m EXCEPT ![i] = m[i]] = m
  BY <1>2
<1>. QED  BY <1>1, <1>3, <1>4 DEF TakenAt

\* What an answer r of malloc(n) is worth, on a break b, words g and pointers v.
Answered(r, b, g, v, n) ==
  /\ r.brk \in b .. BreakLimit
  /\ r.at # 0 => /\ Good(r.list, r.brk, g \cup (b .. r.brk - 1), With(v, Pointer(r), n))
                 /\ Pointer(r) \notin DOMAIN v

\* A free block may be left out of what the program holds.
LEMMA FreeLeftOut ==
  ASSUME NEW l, NEW v, HoldsBut(l, v, 0), NEW i \in 1 .. Len(l), l[i].free, Len(l) \in Nat
  PROVE  HoldsBut(l, v, i)
<1>1. 1 .. Len(l) \ {0} = 1 .. Len(l)
  OBVIOUS
<1>. QED  BY <1>1, Zenon DEF HoldsBut

\* malloc from the list, ...
LEMMA MallocFits ==
  ASSUME NEW l, NEW b, NEW g, NEW v, Good(l, b, g, v), NEW n \in Nat, Ordinary(n),
         Fits(l, RoundUp(n, ALIGN)) # {}, NEW r, r = MallocOn(l, b, n)
  PROVE  Answered(r, b, g, v, n)
<1>0. Laid(l, b, g) /\ HoldsBut(l, v, 0)
  BY DEF Good
<1>1. Len(l) \in Nat /\ DOMAIN l = 1 .. Len(l) /\ b \in Nat /\ b \in b .. BreakLimit
  BY <1>0, LaidFacts, LenProperties, Sizes
<1>2. PICK size \in Nat : size = RoundUp(n, ALIGN) /\ n <= size
  BY Rounded
<1>3. PICK S : S = Fits(l, size) /\ S # {}
  BY <1>2
<1>15. S \in SUBSET Nat
  BY <1>1, <1>3 DEF Fits
<1>4. PICK i : i = Min(S)
  OBVIOUS
<1>5. i \in S
  BY <1>3, <1>4, <1>15, MinIsLeast
<1>6. i \in 1 .. Len(l) /\ l[i].free /\ l[i].size >= size
  BY <1>1, <1>3, <1>5 DEF Fits
<1>7. r = [at |-> i, list |-> TakenAt(l, i, size), brk |-> b]
  BY <1>2, <1>3, <1>4, Zenon DEF MallocOn, TakenAt
<1>8. PICK m, p : m = TakenAt(l, i, size) /\ p = l[i].addr + HDR
  OBVIOUS
<1>9. r.at = i /\ r.list = m /\ r.brk = b
  BY <1>7, <1>8
<1>10. HoldsBut(l, v, i)
  BY <1>0, <1>1, <1>6, FreeLeftOut
<1>11. size <= l[i].size /\ n \in 0 .. size
  <2>1. l[i].size \in Nat
    BY <1>0, <1>6, LaidFacts
  <2>. QED  BY <1>2, <1>6, <2>1
<1>12. Good(m, b, g, With(v, p, n)) /\ p \notin DOMAIN v /\ m[i].addr = l[i].addr
  <2>1. i \in 1 .. Len(l)
    BY <1>6
  <2>. QED  BY <1>0, <1>8, <1>10, <1>11, <2>1, Taken
<1>13. Pointer(r) = p
  BY <1>8, <1>9, <1>12 DEF Pointer
<1>14. g \cup (b .. b - 1) = g
  BY <1>1
<1>. QED  BY <1>1, <1>9, <1>12, <1>13, <1>14, Zenon DEF Answered

\* ... from a new block, ...
LEMMA MallocGrows ==
  ASSUME NEW l, NEW b, NEW g, NEW v, Good(l, b, g, v), NEW n \in Nat, Ordinary(n),
         Fits(l, RoundUp(n, ALIGN)) = {}, CanGrow(b, RoundUp(n, ALIGN)), NEW r, r = MallocOn(l, b, n)
  PROVE  Answered(r, b, g, v, n)
<1>0. Laid(l, b, g) /\ HoldsBut(l, v, 0)
  BY DEF Good
<1>1. Len(l) \in Nat /\ b \in Nat /\ HDR \in Nat /\ BreakLimit \in Nat
  BY <1>0, LaidFacts, Sizes
<1>2. PICK size \in Nat, k \in Nat : size = RoundUp(n, ALIGN) /\ k = Need(size) /\ n <= size /\ size + HDR <= k
  BY Rounded
<1>3. b + k <= BreakLimit /\ HDR <= k
  BY <1>1, <1>2 DEF CanGrow, Granted
<1>4. PICK i \in Nat : i = Len(l) + 1
  BY <1>1
<1>5. PICK c \in Nat : c = k - HDR /\ size <= c
  BY <1>1, <1>2
<1>6. PICK l1, gg : l1 = GrownBy(l, b, k) /\ gg = g \cup (b .. b + k - 1)
  OBVIOUS
<1>7. Laid(l1, b + k, gg) /\ HoldsBut(l1, v, i) /\ Len(l1) = i /\ l1[i] = UsedBlock(b, c)
  <2>1. /\ Laid(l1, b + k, g \cup (b .. b + k - 1)) /\ HoldsBut(l1, v, i)
        /\ Len(l1) = i /\ l1[i] = UsedBlock(b, k - HDR)
    <3>1. Grew(GrownBy(l, b, k), l, b, g, v, k)
      BY <1>3, Grown
    <3>. QED  BY <1>4, <1>6, <3>1, Zenon DEF Grew
  <2>. QED  BY <1>5, <1>6, <2>1, Zenon
<1>8. l1 \in Seq(BlockType) /\ i \in 1 .. Len(l1)
  BY <1>4, <1>7, LaidFacts
<1>9. PICK m, p : m = TakenAt(l1, i, size) /\ p = l1[i].addr + HDR
  OBVIOUS
<1>10. split(l1, i, size) = m
  BY <1>1, <1>7, <1>8, <1>9, GrownTaken
<1>11. r = [at |-> i, brk |-> b + k, list |-> m]
  BY <1>2, <1>4, <1>6, <1>10, Zenon DEF MallocOn, GrownBy
<1>12. r.at = i /\ r.list = m /\ r.brk = b + k
  BY <1>11
<1>13. size <= l1[i].size /\ n \in 0 .. size
  <2>1. UsedBlock(b, c).size = c
    BY <1>1, UsedIs
  <2>. QED  BY <1>2, <1>5, <1>7, <2>1
<1>14. Good(m, b + k, gg, With(v, p, n)) /\ p \notin DOMAIN v /\ m[i].addr = l1[i].addr
  BY <1>7, <1>8, <1>9, <1>13, Taken
<1>15. Pointer(r) = p
  BY <1>9, <1>12, <1>14 DEF Pointer
<1>16. b + k \in b .. BreakLimit
  BY <1>1, <1>3
<1>17. g \cup (b .. r.brk - 1) = gg
  <2>1. r.brk - 1 = b + k - 1
    BY <1>1, <1>12
  <2>. QED  BY <1>6, <2>1, Zenon
<1>. QED  BY <1>12, <1>14, <1>15, <1>16, <1>17, Zenon DEF Answered

\* ... or not at all: sbrk may have moved the break for nothing.
LEMMA Malloced ==
  ASSUME NEW l, NEW b, NEW g, NEW v, Good(l, b, g, v), NEW n \in Nat, Ordinary(n),
         NEW r, r = MallocOn(l, b, n)
  PROVE  Answered(r, b, g, v, n) /\ (r.at = 0 => r.list = l)
<1>1. CASE Fits(l, RoundUp(n, ALIGN)) # {}
  <2>1. r.at # 0
    <3>1. PICK S : S = Fits(l, RoundUp(n, ALIGN))
      OBVIOUS
    <3>2. S \in SUBSET Nat /\ 0 \notin S
      <4>1. l \in Seq(BlockType)
        BY LaidFacts DEF Good
      <4>2. DOMAIN l = 1 .. Len(l) /\ Len(l) \in Nat
        BY <4>1, LenProperties
      <4>. QED  BY <3>1, <4>2 DEF Fits
    <3>3. Min(S) \in S
      BY <1>1, <3>1, <3>2, MinIsLeast
    <3>4. r.at = Min(S)
      BY <1>1, <3>1 DEF MallocOn
    <3>. QED  BY <3>2, <3>3, <3>4
  <2>. QED  BY <1>1, <2>1, MallocFits
<1>2. CASE Fits(l, RoundUp(n, ALIGN)) = {} /\ CanGrow(b, RoundUp(n, ALIGN))
  <2>1. r.at = Len(l) + 1
    BY <1>2 DEF MallocOn
  <2>2. Len(l) \in Nat
    BY LaidFacts DEF Good
  <2>3. r.at # 0
    BY <2>1, <2>2
  <2>. QED  BY <1>2, <2>3, MallocGrows
<1>3. CASE Fits(l, RoundUp(n, ALIGN)) = {} /\ ~CanGrow(b, RoundUp(n, ALIGN))
  <2>1. PICK size \in Nat, k \in Nat : size = RoundUp(n, ALIGN) /\ k = Need(size)
    BY Rounded
  <2>2. r = [at |-> 0, list |-> l, brk |-> IF Granted(b, k) THEN b + k ELSE b]
    BY <1>3, <2>1, Zenon DEF MallocOn
  <2>3. r.at = 0 /\ r.list = l
    BY <2>2
  <2>4. r.brk = IF Granted(b, k) THEN b + k ELSE b
    BY <2>2
  <2>5. b \in Nat /\ b <= BreakLimit /\ BreakLimit \in Nat
    <3>1. b \in 0 .. BreakLimit /\ b \in Nat
      BY LaidFacts DEF Good
    <3>. QED  BY <3>1, Sizes
  <2>6. r.brk \in b .. BreakLimit
    <3>1. CASE Granted(b, k)
      <4>1. r.brk = b + k /\ b + k <= BreakLimit
        BY <2>4, <3>1 DEF Granted
      <4>. QED  BY <2>5, <4>1
    <3>2. CASE ~Granted(b, k)
      BY <2>4, <2>5, <3>2
    <3>. QED  BY <3>1, <3>2
  <2>. QED  BY <2>3, <2>6 DEF Answered
<1>. QED  BY <1>1, <1>2, <1>3

-----------------------------------------------------------------------------
\* The block of a pointer that the program holds.
LEMMA BlockAtIs ==
  ASSUME NEW l, NEW b, NEW g, NEW v, Good(l, b, g, v), NEW p \in DOMAIN v, NEW i, i = BlockAt(l, p)
  PROVE  /\ i \in 1 .. Len(l) /\ l[i].addr + HDR = p /\ ~l[i].free /\ v[p] \in 0 .. l[i].size
         /\ \A j \in 1 .. Len(l) : j # i => l[j].addr + HDR # p
<1>0. Laid(l, b, g) /\ HoldsBut(l, v, 0)
  BY DEF Good
<1>1. Len(l) \in Nat /\ DOMAIN l = 1 .. Len(l) /\ HDR \in Nat
  BY <1>0, LaidFacts, LenProperties, Sizes
<1>2. 1 .. Len(l) \ {0} = 1 .. Len(l)
  BY <1>1
<1>3. PICK h \in 1 .. Len(l) : ~l[h].free /\ l[h].addr + HDR = p
  BY <1>0, <1>2, Zenon DEF HoldsBut
<1>4. ASSUME NEW j \in 1 .. Len(l), j # h  PROVE l[j].addr + HDR # p
  <2>1. l[j].addr # l[h].addr /\ l[j].addr \in Nat /\ l[h].addr \in Nat
    BY <1>0, <1>4, LaidFacts
  <2>2. PICK x \in Nat, y \in Nat : x = l[j].addr /\ y = l[h].addr
    BY <2>1
  <2>3. x + HDR # y + HDR
    BY <1>1, <2>1, <2>2
  <2>. QED  BY <1>3, <2>2, <2>3
<1>5. i \in 1 .. Len(l) /\ l[i].addr + HDR = p
  BY <1>1, <1>3, Zenon DEF BlockAt
<1>6. i = h
  BY <1>4, <1>5, Zenon
<1>7. v[p] \in 0 .. l[i].size
  BY <1>0, <1>2, <1>3, <1>6, Zenon DEF HoldsBut
<1>. QED  BY <1>3, <1>4, <1>5, <1>6, <1>7, Zenon

\* Blocks i to i + n of l made one free block.
Merged(l, m, i, n) ==
  /\ i \in 1 .. Len(l) /\ n \in 0 .. Len(l) - i
  /\ \A j \in i + 1 .. i + n : l[j].free /\ End(l[j - 1]) = l[j].addr
  /\ m \in Seq(BlockType) /\ Len(m) = Len(l) - n
  /\ \A j \in 1 .. i - 1 : m[j] = l[j]
  /\ \A j \in i + 1 .. Len(l) - n : m[j] = l[j + n]
  /\ m[i].addr = l[i].addr /\ End(m[i]) = End(l[i + n]) /\ m[i].free

\* In a list that is laid out, a block ends before the end of those behind it.
LEMMA EndsGrow ==
  ASSUME NEW l, NEW b, NEW g, Laid(l, b, g), NEW j \in 1 .. Len(l), NEW k \in j .. Len(l)
  PROVE  /\ k \in 1 .. Len(l) /\ l[j].addr \in Nat /\ l[k].addr \in Nat /\ End(l[j]) \in Nat /\ End(l[k]) \in Nat
         /\ l[j].addr <= l[k].addr /\ End(l[j]) <= End(l[k]) /\ l[j].addr + HDR <= End(l[j])
<1>0. Len(l) \in Nat /\ HDR \in Nat
  BY LaidFacts, Sizes
<1>1. k \in 1 .. Len(l) /\ j <= k
  BY <1>0
<1>2. PICK aj \in Nat, zj \in Nat, ak \in Nat, zk \in Nat :
         /\ aj = l[j].addr /\ zj = l[j].size /\ ak = l[k].addr /\ zk = l[k].size
         /\ End(l[j]) = aj + HDR + zj /\ End(l[k]) = ak + HDR + zk
  BY <1>1, LaidFacts
<1>3. aj <= ak /\ aj + HDR + zj <= ak + HDR + zk
  <2>1. CASE j = k
    BY <1>0, <1>2, <2>1
  <2>2. CASE j # k
    <3>1. j < k
      BY <1>0, <1>1, <2>2
    <3>2. End(l[j]) <= l[k].addr
      BY <1>1, <3>1 DEF Laid, Ordered
    <3>3. aj + HDR + zj <= ak
      BY <1>2, <3>2
    <3>. QED  BY <1>0, <3>3
  <2>. QED  BY <2>1, <2>2
<1>4. aj + HDR <= aj + HDR + zj /\ aj + HDR + zj \in Nat /\ ak + HDR + zk \in Nat
  BY <1>0
<1>. QED  BY <1>1, <1>2, <1>3, <1>4

LEMMA FreeMerges ==
  ASSUME NEW l, NEW b, NEW g, NEW v, Good(l, b, g, v), NEW p \in DOMAIN v
  PROVE  \E n \in Nat : Merged(l, FreeOn(l, p), BlockAt(l, p), n)
<1>0. Laid(l, b, g)
  BY DEF Good
<1>1. PICK w \in Nat : w = Len(l)
  BY <1>0, LaidFacts
<1>2. l \in Seq(BlockType) /\ HDR \in Nat
  BY <1>0, LaidFacts, Sizes
<1>31. PICK i \in Nat : i = BlockAt(l, p) /\ i \in 1 .. w
  <2>1. BlockAt(l, p) \in 1 .. Len(l)
    BY BlockAtIs
  <2>. QED  BY <1>1, <2>1
<1>3. i \in 1 .. w /\ i \in Nat
  BY <1>31
<1>4. PICK S : S = Followers(l, i)
  OBVIOUS
<1>5. S \subseteq 0 .. w - i
  BY <1>1, <1>4 DEF Followers
<1>6. 0 \in S
  <2>1. 0 \in 0 .. Len(l) - i /\ i + 1 .. i + 0 = {}
    BY <1>1, <1>3
  <2>. QED  BY <1>4, <2>1 DEF Followers
<1>7. PICK n \in Nat : n = Max(S) /\ n \in S
  <2>1. S \in SUBSET Nat /\ (\A y \in S : y <= w - i) /\ w - i \in Nat /\ S # {}
    BY <1>3, <1>5, <1>6
  <2>2. PICK z \in Nat : z = w - i
    BY <2>1
  <2>3. \A y \in S : y <= z
    BY <2>1, <2>2
  <2>. QED  BY <2>1, <2>3, MaxIsGreatest
<1>8. n \in S
  BY <1>7
<1>9. n \in 0 .. w - i /\ n \in Nat /\ \A j \in i + 1 .. i + n : l[j].free /\ End(l[j - 1]) = l[j].addr
  <2>1. n \in 0 .. w - i
    BY <1>5, <1>8
  <2>2. \A j \in i + 1 .. i + n : l[j].free /\ End(l[j - 1]) = l[j].addr
    BY <1>4, <1>8, Zenon DEF Followers
  <2>. QED  BY <2>1, <2>2
<1>29. n \in 0 .. w - i /\ n \in Nat
  BY <1>9, Zenon
<1>10. PICK h \in 1 .. w : h = i + n /\ h \in i .. w
  BY <1>3, <1>9
<1>11. PICK a \in Nat, y \in Nat : a = l[i].addr /\ y = End(l[h]) /\ a + HDR <= y
  <2>1. /\ l[i].addr \in Nat /\ End(l[i]) \in Nat /\ End(l[h]) \in Nat
        /\ End(l[i]) <= End(l[h]) /\ l[i].addr + HDR <= End(l[i])
    BY <1>0, <1>1, <1>3, <1>10, EndsGrow
  <2>. QED  BY <1>2, <2>1
<1>12. PICK size \in Nat : size = y - (a + HDR)
  BY <1>2, <1>11
<1>13. PICK e \in BlockType : e = FreeBlock(a, size) /\ e.addr = a /\ End(e) = a + HDR + size
  BY FreeIs
<1>14. End(e) = y
  BY <1>2, <1>11, <1>12, <1>13
<1>15. e.free
  BY <1>13 DEF FreeBlock
<1>16. PICK m : m = FreeOn(l, p)
  OBVIOUS
<1>17. m = SubSeq(l, 1, i - 1) \o <<e>> \o SubSeq(l, i + n + 1, Len(l))
  <2>1. m = SubSeq(l, 1, i - 1) \o <<FreeBlock(l[i].addr, End(l[i + n]) - (l[i].addr + HDR))>>
              \o SubSeq(l, i + n + 1, Len(l))
    BY <1>4, <1>7, <1>16, <1>31, Zenon DEF FreeOn
  <2>. QED  BY <1>10, <1>11, <1>12, <1>13, <2>1, Zenon
<1>18. PICK i1 \in Nat, k \in Nat : i1 = i - 1 /\ k = i + n + 1
  BY <1>3, <1>9
<1>19. i1 \in 0 .. Len(l) /\ k \in i1 + 1 .. Len(l) + 1
  BY <1>1, <1>3, <1>9, <1>18
<1>20. m = Splice(l, i1, e, k)
  BY <1>17, <1>18, Zenon DEF Splice
<1>21. /\ m \in Seq(BlockType) /\ Len(m) = Len(l) + i1 + 2 - k
       /\ \A j \in 1 .. Len(m) :
            m[j] = IF j <= i1 THEN l[j] ELSE IF j = i1 + 1 THEN e ELSE l[j + k - (i1 + 2)]
  <2>1. IsSplice(BlockType, m, l, i1, e, k)
    BY <1>2, <1>19, <1>20, Spliced
  <2>. QED  BY <2>1, Zenon DEF IsSplice
<1>22. Len(m) = w - n
  <2>1. Len(m) = w + i1 + 2 - k
    BY <1>1, <1>21, Zenon
  <2>. QED  BY <1>3, <1>18, <1>29, <2>1
<1>23. ASSUME NEW j \in 1 .. i - 1  PROVE m[j] = l[j]
  <2>1. j \in 1 .. Len(m) /\ j <= i1
    BY <1>3, <1>18, <1>22, <1>29
  <2>. QED  BY <1>21, <2>1
<1>24. m[i] = e
  <2>1. i \in 1 .. Len(m) /\ ~(i <= i1) /\ i = i1 + 1
    BY <1>3, <1>18, <1>22, <1>29
  <2>. QED  BY <1>21, <2>1
<1>25. ASSUME NEW j \in i + 1 .. w - n  PROVE m[j] = l[j + n]
  <2>1. j \in 1 .. Len(m) /\ ~(j <= i1) /\ j # i1 + 1 /\ j + k - (i1 + 2) = j + n
    BY <1>3, <1>18, <1>22, <1>29
  <2>. QED  BY <1>21, <2>1
<1>26. m[i].addr = l[i].addr /\ End(m[i]) = End(l[i + n])
  BY <1>10, <1>11, <1>13, <1>14, <1>24, Zenon
<1>27. m[i].free
  BY <1>15, <1>24, Zenon
<1>28. Merged(l, m, i, n)
  BY <1>1, <1>3, <1>9, <1>21, <1>22, <1>23, <1>25, <1>26, <1>27, Zenon DEF Merged
<1>. QED  BY <1>16, <1>28, <1>31

\* A word of the merged block is a word of one of its parts: of the last part that
\* starts at or before it.
LEMMA WordOfPart ==
  ASSUME NEW l, NEW b, NEW g, Laid(l, b, g), NEW m, NEW i \in Nat, NEW n \in Nat, Merged(l, m, i, n),
         NEW x \in l[i].addr .. End(l[i + n]) - 1
  PROVE  \E h \in 1 .. Len(l) : x \in Words(l[h])
<1>1. PICK w \in Nat : w = Len(l)
  BY LaidFacts
<1>2. i \in 1 .. w /\ n \in 0 .. w - i /\ i + n \in 1 .. w
  BY <1>1 DEF Merged
<1>3. l[i].addr \in Nat /\ End(l[i + n]) \in Nat
  BY <1>1, <1>2, LaidFacts
<1>4. x \in Int /\ l[i].addr <= x /\ x < End(l[i + n])
  BY <1>3
<1>5. PICK S : S = {h \in i .. i + n : l[h].addr <= x}
  OBVIOUS
<1>6. S \in SUBSET Nat /\ (\A y \in S : y <= i + n) /\ i + n \in Nat /\ i \in S
  BY <1>2, <1>4, <1>5
<1>7. PICK c \in Nat : c = i + n
  BY <1>2
<1>8. Max(S) \in S /\ \A y \in S : y <= Max(S)
  <2>1. S # {} /\ \A y \in S : y <= c
    BY <1>6, <1>7
  <2>. QED  BY <1>6, <2>1, MaxIsGreatest
<1>9. PICK h \in Nat : h = Max(S) /\ h \in i .. i + n /\ l[h].addr <= x
  BY <1>5, <1>6, <1>8
<1>10. h \in 1 .. w
  BY <1>2, <1>9
<1>11. x < End(l[h])
  <2>1. CASE h = i + n
    BY <1>4, <2>1
  <2>2. CASE h # i + n
    <3>1. PICK f \in Nat : f = h + 1 /\ f \in i + 1 .. i + n /\ f \in 1 .. w /\ f - 1 = h /\ f \in i .. i + n
      BY <1>2, <1>9, <2>2
    <3>2. f \notin S
      <4>1. ~(f <= h)
        BY <3>1
      <4>. QED  BY <1>8, <1>9, <4>1
    <3>3. ~(l[f].addr <= x) /\ l[f].addr \in Nat
      BY <1>1, <1>5, <3>1, <3>2, LaidFacts
    <3>4. End(l[h]) = l[f].addr
      BY <3>1, Zenon DEF Merged
    <3>. QED  BY <1>4, <3>3, <3>4
  <2>. QED  BY <2>1, <2>2
<1>12. x \in Words(l[h])
  <2>1. Words(l[h]) = l[h].addr .. End(l[h]) - 1
    BY Zenon DEF Words
  <2>2. PICK y \in Nat, z \in Nat : y = l[h].addr /\ z = End(l[h])
    BY <1>1, <1>10, LaidFacts
  <2>3. x \in y .. z - 1
    BY <1>4, <1>9, <1>11, <2>2
  <2>. QED  BY <2>1, <2>2, <2>3
<1>. QED  BY <1>1, <1>10, <1>12

\* The merged list is laid out over the same words.
LEMMA MergedLaid ==
  ASSUME NEW l, NEW b, NEW g, Laid(l, b, g), NEW m, NEW i \in Nat, NEW n \in Nat, Merged(l, m, i, n)
  PROVE  Laid(m, b, g)
<1>1. PICK w \in Nat, q \in Nat : w = Len(l) /\ q = Len(m) /\ q = w - n
  BY LaidFacts DEF Merged
<1>2. i \in 1 .. w /\ n \in 0 .. w - i /\ i + n \in 1 .. w /\ i \in 1 .. q
  BY <1>1 DEF Merged
<1>. DEFINE lo(j) == IF j <= i THEN j ELSE j + n
            hi(j) == IF j < i THEN j ELSE j + n
<1>3. ASSUME NEW j \in 1 .. q
      PROVE  lo(j) \in 1 .. w /\ hi(j) \in 1 .. w /\ m[j].addr = l[lo(j)].addr /\ End(m[j]) = End(l[hi(j)])
  <2>1. CASE j < i
    <3>1. m[j] = l[j] /\ lo(j) = j /\ hi(j) = j /\ j \in 1 .. w
      <4>1. j \in 1 .. i - 1 /\ j <= i /\ j \in 1 .. w
        BY <1>2, <2>1
      <4>. QED  BY <2>1, <4>1 DEF Merged
    <3>. QED  BY <3>1
  <2>2. CASE j = i
    <3>1. lo(j) = i /\ hi(j) = i + n
      BY <1>2, <2>2
    <3>. QED  BY <1>2, <2>2, <3>1 DEF Merged
  <2>3. CASE j > i
    <3>1. j \in i + 1 .. w - n /\ j + n \in 1 .. w /\ lo(j) = j + n /\ hi(j) = j + n
      BY <1>1, <1>2, <2>3
    <3>2. m[j] = l[j + n]
      BY <1>1, <3>1 DEF Merged
    <3>. QED  BY <3>1, <3>2
  <2>4. j < i \/ j = i \/ j > i
    BY <1>2
  <2>. QED  BY <2>1, <2>2, <2>3, <2>4
<1>4. ASSUME NEW j \in 1 .. q, NEW k \in 1 .. q, j < k  PROVE hi(j) < lo(k)
  BY <1>2, <1>4
<1>. HIDE DEF lo, hi
<1>5. ASSUME NEW j \in 1 .. q, NEW k \in 1 .. q, j < k  PROVE End(m[j]) <= m[k].addr
  <2>1. hi(j) < lo(k) /\ hi(j) \in 1 .. w /\ lo(k) \in 1 .. w /\ m[k].addr = l[lo(k)].addr /\ End(m[j]) = End(l[hi(j)])
    BY <1>3, <1>4, <1>5
  <2>2. End(l[hi(j)]) <= l[lo(k)].addr
    BY <1>1, <2>1 DEF Laid, Ordered
  <2>. QED  BY <2>1, <2>2, Zenon
<1>6. ASSUME NEW j \in 1 .. q  PROVE End(m[j]) <= b
  <2>1. hi(j) \in 1 .. w /\ End(m[j]) = End(l[hi(j)])
    BY <1>3
  <2>2. End(l[hi(j)]) <= b
    BY <1>1, <2>1 DEF Laid, Below
  <2>. QED  BY <2>1, <2>2, Zenon
<1>7. ASSUME NEW h \in 1 .. w, h \notin i .. i + n  PROVE \E j \in 1 .. q : m[j] = l[h]
  <2>1. CASE h < i
    <3>1. h \in 1 .. i - 1 /\ h \in 1 .. q
      BY <1>2, <2>1
    <3>. QED  BY <3>1 DEF Merged
  <2>2. CASE ~(h < i)
    <3>1. PICK j \in Nat : j = h - n /\ j \in i + 1 .. w - n /\ j + n = h /\ j \in 1 .. q
      BY <1>1, <1>2, <1>7, <2>2
    <3>. QED  BY <1>1, <3>1 DEF Merged
  <2>. QED  BY <2>1, <2>2
<1>8. ASSUME NEW j \in 1 .. q, NEW x \in Words(m[j])  PROVE x \in g
  <2>1. \A h \in 1 .. w : Words(l[h]) \subseteq g
    BY <1>1 DEF Laid, Covers
  <2>2. CASE j = i
    <3>1. Words(m[j]) = l[i].addr .. End(l[i + n]) - 1
      <4>1. m[i].addr = l[i].addr /\ End(m[i]) = End(l[i + n])
        BY DEF Merged
      <4>2. Words(m[i]) = m[i].addr .. End(m[i]) - 1
        BY Zenon DEF Words
      <4>. QED  BY <2>2, <4>1, <4>2
    <3>2. \E h \in 1 .. Len(l) : x \in Words(l[h])
      BY <3>1, WordOfPart
    <3>. QED  BY <1>1, <2>1, <3>2
  <2>3. CASE j # i
    <3>1. \E h \in 1 .. w : m[j] = l[h]
      <4>1. CASE j < i
        <5>1. j \in 1 .. i - 1 /\ j \in 1 .. w
          BY <1>2, <4>1
        <5>. QED  BY <5>1 DEF Merged
      <4>2. CASE ~(j < i)
        <5>1. j \in i + 1 .. w - n /\ j + n \in 1 .. w
          BY <1>1, <1>2, <2>3, <4>2
        <5>. QED  BY <1>1, <5>1 DEF Merged
      <4>. QED  BY <4>1, <4>2
    <3>. QED  BY <2>1, <3>1
  <2>. QED  BY <2>2, <2>3
<1>9. ASSUME NEW x \in g  PROVE \E j \in 1 .. q : x \in Words(m[j])
  <2>1. PICK h \in 1 .. w : x \in Words(l[h])
    BY <1>1 DEF Laid, Covers
  <2>2. CASE h \in i .. i + n
    <3>1. PICK c \in Nat : c = i + n /\ c \in 1 .. w /\ i \in 1 .. w /\ h \in i .. w /\ c \in h .. w
      BY <1>2, <2>2
    <3>2. l[i].addr <= l[h].addr /\ l[i].addr \in Nat /\ l[h].addr \in Nat
      BY <1>1, <3>1, EndsGrow
    <3>3. End(l[h]) <= End(l[c]) /\ End(l[h]) \in Nat /\ End(l[c]) \in Nat
      BY <1>1, <3>1, EndsGrow
    <3>4. Words(l[h]) = l[h].addr .. End(l[h]) - 1 /\ Words(m[i]) = m[i].addr .. End(m[i]) - 1
      BY Zenon DEF Words
    <3>5. m[i].addr = l[i].addr /\ End(m[i]) = End(l[c])
      BY <3>1 DEF Merged
    <3>6. PICK y1 \in Nat, z1 \in Nat, y2 \in Nat, z2 \in Nat :
            y1 = l[h].addr /\ z1 = End(l[h]) /\ y2 = l[i].addr /\ z2 = End(l[c])
      BY <3>2, <3>3
    <3>7. x \in y1 .. z1 - 1 /\ y2 <= y1 /\ z1 <= z2
      BY <2>1, <3>2, <3>3, <3>4, <3>6
    <3>8. x \in y2 .. z2 - 1
      BY <3>7
    <3>9. x \in Words(m[i])
      BY <3>4, <3>5, <3>6, <3>8
    <3>. QED  BY <1>2, <3>9
  <2>3. CASE h \notin i .. i + n
    BY <1>7, <2>1, <2>3
  <2>. QED  BY <2>2, <2>3
<1>10. m \in Seq(BlockType)
  BY DEF Merged
<1>11. Ordered(m) /\ Below(m, b) /\ Covers(m, g)
  BY <1>1, <1>5, <1>6, <1>8, <1>9 DEF Ordered, Below, Covers
<1>. QED  BY <1>10, <1>11, LaidFacts DEF Laid

\* free: the program holds every pointer it held but the one it gave back.
LEMMA Freed ==
  ASSUME NEW l, NEW b, NEW g, NEW v, Good(l, b, g, v), NEW p \in DOMAIN v
  PROVE  Good(FreeOn(l, p), b, g, Without(v, p))
<1>0. Laid(l, b, g) /\ HoldsBut(l, v, 0)
  BY DEF Good
<1>1. PICK m, i : m = FreeOn(l, p) /\ i = BlockAt(l, p)
  OBVIOUS
<1>2. PICK n \in Nat : Merged(l, m, i, n)
  BY <1>1, FreeMerges
<1>3. PICK w \in Nat, q \in Nat : w = Len(l) /\ q = Len(m) /\ q = w - n
  BY <1>0, <1>2, LaidFacts DEF Merged
<1>4. i \in 1 .. w /\ n \in 0 .. w - i /\ i \in Nat
  BY <1>2, <1>3 DEF Merged
<1>5. Laid(m, b, g)
  BY <1>0, <1>2, <1>4, MergedLaid
<1>6. l[i].addr + HDR = p /\ \A j \in 1 .. w : j # i => l[j].addr + HDR # p
  BY <1>1, <1>3, BlockAtIs
<1>7. PICK u : u = Without(v, p)
  OBVIOUS
<1>8. DOMAIN u = DOMAIN v \ {p} /\ \A x \in DOMAIN u : u[x] = v[x]
  BY <1>7 DEF Without, Restrict
<1>9. 1 .. Len(l) \ {0} = 1 .. w /\ 1 .. Len(m) \ {0} = 1 .. q
  BY <1>3
<1>10. ASSUME NEW j \in 1 .. q, ~m[j].free
       PROVE  m[j].addr + HDR \in DOMAIN u /\ u[m[j].addr + HDR] \in 0 .. m[j].size
  <2>1. j # i
    BY <1>2, <1>10 DEF Merged
  <2>2. PICK h \in 1 .. w : h # i /\ m[j] = l[h]
    <3>1. CASE j < i
      <4>1. j \in 1 .. i - 1 /\ j \in 1 .. w
        BY <1>4, <3>1
      <4>. QED  BY <1>2, <2>1, <4>1 DEF Merged
    <3>2. CASE ~(j < i)
      <4>1. j \in i + 1 .. w - n /\ j + n \in 1 .. w /\ j + n # i
        BY <1>3, <1>4, <2>1, <3>2
      <4>. QED  BY <1>2, <1>3, <4>1 DEF Merged
    <3>. QED  BY <3>1, <3>2
  <2>3. ~l[h].free
    BY <1>10, <2>2, Zenon
  <2>4. l[h].addr + HDR \in DOMAIN v /\ v[l[h].addr + HDR] \in 0 .. l[h].size
    BY <1>0, <1>9, <2>3, Zenon DEF HoldsBut
  <2>5. l[h].addr + HDR # p
    BY <1>6, <2>2
  <2>6. l[h].addr + HDR \in DOMAIN u
    BY <1>8, <2>4, <2>5, Zenon
  <2>7. u[l[h].addr + HDR] = v[l[h].addr + HDR]
    BY <1>8, <2>6, Zenon
  <2>. QED  BY <2>2, <2>4, <2>6, <2>7, Zenon
<1>11. ASSUME NEW x \in DOMAIN u  PROVE \E j \in 1 .. q : ~m[j].free /\ m[j].addr + HDR = x
  <2>1. x \in DOMAIN v /\ x # p
    BY <1>8
  <2>2. PICK h \in 1 .. w : ~l[h].free /\ l[h].addr + HDR = x
    BY <1>0, <1>9, <2>1, Zenon DEF HoldsBut
  <2>3. h # i
    BY <1>6, <2>1, <2>2
  <2>4. h \notin i + 1 .. i + n
    BY <1>2, <2>2 DEF Merged
  <2>5. \E j \in 1 .. q : m[j] = l[h]
    <3>1. CASE h < i
      <4>1. h \in 1 .. i - 1 /\ h \in 1 .. q
        BY <1>3, <1>4, <3>1
      <4>. QED  BY <1>2, <4>1 DEF Merged
    <3>2. CASE ~(h < i)
      <4>1. PICK j \in Nat : j = h - n /\ j \in i + 1 .. w - n /\ j + n = h /\ j \in 1 .. q
        BY <1>3, <1>4, <2>3, <2>4, <3>2
      <4>. QED  BY <1>2, <1>3, <4>1 DEF Merged
    <3>. QED  BY <3>1, <3>2
  <2>. QED  BY <2>2, <2>5, Zenon
<1>12. HoldsBut(m, u, 0)
  BY <1>9, <1>10, <1>11, Zenon DEF HoldsBut
<1>. QED  BY <1>1, <1>5, <1>7, <1>12, Zenon DEF Good

-----------------------------------------------------------------------------
\* The division of calloc finds every product that does not fit a size_t.
LEMMA ProductFits ==
  ASSUME NEW n \in 0 .. SizeMax, NEW size \in 0 .. SizeMax, NoOverflow(n, size)
  PROVE  n * size \in 0 .. SizeMax /\ (n * size) % (SizeMax + 1) = n * size
<1>1. SizeMax \in Nat /\ n \in Nat /\ size \in Nat
  BY Sizes
<1>2. PICK k \in Nat : k = n * size
  BY <1>1
<1>3. k <= SizeMax
  <2>1. CASE n = 0
    BY <1>1, <1>2, <2>1
  <2>2. CASE n # 0
    <3>1. PICK t \in Nat : t = k % (SizeMax + 1) /\ t <= SizeMax
      BY <1>1
    <3>2. t \div n = size
      BY <1>2, <2>2, <3>1 DEF NoOverflow
    <3>3. n * size <= t
      BY <1>1, <2>2, <3>2, DivLess
    <3>. QED  BY <1>1, <1>2, <3>1, <3>3
  <2>. QED  BY <2>1, <2>2
<1>4. k % (SizeMax + 1) = k
  BY <1>1, <1>3
<1>. QED  BY <1>1, <1>2, <1>3, <1>4

\* A request that malloc or calloc passes on.
LEMMA Asked ==
  ASSUME NEW a \in Arrays, NoOverflow(a[1], a[2])
  PROVE  (a[1] * a[2]) % (SizeMax + 1) = a[1] * a[2] /\ a[1] * a[2] \in Nat /\ Ordinary(a[1] * a[2])
<1>1. a[1] \in 0 .. SizeMax /\ a[2] \in 0 .. SizeMax
  BY MallocAssumption
<1>2. a[1] * a[2] \in 0 .. SizeMax /\ (a[1] * a[2]) % (SizeMax + 1) = a[1] * a[2]
  BY <1>1, ProductFits
<1>3. a[1] * a[2] > SizeMax \/ Ordinary(a[1] * a[2])
  BY MallocAssumption
<1>4. a[1] * a[2] \in Nat /\ ~(a[1] * a[2] > SizeMax)
  <2>1. PICK k \in 0 .. SizeMax : k = a[1] * a[2]
    BY <1>2
  <2>2. k \in Nat /\ ~(k > SizeMax)
    BY <2>1, Sizes
  <2>. QED  BY <2>1, <2>2
<1>. QED  BY <1>2, <1>3, <1>4

-----------------------------------------------------------------------------
\* realloc in place: another size for a pointer the program holds.
LEMMA Resized ==
  ASSUME NEW l, NEW b, NEW g, NEW v, Good(l, b, g, v), NEW p \in DOMAIN v, NEW n \in Nat,
         l[BlockAt(l, p)].size >= n
  PROVE  Good(l, b, g, With(v, p, n))
<1>0. Laid(l, b, g) /\ HoldsBut(l, v, 0)
  BY DEF Good
<1>1. PICK w \in Nat : w = Len(l)
  BY <1>0, LaidFacts
<1>2. PICK i : i = BlockAt(l, p) /\ i \in 1 .. w /\ l[i].addr + HDR = p
  BY <1>1, BlockAtIs
<1>3. \A j \in 1 .. w : j # i => l[j].addr + HDR # p
  BY <1>1, <1>2, BlockAtIs
<1>4. n \in 0 .. l[i].size
  <2>1. l[i].size \in Nat /\ l[i].size >= n
    BY <1>0, <1>1, <1>2, LaidFacts
  <2>. QED  BY <2>1
<1>5. PICK u : u = With(v, p, n)
  OBVIOUS
<1>6. DOMAIN u = DOMAIN v /\ u[p] = n /\ \A x \in DOMAIN v : x # p => u[x] = v[x]
  <2>1. /\ DOMAIN With(v, p, n) = DOMAIN v \cup {p} /\ With(v, p, n)[p] = n
        /\ \A x \in DOMAIN v : x # p => With(v, p, n)[x] = v[x]
    BY DEF With
  <2>2. DOMAIN v \cup {p} = DOMAIN v
    OBVIOUS
  <2>. QED  BY <1>5, <2>1, <2>2, Zenon
<1>7. 1 .. Len(l) \ {0} = 1 .. w
  BY <1>1
<1>8. ASSUME NEW j \in 1 .. w, ~l[j].free
      PROVE  l[j].addr + HDR \in DOMAIN u /\ u[l[j].addr + HDR] \in 0 .. l[j].size
  <2>1. l[j].addr + HDR \in DOMAIN v /\ v[l[j].addr + HDR] \in 0 .. l[j].size
    BY <1>0, <1>7, <1>8, Zenon DEF HoldsBut
  <2>2. CASE j = i
    BY <1>2, <1>4, <1>6, <2>1, <2>2, Zenon
  <2>3. CASE j # i
    <3>1. l[j].addr + HDR # p
      BY <1>3, <2>3, Zenon
    <3>. QED  BY <1>6, <2>1, <3>1, Zenon
  <2>. QED  BY <2>2, <2>3
<1>9. ASSUME NEW x \in DOMAIN u  PROVE \E j \in 1 .. w : ~l[j].free /\ l[j].addr + HDR = x
  BY <1>0, <1>6, <1>7, Zenon DEF HoldsBut
<1>10. HoldsBut(l, u, 0)
  BY <1>7, <1>8, <1>9, Zenon DEF HoldsBut
<1>. QED  BY <1>0, <1>5, <1>10, Zenon DEF Good

\* How many pointers the program holds after a step.
LEMMA OneMore ==
  ASSUME NEW v, IsFiniteSet(DOMAIN v), NEW k \in Nat, Cardinality(DOMAIN v) = k, NEW q, q \notin DOMAIN v, NEW n
  PROVE  IsFiniteSet(DOMAIN With(v, q, n)) /\ Cardinality(DOMAIN With(v, q, n)) = k + 1
<1>1. DOMAIN With(v, q, n) = DOMAIN v \cup {q}
  BY DEF With
<1>. QED  BY <1>1, FS_AddElement

LEMMA OneLess ==
  ASSUME NEW v, IsFiniteSet(DOMAIN v), NEW k \in Nat, Cardinality(DOMAIN v) = k, NEW p \in DOMAIN v
  PROVE  /\ IsFiniteSet(DOMAIN Without(v, p)) /\ Cardinality(DOMAIN Without(v, p)) = k - 1
         /\ k - 1 \in Nat
<1>1. DOMAIN Without(v, p) = DOMAIN v \ {p}
  BY DEF Without, Restrict
<1>2. IsFiniteSet(DOMAIN v \ {p}) /\ Cardinality(DOMAIN v \ {p}) = Cardinality(DOMAIN v) - 1
  BY FS_RemoveElement
<1>3. Cardinality(DOMAIN v \ {p}) \in Nat
  BY <1>2, FS_CardinalityType
<1>. QED  BY <1>1, <1>2, <1>3

LEMMA AsMany ==
  ASSUME NEW v, NEW p \in DOMAIN v, NEW n
  PROVE  DOMAIN With(v, p, n) = DOMAIN v
BY DEF With

\* What a step does to the pointers of the program.
Moves ==
  \/ live' = live
  \/ \E q, n : q \notin DOMAIN live /\ live' = With(live, q, n)
  \/ \E p \in DOMAIN live : live' = Without(live, p)
  \/ \E p \in DOMAIN live : \E n : live' = With(live, p, n)
  \/ \E p \in DOMAIN live : \E q, n : q \notin DOMAIN live /\ live' = Without(With(live, q, n), p)

Counted(v, k) == IsFiniteSet(DOMAIN v) /\ k \in Nat /\ Cardinality(DOMAIN v) = k

\* A break that moves away from the list.
LEMMA GoodUp ==
  ASSUME NEW l, NEW b, NEW g, NEW v, Good(l, b, g, v), NEW c \in b .. BreakLimit
  PROVE  Good(l, c, g, v)
BY LaidUp DEF Good

LEMMA AllocateKeeps ==
  ASSUME MallocInv, NEW n \in Nat, Ordinary(n), Allocate(n, n)
  PROVE  MallocInv' /\ Moves
<1>0. Good(list, brk, got, live) /\ Counted(live, held)
  BY DEF MallocInv, Counted
<1>1. PICK r : r = MallocOn(list, brk, n)
  OBVIOUS
<1>2. Answered(r, brk, got, live, n) /\ (r.at = 0 => r.list = list)
  BY <1>0, <1>1, Malloced
<1>3. list' = r.list /\ brk' = r.brk
  BY <1>1, Zenon DEF Allocate
<1>4. CASE r.at # 0
  <2>1. live' = With(live, Pointer(r), n) /\ held' = held + 1 /\ got' = got \cup (brk .. r.brk - 1)
    BY <1>1, <1>4, Zenon DEF Allocate
  <2>2. Good(list', brk', got', live')
    BY <1>2, <1>3, <1>4, <2>1, Zenon DEF Answered
  <2>3. Pointer(r) \notin DOMAIN live
    BY <1>2, <1>4, Zenon DEF Answered
  <2>4. Counted(live', held')
    BY <1>0, <2>1, <2>3, OneMore DEF Counted
  <2>. QED  BY <2>1, <2>2, <2>3, <2>4, Zenon DEF MallocInv, Moves, Counted
<1>5. CASE r.at = 0
  <2>1. live' = live /\ held' = held /\ got' = got /\ list' = list
    BY <1>1, <1>2, <1>3, <1>5, Zenon DEF Allocate
  <2>2. brk' \in brk .. BreakLimit
    BY <1>2, <1>3, Zenon DEF Answered
  <2>3. Good(list, brk', got, live)
    BY <1>0, <2>2, GoodUp
  <2>. QED  BY <1>0, <2>1, <2>3, Zenon DEF MallocInv, Moves, Counted
<1>. QED  BY <1>4, <1>5

LEMMA FreeKeeps ==
  ASSUME MallocInv, NEW p \in DOMAIN live, free(p)
  PROVE  MallocInv' /\ Moves
<1>0. Good(list, brk, got, live) /\ Counted(live, held)
  BY DEF MallocInv, Counted
<1>1. list' = FreeOn(list, p) /\ live' = Without(live, p) /\ held' = held - 1 /\ brk' = brk /\ got' = got
  BY DEF free
<1>2. Good(FreeOn(list, p), brk, got, Without(live, p))
  BY <1>0, Freed
<1>3. Counted(live', held')
  BY <1>0, <1>1, OneLess DEF Counted
<1>. QED  BY <1>1, <1>2, <1>3, Zenon DEF MallocInv, Moves, Counted

LEMMA ReallocKeeps ==
  ASSUME MallocInv, NEW p \in DOMAIN live, NEW n \in Nat, Ordinary(n), realloc(p, n)
  PROVE  MallocInv' /\ Moves
<1>0. Good(list, brk, got, live) /\ Counted(live, held)
  BY DEF MallocInv, Counted
<1>1. held' = held
  BY DEF realloc
<1>2. CASE list[BlockAt(list, p)].size >= n
  <2>1. live' = With(live, p, n) /\ list' = list /\ brk' = brk /\ got' = got
    BY <1>2, Zenon DEF realloc
  <2>2. Good(list, brk, got, With(live, p, n))
    BY <1>0, <1>2, Resized
  <2>3. DOMAIN live' = DOMAIN live
    BY <2>1, AsMany
  <2>. QED  BY <1>0, <1>1, <2>1, <2>2, <2>3, Zenon DEF MallocInv, Moves, Counted
<1>3. CASE ~(list[BlockAt(list, p)].size >= n)
  <2>1. PICK r : r = MallocOn(list, brk, n)
    OBVIOUS
  <2>2. Answered(r, brk, got, live, n)
    BY <1>0, <2>1, Malloced
  <2>3. brk' = r.brk
    BY <1>3, <2>1, Zenon DEF realloc
  <2>4. CASE r.at # 0
    <3>1. PICK q : q = Pointer(r)
      OBVIOUS
    <3>2. /\ list' = FreeOn(r.list, p) /\ live' = Without(With(live, q, n), p)
          /\ got' = got \cup (brk .. r.brk - 1)
      BY <1>3, <2>1, <2>4, <3>1, Zenon DEF realloc
    <3>3. Good(r.list, r.brk, got', With(live, q, n)) /\ q \notin DOMAIN live
      BY <2>2, <2>4, <3>1, <3>2, Zenon DEF Answered
    <3>4. p \in DOMAIN With(live, q, n)
      BY DEF With
    <3>5. Good(FreeOn(r.list, p), r.brk, got', Without(With(live, q, n), p))
      BY <3>3, <3>4, Freed
    <3>6. Counted(With(live, q, n), held + 1)
      BY <1>0, <3>3, OneMore DEF Counted
    <3>7. Counted(live', held)
      <4>1. PICK k \in Nat : k = held + 1 /\ k - 1 = held
        BY <1>0 DEF Counted
      <4>2. PICK u : u = With(live, q, n)
        OBVIOUS
      <4>3. Counted(Without(u, p), k - 1)
        BY <3>4, <3>6, <4>1, <4>2, OneLess DEF Counted
      <4>. QED  BY <3>2, <4>1, <4>2, <4>3
    <3>. QED  BY <1>1, <2>3, <3>2, <3>3, <3>5, <3>7, Zenon DEF MallocInv, Moves, Counted
  <2>5. CASE r.at = 0
    <3>1. list' = list /\ live' = live /\ got' = got
      BY <1>3, <2>1, <2>5, Zenon DEF realloc
    <3>2. brk' \in brk .. BreakLimit
      BY <2>2, <2>3, Zenon DEF Answered
    <3>3. Good(list, brk', got, live)
      BY <1>0, <3>2, GoodUp
    <3>. QED  BY <1>0, <1>1, <3>1, <3>3, Zenon DEF MallocInv, Moves, Counted
  <2>. QED  BY <2>4, <2>5
<1>. QED  BY <1>2, <1>3

LEMMA SbrkKeeps ==
  ASSUME MallocInv, NEW k \in Nat, user_sbrk(k)
  PROVE  MallocInv' /\ Moves
<1>0. Good(list, brk, got, live) /\ Counted(live, held)
  BY DEF MallocInv, Counted
<1>1. brk' = brk + k /\ brk + k <= BreakLimit /\ list' = list /\ live' = live /\ held' = held /\ got' = got
  BY DEF user_sbrk, Granted
<1>2. brk' \in brk .. BreakLimit
  <2>1. brk \in Nat
    BY <1>0, LaidFacts DEF Good
  <2>. QED  BY <1>1, <2>1, Sizes
<1>3. Good(list, brk', got, live)
  BY <1>0, <1>2, GoodUp
<1>. QED  BY <1>0, <1>1, <1>3, Zenon DEF MallocInv, Moves, Counted

LEMMA MallocStep ==
  ASSUME MallocInv, Next
  PROVE  MallocInv' /\ Moves
<1>1. CASE \E n \in Requests : malloc(n)
  <2>1. PICK n \in Requests : malloc(n)
    BY <1>1
  <2>2. n \in Nat /\ Ordinary(n) /\ Allocate(n, n)
    BY <2>1, MallocAssumption DEF malloc
  <2>. QED  BY <2>2, AllocateKeeps
<1>2. CASE \E a \in Arrays : calloc(a[1], a[2])
  <2>1. PICK a \in Arrays : calloc(a[1], a[2])
    BY <1>2
  <2>2. NoOverflow(a[1], a[2]) /\ Allocate((a[1] * a[2]) % (SizeMax + 1), a[1] * a[2])
    BY <2>1, Zenon DEF calloc
  <2>3. (a[1] * a[2]) % (SizeMax + 1) = a[1] * a[2] /\ a[1] * a[2] \in Nat /\ Ordinary(a[1] * a[2])
    BY <2>2, Asked
  <2>4. PICK k \in Nat : k = a[1] * a[2]
    BY <2>3
  <2>5. Allocate(k, k) /\ Ordinary(k)
    BY <2>2, <2>3, <2>4
  <2>. QED  BY <2>5, AllocateKeeps
<1>3. CASE \E p \in DOMAIN live : free(p) \/ \E n \in Requests : realloc(p, n)
  <2>1. PICK p \in DOMAIN live : free(p) \/ \E n \in Requests : realloc(p, n)
    BY <1>3
  <2>2. CASE free(p)
    BY <2>2, FreeKeeps
  <2>3. CASE \E n \in Requests : realloc(p, n)
    <3>1. PICK n \in Requests : realloc(p, n)
      BY <2>3
    <3>2. n \in Nat /\ Ordinary(n)
      BY MallocAssumption
    <3>. QED  BY <3>1, <3>2, ReallocKeeps
  <2>. QED  BY <2>1, <2>2, <2>3
<1>4. CASE \E k \in Steps : user_sbrk(k)
  <2>1. PICK k \in Steps : user_sbrk(k)
    BY <1>4
  <2>2. k \in Nat
    BY MallocAssumption
  <2>. QED  BY <2>1, <2>2, SbrkKeeps
<1>. QED  BY <1>1, <1>2, <1>3, <1>4 DEF Next

LEMMA MallocStart ==
  ASSUME Init
  PROVE  MallocInv
<1>1. list = <<>> /\ brk = 0 /\ DOMAIN live = {} /\ held = 0 /\ got = {}
  BY DEF Init
<1>2. list \in Seq(BlockType) /\ Len(list) = 0 /\ brk \in 0 .. BreakLimit
  BY <1>1, Sizes
<1>3. Laid(list, brk, got)
  BY <1>1, <1>2 DEF Laid, Ordered, Below, Covers
<1>4. HoldsBut(list, live, 0)
  BY <1>1, <1>2 DEF HoldsBut
<1>5. IsFiniteSet(DOMAIN live) /\ held \in Nat /\ Cardinality(DOMAIN live) = held
  BY <1>1, FS_EmptySet
<1>. QED  BY <1>3, <1>4, <1>5 DEF MallocInv, Good

-----------------------------------------------------------------------------
\* The inductive invariant of the allocator: the list is laid out in the order of
\* addresses over exactly the words that grow got, and the blocks in use are the
\* pointers of the program, through every malloc, calloc, realloc and free.
THEOREM MallocInvariance == Spec => []MallocInv
<1>1. Init => MallocInv
  BY MallocStart
<1>2. MallocInv /\ [Next]_vars => MallocInv'
  <2>1. MallocInv /\ Next => MallocInv'
    BY MallocStep
  <2>2. MallocInv /\ vars' = vars => MallocInv'
    BY DEF MallocInv, Good, vars
  <2>. QED  BY <2>1, <2>2
<1>. QED  BY <1>1, <1>2, PTL DEF Spec

\* Splitting and merging blocks neither lose nor double a word: the list of malloc.c
\* always tiles the memory that grow has got, in address order and below the break.
THEOREM TilingTheorem == Spec => []Tiling
<1>1. MallocInv => Tiling
  <2>. SUFFICES ASSUME MallocInv  PROVE Tiling
    OBVIOUS
  <2>1. Laid(list, brk, got)
    BY DEF MallocInv, Good
  <2>2. list \in Seq(BlockType) /\ Len(list) \in Nat /\ DOMAIN list = 1 .. Len(list)
    BY <2>1, LaidFacts, LenProperties
  <2>3. ASSUME NEW i \in 1 .. Len(list) - 1  PROVE End(list[i]) <= list[i + 1].addr
    <3>1. i \in 1 .. Len(list) /\ i + 1 \in 1 .. Len(list) /\ i < i + 1
      BY <2>2
    <3>. QED  BY <2>1, <3>1 DEF Laid, Ordered
  <2>4. ASSUME list # <<>>  PROVE End(Last(list)) <= brk
    <3>1. Len(list) \in 1 .. Len(list)
      BY <2>2, <2>4
    <3>2. Last(list) = list[Len(list)]
      BY DEF Last
    <3>3. End(list[Len(list)]) <= brk
      BY <2>1, <3>1 DEF Laid, Below
    <3>. QED  BY <3>2, <3>3, Zenon
  <2>5. UNION {Words(list[i]) : i \in DOMAIN list} = got
    <3>1. /\ \A i \in DOMAIN list : Words(list[i]) \subseteq got
          /\ \A x \in got : \E i \in DOMAIN list : x \in Words(list[i])
      BY <2>1, <2>2, Zenon DEF Laid, Covers
    <3>. QED  BY <3>1
  <2>. QED  BY <2>3, <2>4, <2>5 DEF Tiling
<1>. QED  BY <1>1, MallocInvariance, PTL

\* The blocks in use are those the program holds, none was handed out twice, and
\* each has room for what was asked, whatever the order of the calls.
THEOREM HonouredTheorem == Spec => []Honoured
<1>1. MallocInv => Honoured
  <2>. SUFFICES ASSUME MallocInv  PROVE Honoured
    OBVIOUS
  <2>1. Good(list, brk, got, live) /\ Cardinality(DOMAIN live) = held
    BY DEF MallocInv
  <2>2. Laid(list, brk, got) /\ HoldsBut(list, live, 0)
    BY <2>1 DEF Good
  <2>3. DOMAIN list = 1 .. Len(list) /\ 1 .. Len(list) \ {0} = 1 .. Len(list)
    <3>1. list \in Seq(BlockType) /\ Len(list) \in Nat
      BY <2>2, LaidFacts
    <3>. QED  BY <3>1, LenProperties
  <2>4. {list[i].addr + HDR : i \in {j \in DOMAIN list : ~list[j].free}} = DOMAIN live
    <3>1. \A i \in DOMAIN list : ~list[i].free => list[i].addr + HDR \in DOMAIN live
      BY <2>2, <2>3, Zenon DEF HoldsBut
    <3>2. \A p \in DOMAIN live : \E i \in DOMAIN list : ~list[i].free /\ list[i].addr + HDR = p
      BY <2>2, <2>3, Zenon DEF HoldsBut
    <3>. QED  BY <3>1, <3>2, Zenon
  <2>5. ASSUME NEW p \in DOMAIN live  PROVE live[p] <= list[BlockAt(list, p)].size
    <3>1. PICK i : i = BlockAt(list, p)
      OBVIOUS
    <3>2. i \in 1 .. Len(list) /\ live[p] \in 0 .. list[i].size
      BY <2>1, <3>1, BlockAtIs
    <3>3. list[i].size \in Nat
      BY <2>2, <3>2, LaidFacts
    <3>4. live[p] <= list[i].size
      BY <3>2, <3>3
    <3>. QED  BY <3>1, <3>4
  <2>. QED  BY <2>1, <2>4, <2>5 DEF Honoured
<1>. QED  BY <1>1, MallocInvariance, PTL

\* The pointers of a good list are addresses, and the blocks behind them disjoint.
LEMMA GoodApart ==
  ASSUME NEW l, NEW b, NEW g, NEW v, Good(l, b, g, v)
  PROVE  H!Apart(v) /\ DOMAIN v \subseteq 0 .. BreakLimit
<1>0. Laid(l, b, g)
  BY DEF Good
<1>1. ASSUME NEW p \in DOMAIN v
      PROVE  \E i \in 1 .. Len(l) : /\ l[i].addr + HDR = p /\ l[i].addr \in Nat /\ p \in Nat /\ v[p] \in Nat
                                    /\ End(l[i]) \in Nat /\ p + v[p] <= End(l[i])
  <2>1. PICK i : i = BlockAt(l, p)
    OBVIOUS
  <2>2. i \in 1 .. Len(l) /\ l[i].addr + HDR = p /\ v[p] \in 0 .. l[i].size
    BY <2>1, BlockAtIs
  <2>3. l[i].addr \in Nat /\ l[i].size \in Nat /\ End(l[i]) \in Nat /\ End(l[i]) = l[i].addr + HDR + l[i].size
    BY <1>0, <2>2, LaidFacts
  <2>4. PICK a \in Nat, z \in Nat, y \in Nat : a = l[i].addr /\ z = l[i].size /\ y = v[p]
    BY <2>2, <2>3
  <2>5. p = a + HDR /\ y <= z /\ End(l[i]) = a + HDR + z /\ HDR \in Nat
    BY <2>2, <2>3, <2>4, Sizes
  <2>6. p \in Nat /\ p + y <= End(l[i])
    BY <2>5
  <2>. QED  BY <2>2, <2>3, <2>4, <2>6
<1>2. ASSUME NEW p \in DOMAIN v, NEW q \in DOMAIN v  PROVE p = q \/ p + v[p] <= q \/ q + v[q] <= p
  <2>1. PICK i \in 1 .. Len(l) : /\ l[i].addr + HDR = p /\ l[i].addr \in Nat /\ p \in Nat /\ v[p] \in Nat
                                 /\ End(l[i]) \in Nat /\ p + v[p] <= End(l[i])
    BY <1>1
  <2>2. PICK j \in 1 .. Len(l) : /\ l[j].addr + HDR = q /\ l[j].addr \in Nat /\ q \in Nat /\ v[q] \in Nat
                                 /\ End(l[j]) \in Nat /\ q + v[q] <= End(l[j])
    BY <1>1
  <2>3. HDR \in Nat /\ Len(l) \in Nat
    BY <1>0, LaidFacts, Sizes
  <2>4. CASE i = j
    BY <2>1, <2>2, <2>4
  <2>5. CASE i < j
    <3>1. End(l[i]) <= l[j].addr
      BY <1>0, <2>5 DEF Laid, Ordered
    <3>2. p + v[p] <= q
      BY <2>1, <2>2, <2>3, <3>1
    <3>. QED  BY <3>2
  <2>6. CASE j < i
    <3>1. End(l[j]) <= l[i].addr
      BY <1>0, <2>6 DEF Laid, Ordered
    <3>2. q + v[q] <= p
      BY <2>1, <2>2, <2>3, <3>1
    <3>. QED  BY <3>2
  <2>. QED  BY <2>3, <2>4, <2>5, <2>6
<1>3. ASSUME NEW p \in DOMAIN v  PROVE p \in 0 .. BreakLimit
  <2>1. PICK i \in 1 .. Len(l) : p \in Nat /\ v[p] \in Nat /\ End(l[i]) \in Nat /\ p + v[p] <= End(l[i])
    BY <1>1
  <2>2. End(l[i]) <= b /\ b \in 0 .. BreakLimit
    BY <1>0 DEF Laid, Below
  <2>. QED  BY <2>1, <2>2, Sizes
<1>. QED  BY <1>2, <1>3 DEF H!Apart

\* malloc.c implements Heap: every call gives the program at most one new block,
\* takes back at most one, and never moves, resizes or overlaps another.
THEOREM HeapTheorem == Spec => HeapSpec
<1>1. Init => H!Init
  BY DEF Init, H!Init
<1>2. MallocInv /\ [Next]_vars => [H!Next]_live
  <2>. SUFFICES ASSUME MallocInv, [Next]_vars  PROVE H!Next \/ live' = live
    OBVIOUS
  <2>1. CASE vars' = vars
    BY <2>1 DEF vars
  <2>2. CASE Next
    <3>1. MallocInv' /\ Moves
      BY <2>2, MallocStep
    <3>2. Good(list', brk', got', live')
      BY <3>1 DEF MallocInv
    <3>3. H!Apart(live') /\ DOMAIN live' \subseteq 0 .. BreakLimit
      BY <3>2, GoodApart
    <3>4. CASE \E q, n : q \notin DOMAIN live /\ live' = With(live, q, n)
      <4>1. PICK q, n : q \notin DOMAIN live /\ live' = With(live, q, n)
        BY <3>4
      <4>2. DOMAIN live' = DOMAIN live \cup {q} /\ \A x \in DOMAIN live : live'[x] = live[x]
        BY <4>1 DEF With
      <4>. QED  BY <3>3, <4>2, Zenon DEF H!Next, H!Gone, H!Come, H!Kept
    <3>5. CASE \E p \in DOMAIN live : live' = Without(live, p)
      <4>1. PICK p \in DOMAIN live : live' = Without(live, p)
        BY <3>5
      <4>2. DOMAIN live' = DOMAIN live \ {p} /\ \A x \in DOMAIN live' : live'[x] = live[x]
        BY <4>1 DEF Without, Restrict
      <4>. QED  BY <3>3, <4>2, Zenon DEF H!Next, H!Gone, H!Come, H!Kept
    <3>6. CASE \E p \in DOMAIN live : \E n : live' = With(live, p, n)
      <4>0. PICK p \in DOMAIN live : \E n : live' = With(live, p, n)
        BY <3>6
      <4>1. PICK n : live' = With(live, p, n)
        BY <4>0
      <4>2. DOMAIN live' = DOMAIN live /\ \A x \in DOMAIN live : x # p => live'[x] = live[x]
        BY <4>1 DEF With
      <4>. QED  BY <3>3, <4>2, Zenon DEF H!Next, H!Gone, H!Come, H!Kept
    <3>7. CASE \E p \in DOMAIN live : \E q, n : q \notin DOMAIN live /\ live' = Without(With(live, q, n), p)
      <4>0. PICK p \in DOMAIN live : \E q, n : q \notin DOMAIN live /\ live' = Without(With(live, q, n), p)
        BY <3>7
      <4>1. PICK q, n : q \notin DOMAIN live /\ live' = Without(With(live, q, n), p)
        BY <4>0
      <4>2. /\ DOMAIN live' = (DOMAIN live \cup {q}) \ {p}
            /\ \A x \in DOMAIN live' : x # q => live'[x] = live[x]
        BY <4>1 DEF With, Without, Restrict
      <4>. QED  BY <3>3, <4>1, <4>2, Zenon DEF H!Next, H!Gone, H!Come, H!Kept
    <3>. QED  BY <3>1, <3>4, <3>5, <3>6, <3>7 DEF Moves
  <2>. QED  BY <2>1, <2>2
<1>. QED  BY <1>1, <1>2, MallocInvariance, PTL DEF Spec, HeapSpec, H!Spec
=============================================================================
