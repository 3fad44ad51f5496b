----------------------------- MODULE UserMemory -----------------------------
(***************************************************************************)
(* What the kernel promises its processes about memory: each has pages of  *)
(* its own, which only it changes.  fork gives the child a copy of the     *)
(* parent's pages as they are at that moment, exec replaces them by the    *)
(* program's image and a stack, sbrk adds zeroed pages or takes pages      *)
(* away, and exit drops them all.                                          *)
(***************************************************************************)
EXTENDS Integers

CONSTANTS Procs,
          Pages,        \* the user part of the address space
          StackPages,
          Values,       \* what a page can hold; 0 is a zeroed page
          Images        \* programs: functions from some of the pages to Values

VARIABLE view           \* view[p][v]: what p finds in page v, or NoPage

NoPage == -1
Empty  == [v \in Pages |-> NoPage]

Init == view = [p \in Procs |-> Empty]

Has(p, m) == view' = [view EXCEPT ![p] = m]

Write(p, v, x) == view[p][v] # NoPage /\ Has(p, [view[p] EXCEPT ![v] = x])

Fork(p, c) == view[c] = Empty /\ Has(c, view[p])

Exec(p, img) ==
  Has(p, [v \in Pages |-> IF v \in DOMAIN img THEN img[v] ELSE NoPage])

\* A stack page holds whatever its frame held before.
Stack(p, v, x) == v \in StackPages /\ view[p][v] = NoPage
                  /\ Has(p, [view[p] EXCEPT ![v] = x])

Grow(p, v) == v \notin StackPages /\ view[p][v] = NoPage
              /\ Has(p, [view[p] EXCEPT ![v] = 0])

\* sbrk with a negative argument, and exit: pages go away, no other changes.
Drop(p) ==
  /\ \A v \in Pages : view'[p][v] \in {view[p][v], NoPage}
  /\ view' = [view EXCEPT ![p] = view'[p]]

Next == \E p \in Procs :
  \/ Drop(p)
  \/ \E c \in Procs \ {p} : Fork(p, c)
  \/ \E img \in Images : Exec(p, img)
  \/ \E v \in Pages : Grow(p, v) \/ \E x \in Values : Write(p, v, x) \/ Stack(p, v, x)

Spec == Init /\ [][Next]_view
=============================================================================
