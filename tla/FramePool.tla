------------------------------ MODULE FramePool ------------------------------
(***************************************************************************)
(* What the physical memory manager promises to its callers (paging.c,     *)
(* process.c, elf.c, syscall.c): a pool of frames, each of which is either *)
(* free or held by one caller.  A request returns some free frame, and     *)
(* fails only when no frame is free.                                       *)
(***************************************************************************)
CONSTANT NoFrame      \* the answer to a request that cannot be served

VARIABLES frames,     \* the frames the pool manages, the same for ever
          held,       \* the frames handed out and not returned
          ret         \* the answer to the last request

Init == held = {} /\ ret = NoFrame

Alloc ==
  \/ \E f \in frames \ held : held' = held \cup {f} /\ ret' = f
  \/ frames \subseteq held /\ held' = held /\ ret' = NoFrame

Free == \E f \in held : held' = held \ {f} /\ ret' = ret

Next == (Alloc \/ Free) /\ UNCHANGED frames

Spec == Init /\ [][Next]_<<frames, held, ret>>
=============================================================================
