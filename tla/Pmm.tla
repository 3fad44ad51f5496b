--------------------------------- MODULE Pmm ---------------------------------
(***************************************************************************)
(* The physical frame allocator of pmm.c: one bit per frame and a hint,    *)
(* last_alloc, at which the next search starts.  Frames are numbers; the   *)
(* code's address of frame i is i * PAGE_SIZE, and its "out of memory"     *)
(* answer 0 is the address of frame 0, which boot always reserves.         *)
(*                                                                         *)
(* The first state is the one pmm_initialize leaves, on any machine.  held  *)
(* is the set of frames the callers have been given and have not freed; a  *)
(* caller frees a frame it holds (the address space model shows which      *)
(* callers keep to that).                                                  *)
(***************************************************************************)
EXTENDS Boot

VARIABLES mbi,           \* the machine
          total_frames,
          reserved,      \* the frames set in the bitmap when pmm_initialize ends
          bitmap,        \* the frames whose bit is set in frame_bitmap
          last_alloc,
          held,
          ret            \* what pmm_alloc_frame returned last

machine == <<mbi, total_frames, reserved>>
vars == <<machine, bitmap, last_alloc, held, ret>>

AllFrames == 0 .. total_frames - 1
NoFrame   == 0

ScanPastEnd == total_frames        \* (mutant: i <= total_frames)
ScanEnd == total_frames - 1        \* the last index the loops reach

-----------------------------------------------------------------------------
ClearUntested(bm, S) == S          \* (mutant: frame_test is dropped)
\* The clear bits among the frames S that a loop goes over.
Clear(bm, S) == {i \in S : i \notin bm}

\* What the two loops of pmm_alloc_frame can find.
NoWrapPastHint(bm, hint) == Clear(bm, hint + 1 .. ScanEnd)   \* (mutant: one loop, past the hint)
Candidates(bm, hint) == Clear(bm, hint .. ScanEnd) \cup Clear(bm, 0 .. hint - 1)

\* The index at which pmm_alloc_frame stops: the first clear bit from the hint
\* up, else the first one below the hint, else none.
FitFromNext(bm, hint) ==           \* (mutant: the search starts past the hint)
  LET above == Clear(bm, hint + 1 .. ScanEnd)
      below == Clear(bm, 0 .. hint)
  IN  IF above # {} THEN Min(above)
      ELSE IF below # {} THEN Min(below) ELSE NoFrame
FirstFit(bm, hint) ==
  LET above == Clear(bm, hint .. ScanEnd)
      below == Clear(bm, 0 .. hint - 1)
  IN  IF above # {} THEN Min(above)
      ELSE IF below # {} THEN Min(below) ELSE NoFrame

\* last_alloc after pmm_free_frame(f).
HintNotLowered(hint, f) == hint   \* (mutant: the hint is not lowered)
HintAfterFree(hint, f) == IF f < hint THEN f ELSE hint

Init ==
  /\ mbi \in Machines
  /\ total_frames = TotalFrames(mbi)
  /\ reserved = BootBitmap(mbi)
  /\ bitmap = reserved
  /\ last_alloc = 0
  /\ held = {}
  /\ ret = NoFrame

pmm_alloc_frame ==
  /\ UNCHANGED machine
  /\ LET i == FirstFit(bitmap, last_alloc)
     IN  IF Candidates(bitmap, last_alloc) # {}
         THEN /\ bitmap' = bitmap \cup {i}
              /\ last_alloc' = i
              /\ held' = held \cup {i}
              /\ ret' = i
         ELSE /\ ret' = NoFrame
              /\ UNCHANGED <<bitmap, last_alloc, held>>

pmm_free_frame(f) ==
  /\ f \in held
  /\ bitmap' = bitmap \ {f}
  /\ last_alloc' = HintAfterFree(last_alloc, f)
  /\ held' = held \ {f}
  /\ UNCHANGED <<machine, ret>>

Next == pmm_alloc_frame \/ \E f \in AllFrames : pmm_free_frame(f)

Spec == Init /\ [][Next]_vars

-----------------------------------------------------------------------------
TypeOK ==
  /\ total_frames \in Nat \ {0}
  /\ reserved \subseteq AllFrames /\ NoFrame \in reserved
  /\ bitmap \subseteq AllFrames
  /\ last_alloc \in AllFrames
  /\ held \subseteq AllFrames
  /\ ret \in AllFrames

\* A bit is set exactly for the frames boot reserved and the frames a caller
\* holds: no sequence of pmm_alloc_frame and pmm_free_frame hands a reserved or
\* a held frame out again, or loses one.
Exact == bitmap = reserved \cup held /\ reserved \cap held = {}

\* No frame below the hint is free.  It is why starting the search at last_alloc
\* still finds the lowest free frame, and why the second loop of
\* pmm_alloc_frame ("Wrap around and try from the start") never finds one.
HintSound == \A i \in AllFrames : i < last_alloc => i \in bitmap

\* pmm_alloc_frame hands out the lowest free frame: whatever is given out, every
\* frame below it was in use.
LowestFirst ==
  [][\A f \in held' \ held : \A i \in AllFrames : i < f => i \in bitmap]_vars

\* The allocator implements the pool: it answers "out of memory" only when every
\* frame that is not reserved is held.
Pool == INSTANCE FramePool WITH frames <- AllFrames \ reserved
PoolSpec == Pool!Spec
=============================================================================
