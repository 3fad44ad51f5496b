------------------------------ MODULE MCStartup ------------------------------
(***************************************************************************)
(* Machines of 16 frames of 8 bytes: memory maps with a low region that    *)
(* ends inside a page, a hole, a top inside a page, memory up to and from  *)
(* "4 GiB" on, with no module, none but the flag, one and two of them.     *)
(***************************************************************************)
EXTENDS Startup

Region(from, to) == [addr |-> from, len |-> to - from, usable |-> TRUE]
Hole(from, to) == [addr |-> from, len |-> to - from, usable |-> FALSE]

Maps ==
  {{Region(0, 7), Region(8, 88)},
   {Region(0, 8), Region(8, 64), Hole(64, 80), Region(80, 96)},
   {Region(8, 86)},
   {Region(8, 80), Region(112, 128)},
   {Region(8, 80), Region(128, 224)}}

Entry(name, file, size) == [name |-> name, file |-> file, size |-> size]
Archive == <<Entry("dir", FALSE, 0), Entry("a", TRUE, 9), Entry("b", TRUE, 0), Entry("c", TRUE, 4),
             Entry("d", TRUE, 1)>>

Span(start, end) == [start |-> start, end |-> end]
Load(mods, addr, archive) ==
  [info_mods |-> addr # 4, mods |-> mods, mods_addr |-> addr, archive |-> archive]

\* What the loader puts where: no module, an empty table, a table in low memory, behind
\* the bitmap and where nothing is mapped, and archives that are too long, under the
\* bitmap and past the memory that is mapped.
Loads ==
  {Load(<<>>, 4, <<>>), Load(<<>>, 0, <<>>), Load(<<>>, 73, <<>>),
   Load(<<Span(32, 62)>>, 28, Archive),
   Load(<<Span(32, 62)>>, 73, Archive),
   Load(<<Span(32, 56), Span(56, 57)>>, 3, SubSeq(Archive, 1, 3)),
   Load(<<Span(24, 54)>>, 3, Archive),
   Load(<<Span(48, 78)>>, 3, Archive)}

Machine(map, l, info, seen) ==
  [mmap |-> map, info_mods |-> l.info_mods, mods |-> l.mods, mods_addr |-> l.mods_addr,
   archive |-> l.archive, info |-> info, map |-> Span(2, 3), seen |-> seen]

\* Everything is read as it was loaded, struct multiboot_info being in low memory, in
\* memory that is handed out, or where nothing is mapped.
Sound ==
  LET M(map, l, info) == LET m == Machine(map, l, info, <<>>) IN [m EXCEPT !.seen = AsLoaded(m)]
  IN  {M(map, l, Span(0, 2)) : map \in Maps, l \in Loads}
        \cup {M({Region(8, 80)}, Load(<<Span(32, 62)>>, 3, Archive), Span(a, a + 2)) : a \in {64, 28}}

\* The table of modules is under the bitmap, which is filled with ones; what the
\* kernel then finds there, or in the memory map, is a choice of these.
Garbled ==
  LET l == Load(<<Span(32, 62)>>, 20, Archive)
      S(map, mods) == [mmap |-> map, info_mods |-> TRUE, mods |-> mods, mods_addr |-> 20]
  IN  {Machine({Region(8, 64)}, l, Span(0, 2), s) :
         s \in {S({Region(8, 64)}, <<Span(127, 127)>>), S({Region(8, 64)}, <<Span(40, 41)>>),
                S({Region(0, 127)}, <<Span(0, 0)>>), S({}, <<>>)}}

MCMachines == Sound \cup Garbled
=============================================================================
