---------------------------- MODULE ConsoleProofs ----------------------------
(***************************************************************************)
(* The debugger and the terminal, for any size of the screen, of the line  *)
(* buffer and of the ring: the ring holds the last lines entered, newest   *)
(* first; the cursor stays on the screen; the line of the buffer is what   *)
(* stands behind the prompt; and the rows above the debugger are kept.     *)
(***************************************************************************)
EXTENDS Console, NatMin, SequenceTheorems

Slots == 0 .. HIST_SIZE - 1
Lines == {s \in Seq(Chars) : Len(s) < MAX}

\* The history never holds a line that the buffer cannot.
HistInv ==
  /\ line \in Lines /\ hist \in [Slots -> Lines]
  /\ hist_count \in 0 .. HIST_SIZE /\ hist_next \in Slots /\ hpos \in -1 .. hist_count - 1
  /\ HistoryOrder

\* The entry that holds the line entered pos lines ago, when n is the next one.
SlotOf(n, pos) == (n - 1 - pos + HIST_SIZE * 2) % HIST_SIZE

\* The remainder is taken of a number below 3 * HIST_SIZE.
LEMMA SlotIs ==
  ASSUME NEW n \in Slots, NEW pos \in Slots
  PROVE  SlotOf(n, pos) = IF pos < n THEN n - 1 - pos ELSE n - 1 - pos + HIST_SIZE
<1>0. PICK h \in Nat \ {0} : h = HIST_SIZE
  BY ConsoleAssumption
<1>1. n \in 0 .. h - 1 /\ pos \in 0 .. h - 1
  BY <1>0 DEF Slots
<1>2. CASE pos < n
  <2>1. PICK r \in 0 .. h - 1 : r = n - 1 - pos
    BY <1>1, <1>2
  <2>2. (h * 2 + r) % h = r
    BY DivUnique
  <2>3. n - 1 - pos + h * 2 = h * 2 + r
    BY <1>1, <2>1
  <2>. QED  BY <1>0, <1>2, <2>1, <2>2, <2>3 DEF SlotOf
<1>3. CASE ~(pos < n)
  <2>1. PICK r \in 0 .. h - 1 : r = n - 1 - pos + h
    BY <1>1, <1>3
  <2>2. (h * 1 + r) % h = r
    BY DivUnique
  <2>3. n - 1 - pos + h * 2 = h * 1 + r
    BY <1>1, <2>1
  <2>. QED  BY <1>0, <1>3, <2>1, <2>2, <2>3 DEF SlotOf
<1>. QED  BY <1>2, <1>3

\* hist_next goes around.
LEMMA NextSlot ==
  ASSUME NEW n \in Slots
  PROVE  (n + 1) % HIST_SIZE = IF n + 1 = HIST_SIZE THEN 0 ELSE n + 1
<1>0. PICK h \in Nat \ {0} : h = HIST_SIZE
  BY ConsoleAssumption
<1>1. CASE n + 1 = h
  <2>1. (h * 1 + 0) % h = 0
    BY DivUnique
  <2>. QED  BY <1>0, <1>1, <2>1
<1>2. CASE n + 1 # h
  <2>1. PICK r \in 0 .. h - 1 : r = n + 1
    BY <1>0, <1>2 DEF Slots
  <2>2. (h * 0 + r) % h = r
    BY DivUnique
  <2>. QED  BY <1>0, <1>2, <2>1, <2>2
<1>. QED  BY <1>0, <1>1, <1>2

\* After an entry everything is one line older, and the oldest slot is overwritten.
LEMMA OneOlder ==
  ASSUME NEW n \in Slots, NEW m, m = (n + 1) % HIST_SIZE
  PROVE  /\ m \in Slots /\ SlotOf(m, 0) = n
         /\ \A pos \in Slots : SlotOf(n, pos) \in Slots
         /\ \A pos \in 1 .. HIST_SIZE - 1 : SlotOf(m, pos) = SlotOf(n, pos - 1) /\ SlotOf(m, pos) # n
<1>0. PICK h \in Nat \ {0} : h = HIST_SIZE
  BY ConsoleAssumption
<1>1. n \in 0 .. h - 1 /\ Slots = 0 .. h - 1 /\ 0 \in Slots
  BY <1>0 DEF Slots
<1>2. m = IF n + 1 = h THEN 0 ELSE n + 1
  BY <1>0, NextSlot
<1>3. m \in Slots /\ m \in Int
  BY <1>0, <1>1, <1>2
<1>4. SlotOf(m, 0) = IF 0 < m THEN m - 1 - 0 ELSE m - 1 - 0 + h
  BY <1>0, <1>1, <1>3, SlotIs
<1>5. \A pos \in Slots : SlotOf(n, pos) = IF pos < n THEN n - 1 - pos ELSE n - 1 - pos + h
  BY <1>0, SlotIs
<1>6. \A pos \in Slots : SlotOf(m, pos) = IF pos < m THEN m - 1 - pos ELSE m - 1 - pos + h
  BY <1>0, <1>3, SlotIs
<1>7. SlotOf(m, 0) = n
  BY <1>0, <1>1, <1>2, <1>4
<1>8. \A pos \in Slots : SlotOf(n, pos) \in Slots
  BY <1>0, <1>1, <1>5
<1>9. ASSUME NEW pos \in 1 .. HIST_SIZE - 1
      PROVE  SlotOf(m, pos) = SlotOf(n, pos - 1) /\ SlotOf(m, pos) # n
  <2>1. pos \in Slots /\ pos - 1 \in Slots /\ pos \in Int
    BY <1>0, <1>1
  <2>2. SlotOf(m, pos) = IF pos < m THEN m - 1 - pos ELSE m - 1 - pos + h
    BY <1>6, <2>1
  <2>3. SlotOf(n, pos - 1) = IF pos - 1 < n THEN n - 1 - (pos - 1) ELSE n - 1 - (pos - 1) + h
    BY <1>5, <2>1
  <2>. QED  BY <1>0, <1>1, <1>2, <2>1, <2>2, <2>3
<1>. QED  BY <1>3, <1>7, <1>8, <1>9

-----------------------------------------------------------------------------
\* A sequence without its last element.
LEMMA FrontIs ==
  ASSUME NEW S, NEW s \in Seq(S), s # <<>>
  PROVE  /\ Front(s) \in Seq(S) /\ Len(Front(s)) = Len(s) - 1
         /\ \A i \in 1 .. Len(s) - 1 : Front(s)[i] = s[i]
<1>1. Len(s) \in Nat \ {0}
  BY EmptySeq
<1>2. PICK k \in Int : k = Len(s) - 1 /\ k >= 0
  BY <1>1
<1>3. \A i \in 1 .. k : s[i] \in S
  BY <1>1, <1>2, ElementOfSeq
<1>4. /\ SubSeq(s, 1, k) \in Seq(S)
      /\ Len(SubSeq(s, 1, k)) = IF 1 <= k THEN k - 1 + 1 ELSE 0
      /\ \A i \in 1 .. k - 1 + 1 : SubSeq(s, 1, k)[i] = s[1 + i - 1]
  BY <1>3, SubSeqProperties
<1>5. PICK f : f = SubSeq(s, 1, k)
  OBVIOUS
<1>6. Len(f) = k /\ \A i \in 1 .. k : f[i] = s[i]
  BY <1>2, <1>4, <1>5
<1>. QED  BY <1>2, <1>4, <1>5, <1>6 DEF Front

\* The lines that fit into the buffer, as the editor changes them.
LEMMA LineKept ==
  /\ <<>> \in Lines
  /\ \A s \in Lines, c \in Chars : Len(s) < MAX - 1 => Append(s, c) \in Lines
  /\ \A s \in Lines : s # <<>> => Front(s) \in Lines
<1>0. MAX \in Nat \ {0}
  BY ConsoleAssumption
<1>1. <<>> \in Lines
  BY <1>0 DEF Lines
<1>2. ASSUME NEW s \in Lines, NEW c \in Chars, Len(s) < MAX - 1  PROVE Append(s, c) \in Lines
  <2>1. s \in Seq(Chars) /\ Len(s) \in Nat
    BY LenProperties DEF Lines
  <2>2. Append(s, c) \in Seq(Chars) /\ Len(Append(s, c)) = Len(s) + 1
    BY <2>1, AppendProperties
  <2>. QED  BY <1>0, <1>2, <2>1, <2>2 DEF Lines
<1>3. ASSUME NEW s \in Lines, s # <<>>  PROVE Front(s) \in Lines
  <2>1. s \in Seq(Chars) /\ Len(s) \in Nat \ {0} /\ Len(s) < MAX
    BY <1>3, EmptySeq DEF Lines
  <2>2. Front(s) \in Seq(Chars) /\ Len(Front(s)) = Len(s) - 1
    BY <1>3, <2>1, FrontIs
  <2>. QED  BY <1>0, <2>1, <2>2 DEF Lines
<1>. QED  BY <1>1, <1>2, <1>3

\* hist_get reads a slot of the ring for every line it holds.
LEMMA HistGet ==
  ASSUME HistInv, NEW pos \in 0 .. hist_count - 1
  PROVE  hist_get(pos) \in Lines
<1>1. pos \in Slots /\ hist_next \in Slots
  BY ConsoleAssumption DEF HistInv, Slots
<1>2. SlotOf(hist_next, pos) \in Slots
  BY <1>1, OneOlder
<1>. QED  BY <1>2 DEF HistInv, hist_get, SlotOf

\* Everything but Enter leaves the history as it is.
LEMMA EditorKeeps ==
  ASSUME HistInv, UNCHANGED <<hist, hist_count, hist_next, said>>,
         line' \in Lines, hpos' \in -1 .. hist_count - 1
  PROVE  HistInv'
BY DEF HistInv, HistoryOrder, hist_get

\* The ring g, with n the next slot and cnt lines, stands for the sequence s; and
\* what Enter does to the two of them with line x.
IsRing(g, n, cnt, s) ==
  /\ g \in [Slots -> Lines] /\ n \in Slots /\ cnt \in 0 .. HIST_SIZE
  /\ s = [p \in 1 .. cnt |-> g[SlotOf(n, p - 1)]]
Push(x, g, n, cnt, s, f, m, c, t) ==
  /\ f = [g EXCEPT ![n] = x] /\ m = (n + 1) % HIST_SIZE
  /\ c = IF cnt < HIST_SIZE THEN cnt + 1 ELSE cnt
  /\ t = <<x>> \o (IF Len(s) = HIST_SIZE THEN Front(s) ELSE s)

\* What a ring stands for has a line for every entry.
LEMMA RingSeq ==
  ASSUME NEW g, NEW n, NEW cnt, NEW s, IsRing(g, n, cnt, s)
  PROVE  /\ s \in Seq(Lines) /\ Len(s) = cnt
         /\ \A p \in 1 .. cnt : s[p] = g[SlotOf(n, p - 1)]
<1>0. PICK h \in Nat \ {0} : h = HIST_SIZE
  BY ConsoleAssumption
<1>1. /\ g \in [Slots -> Lines] /\ n \in Slots /\ cnt \in 0 .. h /\ cnt \in Nat
      /\ s = [p \in 1 .. cnt |-> g[SlotOf(n, p - 1)]] /\ Slots = 0 .. h - 1
  BY <1>0 DEF IsRing, Slots
<1>2. ASSUME NEW p \in 1 .. cnt  PROVE g[SlotOf(n, p - 1)] \in Lines
  <2>1. p - 1 \in Slots
    BY <1>1
  <2>2. SlotOf(n, p - 1) \in Slots
    BY <1>1, <2>1, OneOlder
  <2>. QED  BY <1>1, <2>2
<1>3. s \in [1 .. cnt -> Lines]
  BY <1>1, <1>2
<1>4. s \in Seq(Lines)
  BY <1>1, <1>3, SeqDef
<1>5. Len(s) = cnt
  <2>1. DOMAIN s = 1 .. Len(s) /\ Len(s) \in Nat /\ DOMAIN s = 1 .. cnt
    BY <1>3, <1>4, LenProperties
  <2>. QED  BY <1>1, <2>1
<1>. QED  BY <1>1, <1>4, <1>5

\* HistoryOrder says that the ring of the debugger stands for said.
LEMMA HistRing == HistInv => IsRing(hist, hist_next, hist_count, said)
BY DEF HistInv, HistoryOrder, hist_get, IsRing, SlotOf

\* A line that is not remembered is the newest one again, or empty.
LEMMA NotRemembered ==
  ASSUME HistInv
  PROVE  (said # <<>> /\ Head(said) = line) <=> (hist_count > 0 /\ hist_get(0) = line)
<1>1. said \in Seq(Lines) /\ Len(said) = hist_count /\ hist_count \in Nat
  BY HistRing, RingSeq, ConsoleAssumption DEF HistInv
<1>2. (said # <<>>) <=> (hist_count > 0)
  BY <1>1, EmptySeq
<1>3. ASSUME hist_count > 0  PROVE Head(said) = hist_get(0)
  <2>1. 1 \in 1 .. hist_count /\ 1 - 1 = 0
    BY <1>1, <1>3
  <2>2. said[1] = hist[SlotOf(hist_next, 0)]
    BY <2>1, HistRing, RingSeq
  <2>3. Head(said) = said[1]
    BY <1>1, <1>2, <1>3, HeadTailProperties
  <2>. QED  BY <2>2, <2>3 DEF hist_get, SlotOf
<1>. QED  BY <1>2, <1>3

\* Pushing a line on a ring is pushing it on the sequence the ring stands for: the
\* oldest line goes when there is no slot left.
LEMMA Pushed ==
  ASSUME NEW x \in Lines, NEW g, NEW n, NEW cnt, NEW s, NEW f, NEW m, NEW c, NEW t,
         IsRing(g, n, cnt, s), Push(x, g, n, cnt, s, f, m, c, t)
  PROVE  IsRing(f, m, c, t)
<1>0. PICK h \in Nat \ {0} : h = HIST_SIZE
  BY ConsoleAssumption
<1>1. /\ Slots = 0 .. h - 1 /\ n \in 0 .. h - 1 /\ cnt \in 0 .. h /\ cnt \in Nat
      /\ g \in [Slots -> Lines]
  BY <1>0 DEF IsRing, Slots
<1>seq. s \in Seq(Lines) /\ Len(s) = cnt /\ \A p \in 1 .. cnt : s[p] = g[SlotOf(n, p - 1)]
  BY RingSeq
<1>cnt. c = IF cnt < h THEN cnt + 1 ELSE cnt
  BY <1>0 DEF Push
<1>2. c \in 1 .. h /\ c \in Nat /\ c <= cnt + 1
  BY <1>1, <1>cnt
<1>3. f \in [Slots -> Lines] /\ f[n] = x /\ \A i \in Slots : i # n => f[i] = g[i]
  BY <1>1 DEF Push
<1>4. /\ m \in Slots /\ SlotOf(m, 0) = n
      /\ \A pos \in Slots : SlotOf(n, pos) \in Slots
      /\ \A pos \in 1 .. HIST_SIZE - 1 : SlotOf(m, pos) = SlotOf(n, pos - 1) /\ SlotOf(m, pos) # n
  <2>1. n \in Slots /\ m = (n + 1) % HIST_SIZE
    BY <1>1 DEF Push
  <2>. QED  BY <2>1, OneOlder
<1>5. PICK old : old = IF Len(s) = h THEN Front(s) ELSE s
  OBVIOUS
<1>6. old \in Seq(Lines) /\ Len(old) = c - 1 /\ \A i \in 1 .. c - 1 : old[i] = s[i]
  <2>1. CASE cnt = h
    <3>1. s # <<>> /\ old = Front(s) /\ c = cnt
      BY <1>0, <1>1, <1>seq, <1>cnt, <1>5, <2>1, EmptySeq
    <3>. QED  BY <1>seq, <3>1, FrontIs
  <2>2. CASE cnt # h
    <3>1. old = s /\ c = cnt + 1
      BY <1>1, <1>seq, <1>cnt, <1>5, <2>2
    <3>. QED  BY <1>1, <1>seq, <3>1
  <2>. QED  BY <2>1, <2>2
<1>7. PICK new : new = <<x>>
  OBVIOUS
<1>8. new \in Seq(Lines) /\ Len(new) = 1 /\ new[1] = x
  BY <1>7
<1>9. /\ new \o old \in Seq(Lines) /\ Len(new \o old) = Len(new) + Len(old)
      /\ \A i \in 1 .. Len(new) + Len(old) :
            (new \o old)[i] = IF i <= Len(new) THEN new[i] ELSE old[i - Len(new)]
  BY <1>6, <1>8, ConcatProperties
<1>10. t = new \o old
  BY <1>0, <1>5, <1>7 DEF Push
<1>11. t \in Seq(Lines) /\ Len(t) = c /\ 1 + Len(old) = c
  <2>1. 1 + Len(old) = c
    BY <1>2, <1>6
  <2>2. t \in Seq(Lines) /\ Len(t) = 1 + Len(old)
    BY <1>8, <1>9, <1>10
  <2>. QED  BY <2>1, <2>2
<1>12. ASSUME NEW p \in 1 .. c  PROVE t[p] = f[SlotOf(m, p - 1)]
  <2>0. p \in Int /\ t[p] = IF p <= 1 THEN new[p] ELSE old[p - 1]
    BY <1>2, <1>8, <1>9, <1>10, <1>11
  <2>1. CASE p = 1
    <3>1. t[p] = x /\ p - 1 = 0
      BY <1>8, <2>0, <2>1
    <3>. QED  BY <1>3, <1>4, <3>1
  <2>2. CASE p # 1
    <3>1. p - 1 \in 1 .. h - 1 /\ p - 1 \in 1 .. c - 1 /\ p - 1 \in 1 .. cnt /\ p - 1 - 1 \in Slots
      BY <1>1, <1>2, <2>0, <2>2
    <3>2. t[p] = s[p - 1]
      <4>1. ~(p <= 1)
        BY <2>0, <3>1
      <4>2. t[p] = old[p - 1]
        BY <2>0, <4>1
      <4>. QED  BY <1>6, <3>1, <4>2
    <3>3. s[p - 1] = g[SlotOf(n, p - 1 - 1)]
      BY <1>seq, <3>1
    <3>4. /\ SlotOf(m, p - 1) = SlotOf(n, p - 1 - 1) /\ SlotOf(m, p - 1) # n
          /\ SlotOf(n, p - 1 - 1) \in Slots
      BY <1>0, <1>4, <3>1
    <3>. QED  BY <1>3, <3>2, <3>3, <3>4
  <2>. QED  BY <2>1, <2>2
<1>13. t = [p \in 1 .. c |-> f[SlotOf(m, p - 1)]]
  <2>1. DOMAIN t = 1 .. c
    BY <1>11, LenProperties
  <2>2. t = [p \in DOMAIN t |-> t[p]]
    BY <1>11
  <2>. QED  BY <1>12, <2>1, <2>2
<1>14. c \in 0 .. HIST_SIZE
  BY <1>0, <1>2
<1>. QED  BY <1>3, <1>4, <1>13, <1>14 DEF IsRing

-----------------------------------------------------------------------------
\* Enter, whether or not the line is remembered.
LEMMA KeyEnter == HistInv /\ key_enter => HistInv'
<1>. SUFFICES ASSUME HistInv, key_enter  PROVE HistInv'
  OBVIOUS
<1>1. line' = <<>> /\ hpos' = -1
  BY DEF key_enter, Ready
<1>2. line' \in Lines
  BY <1>1, LineKept
<1>3. CASE Remembered
  <2>1. said' = <<line>> \o (IF Len(said) = HIST_SIZE THEN Front(said) ELSE said)
    BY <1>3, NotRemembered DEF key_enter, Remembered
  <2>2. Push(line, hist, hist_next, hist_count, said, hist', hist_next', hist_count', said')
    BY <1>3, <2>1 DEF key_enter, hist_add, Push
  <2>3. IsRing(hist', hist_next', hist_count', said')
    BY <2>2, HistRing, Pushed DEF HistInv
  <2>4. HistoryOrder'
    BY <2>3 DEF HistoryOrder, hist_get, IsRing, SlotOf
  <2>5. hpos' \in -1 .. hist_count' - 1
    <3>1. PICK c \in Nat : c = hist_count'
      BY <2>3, ConsoleAssumption DEF IsRing
    <3>2. -1 \in -1 .. c - 1
      OBVIOUS
    <3>. QED  BY <1>1, <3>1, <3>2
  <2>. QED  BY <1>2, <2>3, <2>4, <2>5 DEF HistInv, IsRing
<1>4. CASE ~Remembered
  <2>1. UNCHANGED <<hist, hist_next, hist_count>> /\ said' = said
    BY <1>4, NotRemembered DEF key_enter, hist_add, Remembered
  <2>2. hpos' \in -1 .. hist_count - 1
    BY <1>1, ConsoleAssumption DEF HistInv
  <2>. QED  BY <1>2, <2>1, <2>2, EditorKeeps
<1>. QED  BY <1>3, <1>4

\* A recalled line fits: up stops at the oldest, down at the empty line.
LEMMA KeyRecall ==
  ASSUME HistInv, NEW pos \in -1 .. hist_count - 1, Replace(pos)
  PROVE  HistInv'
<1>1. hist_count \in Nat
  BY ConsoleAssumption DEF HistInv
<1>2. line' \in Lines
  <2>1. CASE pos >= 0
    <3>1. pos \in 0 .. hist_count - 1
      BY <1>1, <2>1
    <3>. QED  BY <2>1, <3>1, HistGet DEF Replace
  <2>2. CASE ~(pos >= 0)
    BY <2>2, LineKept DEF Replace
  <2>. QED  BY <2>1, <2>2
<1>. QED  BY <1>2, EditorKeeps DEF Replace

\* Every key, and every text printed.
LEMMA HistStep == HistInv /\ [Next]_vars => HistInv'
<1>. SUFFICES ASSUME HistInv, [Next]_vars  PROVE HistInv'
  OBVIOUS
<1>0. /\ line \in Lines /\ hist_count \in Nat /\ hpos \in Int
      /\ -1 <= hpos /\ hpos <= hist_count - 1
  BY ConsoleAssumption DEF HistInv
<1>1. CASE UNCHANGED vars
  BY <1>1, EditorKeeps DEF vars, HistInv
<1>2. ASSUME NEW s \in Texts, print(s)  PROVE HistInv'
  BY <1>2, EditorKeeps DEF print, HistInv
<1>3. CASE kdb_enter
  <2>1. line' \in Lines
    BY <1>3, LineKept DEF kdb_enter, Ready
  <2>2. hpos' \in -1 .. hist_count - 1
    BY <1>0, <1>3 DEF kdb_enter, Ready
  <2>. QED  BY <1>3, <2>1, <2>2, EditorKeeps DEF kdb_enter
<1>4. ASSUME NEW c \in Chars, key_char(c)  PROVE HistInv'
  <2>1. line' \in Lines
    BY <1>0, <1>4, LineKept DEF key_char
  <2>. QED  BY <1>4, <2>1, EditorKeeps DEF key_char, HistInv
<1>5. CASE scan_prefix
  BY <1>5, EditorKeeps DEF scan_prefix, HistInv
<1>6. CASE scan_ignored
  BY <1>6, EditorKeeps DEF scan_ignored, HistInv
<1>7. CASE key_backspace
  <2>1. line' \in Lines
    BY <1>0, <1>7, LineKept DEF key_backspace
  <2>. QED  BY <1>7, <2>1, EditorKeeps DEF key_backspace, HistInv
<1>8. CASE key_up
  <2>1. hpos + 1 \in -1 .. hist_count - 1 /\ Replace(hpos + 1)
    BY <1>0, <1>8 DEF key_up
  <2>. QED  BY <2>1, KeyRecall
<1>9. CASE key_down
  <2>1. hpos - 1 \in -1 .. hist_count - 1 /\ Replace(hpos - 1)
    BY <1>0, <1>9 DEF key_down
  <2>. QED  BY <2>1, KeyRecall
<1>10. CASE key_enter
  BY <1>10, KeyEnter
<1>. QED  BY <1>1, <1>2, <1>3, <1>4, <1>5, <1>6, <1>7, <1>8, <1>9, <1>10 DEF Next

\* The ring starts empty.
LEMMA HistInit == Init => HistInv
<1>. SUFFICES ASSUME Init  PROVE HistInv
  OBVIOUS
<1>1. line \in Lines /\ hist \in [Slots -> Lines]
  BY LineKept DEF Init, Slots
<1>2. hist_count \in 0 .. HIST_SIZE /\ hist_next \in Slots /\ hpos \in -1 .. hist_count - 1
  BY ConsoleAssumption DEF Init, Slots
<1>3. said = [p \in 1 .. hist_count |-> hist_get(p - 1)]
  <2>1. said = <<>> /\ 1 .. hist_count = {}
    BY DEF Init
  <2>. QED  BY <2>1
<1>. QED  BY <1>1, <1>2, <1>3 DEF HistInv, HistoryOrder

\* The buffer and the ring of the debugger: the line is always shorter than the
\* buffer, a recalled one too, the indices of kdb_readline and of hist_add stay
\* inside of their arrays, and the ring holds the newest lines in order.
THEOREM HistoryInvariance == Spec => []HistInv
BY HistInit, HistStep, PTL DEF Spec

\* Going up in the history shows the last lines entered, newest first, without
\* empty lines and immediate repetitions, also when the ring has wrapped around.
THEOREM HistoryTheorem == Spec => []HistoryOrder
<1>1. HistInv => HistoryOrder
  BY DEF HistInv
<1>. QED  BY <1>1, HistoryInvariance, PTL

-----------------------------------------------------------------------------
(***************************************************************************)
(* The screen.  Its cells are counted from the top left, row by row, and   *)
(* a terminal is described by what stands in cell n.                       *)
(***************************************************************************)
Glyphs == {Blank, NL, BS, TAB} \cup Chars \cup UNION {Range(s) : s \in Texts \cup Outputs \cup {Banner, Prompt}}
Row == [1 .. W -> Glyphs]
Screens ==
  [cell : [1 .. H -> Row], row : 0 .. H - 1, column : 0 .. W - 1, anchor : 0 .. H - 1, above : Seq(Row)]

Area == 0 .. W * H - 1
At(t, n) == t.cell[(n \div W) + 1][(n % W) + 1]
Cur(t) == t.row * W + t.column

LEMMA Dims == W \in Nat \ {0} /\ H \in Nat \ {0} /\ W * H \in Nat /\ W * (H - 1) \in Nat
BY ConsoleAssumption

\* The cells of a row come before those of the next.
LEMMA RowsApart ==
  ASSUME NEW y \in Nat, NEW x \in 0 .. W - 1, NEW k \in Nat
  PROVE  /\ W * y + x \in Nat
         /\ y < k <=> W * y + x < W * k
         /\ k <= y <=> W * k <= W * y + x
<1>1. W \in Nat \ {0}
  BY Dims
<1>2. PICK n \in Nat : n = W * y + x
  BY <1>1
<1>3. n \div W = y
  BY <1>1, <1>2, DivUnique
<1>4. (n \div W < k <=> n < W * k) /\ (k <= n \div W <=> W * k <= n)
  BY <1>1, DivLess
<1>. QED  BY <1>2, <1>3, <1>4

\* A cell has one row and one column.
LEMMA CellIn ==
  ASSUME NEW y \in 0 .. H - 1, NEW x \in 0 .. W - 1
  PROVE  /\ W * y + x \in Area /\ (W * y + x) \div W = y /\ (W * y + x) % W = x
         /\ \A t : At(t, W * y + x) = t.cell[y + 1][x + 1]
<1>1. W \in Nat \ {0} /\ H \in Nat \ {0} /\ y \in Nat
  BY Dims
<1>2. PICK n \in Nat : n = W * y + x /\ n < W * H
  <2>1. y < H
    BY <1>1
  <2>2. W * y + x \in Nat /\ W * y + x < W * H
    BY <1>1, <2>1, RowsApart
  <2>. QED  BY <2>2
<1>3. n \div W = y /\ n % W = x
  BY <1>1, <1>2, DivUnique
<1>4. n \in Area
  BY <1>1, <1>2, Dims DEF Area
<1>. QED  BY <1>2, <1>3, <1>4 DEF At

LEMMA CellOut ==
  ASSUME NEW n \in Area
  PROVE  \E y \in 0 .. H - 1, x \in 0 .. W - 1 : n = W * y + x
<1>1. W \in Nat \ {0} /\ H \in Nat \ {0} /\ n \in Nat /\ n < W * H
  BY Dims DEF Area
<1>2. PICK q \in Nat, r \in 0 .. W - 1 : n = W * q + r
  BY <1>1, DivMod
<1>3. q < H
  BY <1>1, <1>2, RowsApart
<1>. QED  BY <1>1, <1>2, <1>3

\* What a typed terminal is.
LEMMA ScreenFacts ==
  ASSUME NEW t \in Screens
  PROVE  /\ t.cell \in [1 .. H -> Row] /\ t.cell \in Seq(Row) /\ Len(t.cell) = H
         /\ t.row \in 0 .. H - 1 /\ t.column \in 0 .. W - 1 /\ t.anchor \in 0 .. H - 1
         /\ t.above \in Seq(Row) /\ t.row \in Nat /\ t.column \in Nat /\ t.anchor \in Nat
<1>1. /\ t.cell \in [1 .. H -> Row] /\ t.row \in 0 .. H - 1 /\ t.column \in 0 .. W - 1
      /\ t.anchor \in 0 .. H - 1 /\ t.above \in Seq(Row)
  BY DEF Screens
<1>2. H \in Nat /\ W \in Nat
  BY Dims
<1>3. t.cell \in Seq(Row)
  BY <1>1, <1>2, SeqDef
<1>4. Len(t.cell) = H
  <2>1. DOMAIN t.cell = 1 .. Len(t.cell) /\ Len(t.cell) \in Nat /\ DOMAIN t.cell = 1 .. H
    BY <1>1, <1>3, LenProperties
  <2>. QED  BY <1>2, <2>1
<1>5. t.row \in Nat /\ t.column \in Nat /\ t.anchor \in Nat
  BY <1>1, <1>2
<1>. QED  BY <1>1, <1>3, <1>4, <1>5

\* Where the cursor is.
LEMMA CursorIs ==
  ASSUME NEW t \in Screens
  PROVE  /\ Cur(t) = W * t.row + t.column /\ Cur(t) \in Area /\ Cur(t) \in Nat /\ Cur(t) < W * H
         /\ \A y \in 0 .. H - 1, x \in 0 .. W - 1 : W * y + x = Cur(t) <=> y = t.row /\ x = t.column
<1>1. W \in Nat \ {0} /\ H \in Nat \ {0}
  BY Dims
<1>2. PICK r \in 0 .. H - 1, c \in 0 .. W - 1 : r = t.row /\ c = t.column
  BY ScreenFacts
<1>3. Cur(t) = W * r + c
  BY <1>1, <1>2 DEF Cur
<1>4. Cur(t) \in Area /\ Cur(t) \div W = r /\ Cur(t) % W = c
  BY <1>3, CellIn
<1>5. Cur(t) \in Nat /\ Cur(t) < W * H
  BY <1>1, <1>4, Dims DEF Area
<1>6. ASSUME NEW y \in 0 .. H - 1, NEW x \in 0 .. W - 1, W * y + x = Cur(t)  PROVE y = r /\ x = c
  <2>1. (W * y + x) \div W = y /\ (W * y + x) % W = x
    BY CellIn
  <2>. QED  BY <1>4, <1>6, <2>1
<1>. QED  BY <1>2, <1>3, <1>4, <1>5, <1>6

\* The cells go up by d, and the anchor and the rows above it go with them.
Shifted(t, u, d) ==
  /\ \A n \in Area : At(u, n) = IF n + d < W * H THEN At(t, n + d) ELSE Blank
  /\ d = 0 => u.anchor = t.anchor /\ u.above = t.above
  /\ d # 0 => /\ u.anchor = AnchorAfterScroll(t.anchor)
              /\ u.above = IF t.above = <<>> THEN t.above ELSE Tail(t.above)

LEMMA Scrolled ==
  ASSUME NEW t \in Screens, NEW u, u = terminal_scroll(t)
  PROVE  u \in Screens /\ u.row = t.row /\ u.column = t.column /\ Shifted(t, u, W)
<1>0. W \in Nat \ {0} /\ H \in Nat \ {0} /\ W * H \in Nat
  BY Dims
<1>1. /\ u.cell = Append(Tail(t.cell), BlankRow) /\ u.row = t.row /\ u.column = t.column
      /\ u.anchor = AnchorAfterScroll(t.anchor)
      /\ u.above = IF t.above = <<>> THEN t.above ELSE Tail(t.above)
  BY DEF terminal_scroll, Screens
<1>2. BlankRow \in Row
  BY DEF BlankRow, Row, Glyphs
<1>3. t.cell \in Seq(Row) /\ Len(t.cell) = H
  BY ScreenFacts
<1>4. t.cell # <<>>
  BY <1>0, <1>3
<1>5. /\ Tail(t.cell) \in Seq(Row) /\ Len(Tail(t.cell)) = H - 1
      /\ \A y \in 1 .. H - 1 : Tail(t.cell)[y] = t.cell[y + 1]
  BY <1>0, <1>3, <1>4, HeadTailProperties
<1>6. PICK tl : tl = Tail(t.cell)
  OBVIOUS
<1>7. u.cell = Append(tl, BlankRow) /\ tl \in Seq(Row) /\ Len(tl) = H - 1
  BY <1>1, <1>5, <1>6
<1>8. /\ u.cell \in Seq(Row) /\ Len(u.cell) = H
      /\ \A y \in 1 .. H - 1 : u.cell[y] = tl[y]
      /\ u.cell[H] = BlankRow
  BY <1>0, <1>2, <1>7, AppendProperties
<1>9. u.cell \in [1 .. H -> Row]
  BY <1>8, LenProperties
<1>10. \A y \in 1 .. H - 1 : u.cell[y] = t.cell[y + 1]
  BY <1>5, <1>6, <1>8
<1>11. AnchorAfterScroll(t.anchor) \in 0 .. H - 1
  BY <1>0, ScreenFacts DEF AnchorAfterScroll
<1>12. u.above \in Seq(Row)
  <2>1. t.above \in Seq(Row)
    BY ScreenFacts
  <2>2. t.above # <<>> => Tail(t.above) \in Seq(Row)
    BY <2>1, HeadTailProperties
  <2>. QED  BY <1>1, <2>1, <2>2
<1>13. u \in Screens
  <2>1. u = [cell |-> u.cell, row |-> u.row, column |-> u.column, anchor |-> u.anchor, above |-> u.above]
    BY DEF terminal_scroll, Screens
  <2>2. u.row \in 0 .. H - 1 /\ u.column \in 0 .. W - 1 /\ u.anchor \in 0 .. H - 1
    BY <1>1, <1>11, ScreenFacts
  <2>. QED  BY <1>9, <1>12, <2>1, <2>2 DEF Screens
<1>14. ASSUME NEW n \in Area  PROVE At(u, n) = IF n + W < W * H THEN At(t, n + W) ELSE Blank
  <2>1. PICK y \in 0 .. H - 1, x \in 0 .. W - 1 : n = W * y + x
    BY CellOut
  <2>2. At(u, n) = u.cell[y + 1][x + 1]
    BY <2>1, CellIn
  <2>3. n + W = W * (y + 1) + x /\ y + 1 \in Nat
    BY <1>0, <2>1
  <2>4. n + W < W * H <=> y + 1 < H
    BY <1>0, <2>3, RowsApart
  <2>5. CASE y + 1 < H
    <3>1. PICK z \in 0 .. H - 1 : z = y + 1
      BY <1>0, <2>5
    <3>2. At(t, n + W) = t.cell[z + 1][x + 1]
      BY <2>3, <3>1, CellIn
    <3>3. y + 1 \in 1 .. H - 1
      BY <1>0, <2>5
    <3>4. u.cell[y + 1] = t.cell[y + 1 + 1]
      BY <1>10, <3>3
    <3>. QED  BY <2>2, <2>4, <2>5, <3>1, <3>2, <3>4
  <2>6. CASE ~(y + 1 < H)
    <3>1. y + 1 = H /\ x + 1 \in 1 .. W
      BY <1>0, <2>6
    <3>2. BlankRow[x + 1] = Blank
      BY <3>1 DEF BlankRow
    <3>. QED  BY <1>8, <2>2, <2>4, <2>6, <3>1, <3>2
  <2>. QED  BY <2>5, <2>6
<1>. QED  BY <1>0, <1>1, <1>13, <1>14 DEF Shifted

\* Another place for the cursor, with everything else as it was.
Moves(t, u, r, c) == u = [t EXCEPT !.column = c, !.row = r]
Same(t, u) == u.anchor = t.anchor /\ u.above = t.above /\ \A n : At(u, n) = At(t, n)

LEMMA CursorSet ==
  ASSUME NEW t \in Screens, NEW r \in 0 .. H - 1, NEW c \in 0 .. W - 1,
         NEW u, Moves(t, u, r, c)
  PROVE  u \in Screens /\ u.row = r /\ u.column = c /\ Cur(u) = W * r + c /\ Same(t, u)
<1>1. /\ u \in Screens /\ u.row = r /\ u.column = c /\ u.anchor = t.anchor /\ u.above = t.above
      /\ u.cell = t.cell
  BY DEF Screens, Moves
<1>2. Cur(u) = W * r + c
  BY <1>1, CursorIs
<1>. QED  BY <1>1, <1>2 DEF At, Same

\* The row below, at the bottom of the screen by scrolling.
LEMMA BelowIs ==
  ASSUME NEW t \in Screens, NEW u, u = RowBelow(t)
  PROVE  /\ u \in Screens
         /\ \E d \in {0, W} : /\ Shifted(t, u, d) /\ Cur(u) = W * (t.row + 1) - d
                              /\ d # 0 => Cur(u) = W * (H - 1)
<1>0. W \in Nat \ {0} /\ H \in Nat \ {0} /\ t.row \in 0 .. H - 1 /\ t.row \in Nat /\ W * H \in Nat
  BY Dims, ScreenFacts
<1>z. 0 \in 0 .. W - 1
  BY <1>0
<1>1. CASE t.row + 1 = H
  <2>1. PICK v : v = terminal_scroll(t)
    OBVIOUS
  <2>2. v \in Screens /\ Shifted(t, v, W)
    BY <2>1, Scrolled
  <2>r. PICK r \in 0 .. H - 1 : r = H - 1
    BY <1>0
  <2>3. Moves(v, u, r, 0)
    BY <1>1, <2>1, <2>r DEF RowBelow, Moves
  <2>4. u \in Screens /\ Cur(u) = W * r + 0 /\ Same(v, u)
    BY <1>z, <2>2, <2>3, CursorSet
  <2>5. Shifted(t, u, W)
    BY <2>2, <2>4 DEF Shifted, Same
  <2>6. Cur(u) = W * (H - 1) /\ Cur(u) = W * (t.row + 1) - W
    BY <1>0, <1>1, <2>4, <2>r
  <2>. QED  BY <2>4, <2>5, <2>6
<1>2. CASE t.row + 1 # H
  <2>1. PICK r \in 0 .. H - 1 : r = t.row + 1
    BY <1>0, <1>2
  <2>2. Moves(t, u, r, 0)
    BY <1>2, <2>1 DEF RowBelow, Moves
  <2>3. u \in Screens /\ Cur(u) = W * r + 0 /\ Same(t, u)
    BY <1>z, <2>2, CursorSet
  <2>4. \A n \in Area : n + 0 = n /\ n < W * H
    BY <1>0 DEF Area
  <2>5. Shifted(t, u, 0)
    BY <2>3, <2>4 DEF Shifted, Same
  <2>6. Cur(u) = W * (t.row + 1) - 0
    BY <1>0, <2>1, <2>3
  <2>. QED  BY <2>3, <2>5, <2>6
<1>. QED  BY <1>1, <1>2

\* A store into the cell of the cursor.
LEMMA EntryIs ==
  ASSUME NEW t \in Screens, NEW c \in Glyphs, NEW u, u = terminal_putentryat(t, c)
  PROVE  /\ u \in Screens /\ u.row = t.row /\ u.column = t.column /\ Cur(u) = Cur(t)
         /\ u.anchor = t.anchor /\ u.above = t.above
         /\ \A n \in Area : At(u, n) = IF n = Cur(t) THEN c ELSE At(t, n)
<1>0. W \in Nat \ {0} /\ H \in Nat \ {0}
  BY Dims
<1>1. /\ t.cell \in [1 .. H -> Row] /\ t.row + 1 \in 1 .. H /\ t.column + 1 \in 1 .. W
      /\ t.row \in Nat /\ t.column \in Nat
  BY <1>0, ScreenFacts
<1>2. PICK g : g = [t.cell EXCEPT ![t.row + 1][t.column + 1] = c]
  OBVIOUS
<1>3. g \in [1 .. H -> Row]
  BY <1>1, <1>2 DEF Row
<1>4. \A y \in 1 .. H, x \in 1 .. W :
         g[y][x] = IF y = t.row + 1 /\ x = t.column + 1 THEN c ELSE t.cell[y][x]
  BY <1>1, <1>2 DEF Row
<1>5. u = [t EXCEPT !.cell = g]
  BY <1>2 DEF terminal_putentryat
<1>6. /\ u.cell = g /\ u.row = t.row /\ u.column = t.column
      /\ u.anchor = t.anchor /\ u.above = t.above /\ u \in Screens
  BY <1>3, <1>5 DEF Screens
<1>7. Cur(u) = Cur(t)
  BY <1>6 DEF Cur
<1>8. ASSUME NEW n \in Area  PROVE At(u, n) = IF n = Cur(t) THEN c ELSE At(t, n)
  <2>1. PICK y \in 0 .. H - 1, x \in 0 .. W - 1 : n = W * y + x
    BY CellOut
  <2>2. At(u, n) = g[y + 1][x + 1] /\ At(t, n) = t.cell[y + 1][x + 1]
    BY <1>6, <2>1, CellIn
  <2>3. n = Cur(t) <=> y = t.row /\ x = t.column
    BY <2>1, CursorIs
  <2>4. y + 1 \in 1 .. H /\ x + 1 \in 1 .. W
    BY <1>0
  <2>5. (y + 1 = t.row + 1 <=> y = t.row) /\ (x + 1 = t.column + 1 <=> x = t.column)
    BY <1>1
  <2>. QED  BY <1>4, <2>2, <2>3, <2>4, <2>5
<1>. QED  BY <1>6, <1>7, <1>8

\* What a step of the terminal does to the screen, counted in cells: c is stored at
\* the cursor, the screen goes up by d, and the cursor ends at p or, when the screen
\* went up, at the start of the last row.
Drawn(t, u, c, d) ==
  /\ \A n \in Area : At(u, n) = IF n + d = Cur(t) THEN c ELSE IF n + d < W * H THEN At(t, n + d) ELSE Blank
  /\ Cur(u) = Cur(t) + 1 - d
  /\ d # 0 => Cur(u) = W * (H - 1)
  /\ d = 0 => u.anchor = t.anchor /\ u.above = t.above
  /\ d # 0 => /\ u.anchor = AnchorAfterScroll(t.anchor)
              /\ u.above = IF t.above = <<>> THEN t.above ELSE Tail(t.above)

LEMMA GlyphIs ==
  ASSUME NEW t \in Screens, NEW c \in Glyphs, NEW u, u = Glyph(t, c)
  PROVE  u \in Screens /\ \E d \in {0, W} : Drawn(t, u, c, d)
<1>0. W \in Nat \ {0} /\ H \in Nat \ {0} /\ t.row \in Nat /\ t.column \in 0 .. W - 1 /\ W * H \in Nat
  BY Dims, ScreenFacts
<1>1. PICK v : v = terminal_putentryat(t, c)
  OBVIOUS
<1>2. /\ v \in Screens /\ v.row = t.row /\ v.column = t.column /\ Cur(v) = Cur(t)
      /\ v.anchor = t.anchor /\ v.above = t.above
      /\ \A n \in Area : At(v, n) = IF n = Cur(t) THEN c ELSE At(t, n)
  BY <1>1, EntryIs
<1>3. u = IF v.column + 1 = W THEN RowBelow(v) ELSE [v EXCEPT !.column = @ + 1]
  BY <1>1 DEF Glyph
<1>c. Cur(t) = W * t.row + t.column /\ Cur(t) \in Nat /\ Cur(t) < W * H
  BY CursorIs
<1>4. CASE t.column + 1 = W
  <2>1. u = RowBelow(v)
    BY <1>2, <1>3, <1>4
  <2>2. u \in Screens
    BY <1>2, <2>1, BelowIs
  <2>3. PICK d \in {0, W} : /\ Shifted(v, u, d) /\ Cur(u) = W * (v.row + 1) - d
                            /\ d # 0 => Cur(u) = W * (H - 1)
    BY <1>2, <2>1, BelowIs
  <2>4. Cur(u) = Cur(t) + 1 - d
    BY <1>0, <1>2, <1>4, <1>c, <2>3
  <2>5. ASSUME NEW n \in Area
        PROVE  At(u, n) = IF n + d = Cur(t) THEN c ELSE IF n + d < W * H THEN At(t, n + d) ELSE Blank
    <3>1. n \in Nat /\ d \in Nat
      BY <1>0, <2>3 DEF Area
    <3>2. At(u, n) = IF n + d < W * H THEN At(v, n + d) ELSE Blank
      BY <2>3 DEF Shifted
    <3>3. CASE n + d < W * H
      <4>1. PICK m \in Area : m = n + d
        BY <1>0, <3>1, <3>3 DEF Area
      <4>. QED  BY <1>2, <3>2, <3>3, <4>1
    <3>4. CASE ~(n + d < W * H)
      BY <1>0, <1>c, <3>1, <3>2, <3>4
    <3>. QED  BY <3>3, <3>4
  <2>6. Drawn(t, u, c, d)
    BY <1>2, <2>3, <2>4, <2>5 DEF Drawn, Shifted
  <2>. QED  BY <2>2, <2>6
<1>5. CASE t.column + 1 # W
  <2>1. PICK k \in 0 .. W - 1 : k = t.column + 1
    BY <1>0, <1>5
  <2>2. PICK r \in 0 .. H - 1 : r = t.row
    BY ScreenFacts
  <2>3. Moves(v, u, r, k)
    BY <1>2, <1>3, <1>5, <2>1, <2>2 DEF Moves, Screens
  <2>4. u \in Screens /\ Cur(u) = W * r + k /\ Same(v, u)
    BY <1>2, <2>3, CursorSet
  <2>5. Cur(u) = Cur(t) + 1 - 0
    BY <1>0, <1>c, <2>1, <2>2, <2>4
  <2>6. \A n \in Area : n + 0 = n /\ n < W * H
    BY <1>0 DEF Area
  <2>7. Drawn(t, u, c, 0)
    BY <1>2, <2>4, <2>5, <2>6 DEF Drawn, Same
  <2>. QED  BY <2>4, <2>7
<1>. QED  BY <1>4, <1>5

\* A backspace at the top left does nothing; elsewhere it erases the cell before.
Erased(t, u) ==
  /\ Cur(u) = Cur(t) - 1
  /\ \A n \in Area : At(u, n) = IF n = Cur(t) - 1 THEN Blank ELSE At(t, n)
  /\ u.anchor = t.anchor /\ u.above = t.above

LEMMA BackIs ==
  ASSUME NEW t \in Screens, NEW u, u = Backspace(t)
  PROVE  u \in Screens /\ IF Cur(t) = 0 THEN u = t ELSE Erased(t, u)
<1>0. /\ W \in Nat \ {0} /\ H \in Nat \ {0} /\ t.row \in 0 .. H - 1 /\ t.column \in 0 .. W - 1
      /\ t.row \in Nat /\ t.column \in Nat
  BY Dims, ScreenFacts
<1>c. Cur(t) = W * t.row + t.column
  BY CursorIs
<1>b. Blank \in Glyphs
  BY DEF Glyphs
<1>1. ASSUME NEW r \in 0 .. H - 1, NEW k \in 0 .. W - 1, NEW v, Moves(t, v, r, k),
             u = terminal_putentryat(v, Blank), W * r + k = Cur(t) - 1
      PROVE  u \in Screens /\ Erased(t, u)
  <2>1. v \in Screens /\ Cur(v) = Cur(t) - 1 /\ Same(t, v)
    BY <1>1, CursorSet
  <2>2. /\ u \in Screens /\ Cur(u) = Cur(v) /\ u.anchor = v.anchor /\ u.above = v.above
        /\ \A n \in Area : At(u, n) = IF n = Cur(v) THEN Blank ELSE At(v, n)
    BY <1>1, <1>b, <2>1, EntryIs
  <2>. QED  BY <2>1, <2>2 DEF Erased, Same
<1>2. CASE t.column > 0
  <2>1. PICK r \in 0 .. H - 1, k \in 0 .. W - 1 : r = t.row /\ k = t.column - 1
    BY <1>0, <1>2
  <2>2. PICK v : v = [t EXCEPT !.column = @ - 1]
    OBVIOUS
  <2>3. Moves(t, v, r, k)
    BY <2>1, <2>2 DEF Moves, Screens
  <2>4. u = terminal_putentryat(v, Blank)
    BY <1>2, <2>2 DEF Backspace
  <2>5. W * r + k = Cur(t) - 1 /\ Cur(t) # 0
    BY <1>0, <1>2, <1>c, <2>1
  <2>. QED  BY <1>1, <2>3, <2>4, <2>5
<1>3. CASE t.column = 0 /\ t.row > 0
  <2>1. PICK r \in 0 .. H - 1, k \in 0 .. W - 1 : r = t.row - 1 /\ k = W - 1
    BY <1>0, <1>3
  <2>2. PICK v : v = [t EXCEPT !.row = @ - 1, !.column = W - 1]
    OBVIOUS
  <2>3. Moves(t, v, r, k)
    BY <2>1, <2>2 DEF Moves, Screens
  <2>4. u = terminal_putentryat(v, Blank)
    BY <1>0, <1>3, <2>2 DEF Backspace
  <2>5. W * r + k = Cur(t) - 1 /\ Cur(t) # 0
    BY <1>0, <1>3, <1>c, <2>1
  <2>. QED  BY <1>1, <2>3, <2>4, <2>5
<1>4. CASE ~(t.column > 0) /\ ~(t.column = 0 /\ t.row > 0)
  <2>1. u = t
    BY <1>4 DEF Backspace
  <2>2. Cur(t) = 0
    BY <1>0, <1>4, <1>c
  <2>. QED  BY <2>1, <2>2
<1>. QED  BY <1>2, <1>3, <1>4

-----------------------------------------------------------------------------
(***************************************************************************)
(* What every character keeps.  Nothing stands at or after the cursor; the *)
(* rows above the anchor are the ones kept, and when there are any the     *)
(* cursor is k cells below them.                                           *)
(***************************************************************************)
Clean(t) == \A n \in Area : Cur(t) <= n => At(t, n) = Blank
Kept(t, k) ==
  /\ Len(t.above) = t.anchor
  /\ \A y \in 0 .. t.anchor - 1, x \in 0 .. W - 1 : t.above[y + 1][x + 1] = At(t, W * y + x)
  /\ t.anchor > 0 => W * t.anchor + k <= Cur(t)

\* The cursor goes on, over a character or to the row below, and the screen goes up
\* by d: what stood before the cursor still does.
Goes(t, u, d) ==
  /\ \A n \in Area : n + d < Cur(t) => At(u, n) = At(t, n + d)
  /\ Cur(t) + 1 - d <= Cur(u)
  /\ Clean(t) => Clean(u)
  /\ d = 0 => u.anchor = t.anchor /\ u.above = t.above
  /\ d # 0 => /\ u.anchor = AnchorAfterScroll(t.anchor)
              /\ u.above = IF t.above = <<>> THEN t.above ELSE Tail(t.above)

LEMMA GlyphGoes ==
  ASSUME NEW t \in Screens, NEW u \in Screens, NEW c, NEW d \in {0, W}, Drawn(t, u, c, d)
  PROVE  Goes(t, u, d)
<1>0. /\ W \in Nat \ {0} /\ W * H \in Nat /\ d \in Nat /\ Cur(t) \in Nat /\ Cur(u) \in Nat
      /\ Cur(t) < W * H
  BY Dims, CursorIs
<1>1. Cur(u) = Cur(t) + 1 - d
  BY DEF Drawn
<1>2. ASSUME NEW n \in Area, n + d < Cur(t)  PROVE At(u, n) = At(t, n + d)
  <2>1. n \in Nat /\ n + d # Cur(t) /\ n + d < W * H
    BY <1>0, <1>2 DEF Area
  <2>. QED  BY <2>1 DEF Drawn
<1>3. ASSUME Clean(t), NEW n \in Area, Cur(u) <= n  PROVE At(u, n) = Blank
  <2>1. n \in Nat /\ n + d # Cur(t) /\ Cur(t) <= n + d
    BY <1>0, <1>1, <1>3 DEF Area
  <2>2. CASE n + d < W * H
    <3>1. n + d \in Area
      BY <1>0, <2>1, <2>2 DEF Area
    <3>2. At(t, n + d) = Blank
      BY <1>3, <2>1, <3>1 DEF Clean
    <3>. QED  BY <2>1, <2>2, <3>2 DEF Drawn
  <2>3. CASE ~(n + d < W * H)
    BY <2>1, <2>3 DEF Drawn
  <2>. QED  BY <2>2, <2>3
<1>4. Cur(t) + 1 - d <= Cur(u)
  BY <1>0, <1>1
<1>. QED  BY <1>2, <1>3, <1>4 DEF Goes, Clean, Drawn

LEMMA BelowGoes ==
  ASSUME NEW t \in Screens, NEW u, u = RowBelow(t)
  PROVE  u \in Screens /\ \E d \in {0, W} : Goes(t, u, d)
<1>1. u \in Screens
  BY BelowIs
<1>2. PICK d \in {0, W} : Shifted(t, u, d) /\ Cur(u) = W * (t.row + 1) - d
  BY BelowIs
<1>0. /\ W \in Nat \ {0} /\ W * H \in Nat /\ d \in Nat /\ Cur(t) \in Nat /\ Cur(u) \in Nat
      /\ Cur(t) < W * H /\ Cur(t) = W * t.row + t.column /\ t.row \in Nat /\ t.column \in 0 .. W - 1
  BY <1>1, Dims, CursorIs, ScreenFacts
<1>3. Cur(t) + 1 - d <= Cur(u)
  BY <1>0, <1>2
<1>4. ASSUME NEW n \in Area, n + d < Cur(t)  PROVE At(u, n) = At(t, n + d)
  <2>1. n + d < W * H
    BY <1>0, <1>4 DEF Area
  <2>. QED  BY <1>2, <2>1 DEF Shifted
<1>5. ASSUME Clean(t), NEW n \in Area, Cur(u) <= n  PROVE At(u, n) = Blank
  <2>1. n \in Nat /\ Cur(t) <= n + d
    BY <1>0, <1>3, <1>5 DEF Area
  <2>2. CASE n + d < W * H
    <3>1. n + d \in Area
      BY <1>0, <2>1, <2>2 DEF Area
    <3>. QED  BY <1>2, <1>5, <2>1, <2>2, <3>1 DEF Clean, Shifted
  <2>3. CASE ~(n + d < W * H)
    BY <1>2, <2>3 DEF Shifted
  <2>. QED  BY <2>2, <2>3
<1>. QED  BY <1>1, <1>2, <1>3, <1>4, <1>5 DEF Goes, Clean, Shifted

\* The rows above the anchor go up with the anchor, the first of them away.
LEMMA KeptGoes ==
  ASSUME NEW t \in Screens, NEW u \in Screens, NEW d \in {0, W}, Goes(t, u, d),
         NEW k \in Nat, Kept(t, k)
  PROVE  Kept(u, k + 1)
<1>0. /\ W \in Nat \ {0} /\ Cur(t) \in Nat /\ Cur(u) \in Nat /\ t.anchor \in 0 .. H - 1
      /\ t.anchor \in Nat /\ t.above \in Seq(Row) /\ H \in Nat /\ Cur(t) + 1 - d <= Cur(u)
  BY Dims, CursorIs, ScreenFacts DEF Goes
<1>1. CASE t.anchor = 0
  <2>1. t.above = <<>>
    BY <1>0, <1>1, EmptySeq DEF Kept
  <2>2. u.anchor = 0 /\ u.above = <<>>
    BY <1>1, <2>1 DEF Goes, AnchorAfterScroll
  <2>. QED  BY <2>2 DEF Kept
<1>2. CASE t.anchor # 0
  <2>0. t.anchor > 0 /\ W * t.anchor + k <= Cur(t) /\ Len(t.above) = t.anchor /\ t.above # <<>>
    BY <1>0, <1>2, EmptySeq DEF Kept
  <2>1. ASSUME NEW y \in 0 .. t.anchor - 1, NEW x \in 0 .. W - 1
        PROVE  W * y + x \in Area /\ W * y + x < Cur(t)
    <3>1. y \in Nat /\ y < t.anchor /\ y \in 0 .. H - 1
      BY <1>0
    <3>2. W * y + x \in Nat /\ W * y + x < W * t.anchor /\ W * y + x \in Area
      BY <1>0, <3>1, RowsApart, CellIn
    <3>. QED  BY <1>0, <2>0, <3>2
  <2>2. CASE d = 0
    <3>1. u.anchor = t.anchor /\ u.above = t.above
      BY <2>2 DEF Goes
    <3>2. ASSUME NEW y \in 0 .. t.anchor - 1, NEW x \in 0 .. W - 1
          PROVE  u.above[y + 1][x + 1] = At(u, W * y + x)
      <4>1. PICK n \in Area : n = W * y + x /\ n < Cur(t) /\ n + d = n
        BY <2>1, <2>2 DEF Area
      <4>2. At(u, n) = At(t, n)
        BY <4>1 DEF Goes
      <4>3. t.above[y + 1][x + 1] = At(t, n)
        BY <4>1 DEF Kept
      <4>. QED  BY <3>1, <4>1, <4>2, <4>3
    <3>3. W * u.anchor + (k + 1) <= Cur(u)
      BY <1>0, <2>0, <2>2, <3>1
    <3>. QED  BY <2>0, <3>1, <3>2, <3>3 DEF Kept
  <2>3. CASE d # 0
    <3>1. d = W /\ u.anchor = t.anchor - 1 /\ u.above = Tail(t.above)
      BY <1>0, <2>0, <2>3 DEF Goes, AnchorAfterScroll
    <3>2. Len(u.above) = t.anchor - 1 /\ \A i \in 1 .. t.anchor - 1 : u.above[i] = t.above[i + 1]
      BY <1>0, <2>0, <3>1, HeadTailProperties
    <3>3. ASSUME NEW y \in 0 .. u.anchor - 1, NEW x \in 0 .. W - 1
          PROVE  u.above[y + 1][x + 1] = At(u, W * y + x)
      <4>1. /\ y \in 0 .. t.anchor - 1 /\ y + 1 \in 0 .. t.anchor - 1 /\ y + 1 \in 1 .. t.anchor - 1
        BY <1>0, <3>1
      <4>2. PICK n \in Area : n = W * y + x
        BY <2>1, <4>1
      <4>3. n + d = W * (y + 1) + x
        BY <1>0, <3>1, <4>1, <4>2
      <4>4. PICK z \in 0 .. t.anchor - 1 : z = y + 1
        BY <4>1
      <4>5. At(u, n) = At(t, W * z + x)
        <5>1. W * z + x < Cur(t)
          BY <2>1
        <5>. QED  BY <4>2, <4>3, <4>4, <5>1 DEF Goes
      <4>6. t.above[z + 1][x + 1] = At(t, W * z + x)
        BY DEF Kept
      <4>. QED  BY <3>2, <4>1, <4>2, <4>4, <4>5, <4>6
    <3>4. W * u.anchor + (k + 1) <= Cur(u)
      <4>1. PICK a \in Nat : a = t.anchor
        BY <1>0
      <4>2. W * (a - 1) = W * a - W /\ W * a \in Nat
        BY <1>0
      <4>3. Cur(t) + 1 - W <= Cur(u) /\ W * a + k <= Cur(t)
        BY <1>0, <2>0, <3>1, <4>1
      <4>4. W * (a - 1) + (k + 1) <= Cur(u)
        BY <1>0, <4>2, <4>3
      <4>. QED  BY <3>1, <4>1, <4>4
    <3>. QED  BY <3>1, <3>2, <3>3, <3>4 DEF Kept
  <2>. QED  BY <2>2, <2>3
<1>. QED  BY <1>1, <1>2

\* A backspace takes one of the cells below the anchor.
LEMMA BackKeeps ==
  ASSUME NEW t \in Screens, NEW u, u = Backspace(t)
  PROVE  /\ u \in Screens /\ (Clean(t) => Clean(u))
         /\ \A k \in Nat : Kept(t, k + 1) => Kept(u, k)
<1>0. u \in Screens /\ W \in Nat \ {0} /\ Cur(t) \in Nat /\ t.anchor \in Nat /\ t.anchor \in 0 .. H - 1 /\ H \in Nat
  BY BackIs, Dims, CursorIs, ScreenFacts
<1>1. CASE Cur(t) = 0
  <2>1. u = t
    BY <1>1, BackIs
  <2>2. ASSUME NEW k \in Nat, Kept(t, k + 1)  PROVE Kept(t, k)
    <3>1. ~(t.anchor > 0)
      BY <1>0, <1>1, <2>2 DEF Kept
    <3>. QED  BY <2>2, <3>1 DEF Kept
  <2>. QED  BY <1>0, <2>1, <2>2
<1>2. CASE Cur(t) # 0
  <2>1. Erased(t, u)
    BY <1>2, BackIs
  <2>2. ASSUME Clean(t), NEW n \in Area, Cur(u) <= n  PROVE At(u, n) = Blank
    <3>0. n \in Nat /\ Cur(t) - 1 <= n
      BY <2>1, <2>2, Dims DEF Erased, Area
    <3>1. n = Cur(t) - 1 \/ Cur(t) <= n
      BY <1>0, <3>0
    <3>. QED  BY <2>1, <2>2, <3>1 DEF Erased, Clean
  <2>3. ASSUME NEW k \in Nat, Kept(t, k + 1)  PROVE Kept(u, k)
    <3>1. Len(u.above) = u.anchor /\ u.anchor = t.anchor /\ u.above = t.above
      BY <2>1, <2>3 DEF Erased, Kept
    <3>2. t.anchor > 0 => W * t.anchor + (k + 1) <= Cur(t)
      BY <2>3 DEF Kept
    <3>3. t.anchor > 0 => W * t.anchor + k <= Cur(u)
      BY <1>0, <2>1, <3>2 DEF Erased
    <3>4. ASSUME NEW y \in 0 .. t.anchor - 1, NEW x \in 0 .. W - 1
          PROVE  t.above[y + 1][x + 1] = At(u, W * y + x)
      <4>1. y \in Nat /\ y < t.anchor /\ y \in 0 .. H - 1 /\ t.anchor > 0
        BY <1>0
      <4>2. W * y + x \in Nat /\ W * y + x < W * t.anchor /\ W * y + x \in Area
        BY <1>0, <4>1, RowsApart, CellIn
      <4>3. W * y + x # Cur(t) - 1
        BY <1>0, <3>2, <4>1, <4>2
      <4>4. At(u, W * y + x) = At(t, W * y + x)
        BY <2>1, <4>2, <4>3 DEF Erased
      <4>. QED  BY <2>3, <4>4 DEF Kept
    <3>. QED  BY <3>1, <3>3, <3>4 DEF Kept
  <2>. QED  BY <1>0, <2>2, <2>3 DEF Clean
<1>. QED  BY <1>1, <1>2

\* Fewer cells below the anchor than there are.
LEMMA KeptLess ==
  ASSUME NEW t \in Screens, NEW j \in Nat, NEW k \in Nat, j <= k, Kept(t, k)
  PROVE  Kept(t, j)
<1>1. W * t.anchor \in Int /\ Cur(t) \in Nat
  BY Dims, ScreenFacts, CursorIs
<1>2. t.anchor > 0 => W * t.anchor + j <= Cur(t)
  BY <1>1 DEF Kept
<1>. QED  BY <1>2 DEF Kept

LEMMA GlyphKeeps ==
  ASSUME NEW t \in Screens, NEW c \in Glyphs, NEW u, u = Glyph(t, c)
  PROVE  /\ u \in Screens /\ (Clean(t) => Clean(u))
         /\ \A k \in Nat : Kept(t, k) => Kept(u, k + 1)
<1>1. u \in Screens
  BY GlyphIs
<1>2. PICK d \in {0, W} : Drawn(t, u, c, d)
  BY GlyphIs
<1>3. Goes(t, u, d)
  BY <1>1, <1>2, GlyphGoes
<1>4. \A k \in Nat : Kept(t, k) => Kept(u, k + 1)
  BY <1>1, <1>3, KeptGoes
<1>. QED  BY <1>1, <1>3, <1>4 DEF Goes

\* Any character keeps the cursor on the screen and the rest of the screen clean;
\* all but a backspace leave what stands before the cursor.
LEMMA CharKeeps ==
  ASSUME NEW t \in Screens, NEW c \in Glyphs, NEW u, u = terminal_putchar(t, c)
  PROVE  /\ u \in Screens /\ (Clean(t) => Clean(u))
         /\ c # BS => \A k \in Nat : Kept(t, k) => Kept(u, k + 1)
         /\ c = BS => \A k \in Nat : Kept(t, k + 1) => Kept(u, k)
<1>0. NL # BS /\ NL # TAB /\ BS # TAB /\ Blank \in Glyphs
  BY DEF NL, BS, TAB, Glyphs
<1>1. CASE c = NL
  <2>1. u = RowBelow(t)
    BY <1>0, <1>1 DEF terminal_putchar
  <2>2. u \in Screens
    BY <2>1, BelowGoes
  <2>3. PICK d \in {0, W} : Goes(t, u, d)
    BY <2>1, BelowGoes
  <2>4. \A k \in Nat : Kept(t, k) => Kept(u, k + 1)
    BY <2>2, <2>3, KeptGoes
  <2>. QED  BY <1>0, <1>1, <2>2, <2>3, <2>4 DEF Goes
<1>2. CASE c = BS
  <2>1. u = Backspace(t)
    BY <1>0, <1>2 DEF terminal_putchar
  <2>. QED  BY <1>2, <2>1, BackKeeps
<1>3. CASE c = TAB
  <2>1. PICK a : a = Glyph(t, Blank)
    OBVIOUS
  <2>2. PICK b : b = Glyph(a, Blank)
    OBVIOUS
  <2>3. PICK e : e = Glyph(b, Blank)
    OBVIOUS
  <2>4. u = Glyph(e, Blank)
    BY <1>0, <1>3, <2>1, <2>2, <2>3 DEF terminal_putchar
  <2>5. a \in Screens /\ (Clean(t) => Clean(a)) /\ \A k \in Nat : Kept(t, k) => Kept(a, k + 1)
    BY <1>0, <2>1, GlyphKeeps
  <2>6. b \in Screens /\ (Clean(a) => Clean(b)) /\ \A k \in Nat : Kept(a, k) => Kept(b, k + 1)
    BY <1>0, <2>2, <2>5, GlyphKeeps
  <2>7. e \in Screens /\ (Clean(b) => Clean(e)) /\ \A k \in Nat : Kept(b, k) => Kept(e, k + 1)
    BY <1>0, <2>3, <2>6, GlyphKeeps
  <2>8. u \in Screens /\ (Clean(e) => Clean(u)) /\ \A k \in Nat : Kept(e, k) => Kept(u, k + 1)
    BY <1>0, <2>4, <2>7, GlyphKeeps
  <2>9. ASSUME NEW k \in Nat, Kept(t, k)  PROVE Kept(u, k + 1)
    <3>1. Kept(u, k + 1 + 1 + 1 + 1)
      BY <2>5, <2>6, <2>7, <2>8, <2>9
    <3>2. PICK m \in Nat : m = k + 1 + 1 + 1 + 1 /\ k + 1 <= m
      OBVIOUS
    <3>. QED  BY <2>8, <3>1, <3>2, KeptLess
  <2>. QED  BY <1>0, <1>3, <2>5, <2>6, <2>7, <2>8, <2>9
<1>4. CASE c \notin {NL, BS, TAB}
  <2>1. u = Glyph(t, c)
    BY <1>4 DEF terminal_putchar
  <2>. QED  BY <1>4, <2>1, GlyphKeeps
<1>. QED  BY <1>1, <1>2, <1>3, <1>4

-----------------------------------------------------------------------------
(***************************************************************************)
(* Writing a text, character by character.                                 *)
(***************************************************************************)
\* w[i] is the terminal after i characters of s.
Writes(w, t, s, n) ==
  w = [i \in 0 .. n |-> IF i = 0 THEN t ELSE terminal_putchar(w[i - 1], s[i])]

LEMMA WriteOne ==
  ASSUME NEW t, NEW s, NEW n \in Nat, NEW w, Writes(w, t, s, n)
  PROVE  \E v : Writes(v, t, s, n + 1)
<1>. DEFINE v == [i \in 0 .. n + 1 |-> IF i = n + 1 THEN terminal_putchar(w[n], s[n + 1]) ELSE w[i]]
<1>1. \A i \in 0 .. n : v[i] = w[i] /\ i \in 0 .. n + 1
  OBVIOUS
<1>2. ASSUME NEW i \in 0 .. n + 1
      PROVE  v[i] = IF i = 0 THEN t ELSE terminal_putchar(v[i - 1], s[i])
  <2>1. CASE i = n + 1
    <3>1. i # 0 /\ i - 1 = n /\ n \in 0 .. n
      BY <2>1
    <3>2. v[i] = terminal_putchar(w[n], s[i])
      BY <2>1
    <3>. QED  BY <1>1, <3>1, <3>2
  <2>2. CASE i # n + 1
    <3>1. i \in 0 .. n
      BY <2>2
    <3>2. v[i] = IF i = 0 THEN t ELSE terminal_putchar(w[i - 1], s[i])
      BY <1>1, <3>1 DEF Writes
    <3>3. i # 0 => i - 1 \in 0 .. n
      BY <3>1
    <3>. QED  BY <1>1, <3>2, <3>3
  <2>. QED  BY <2>1, <2>2
<1>3. v = [i \in 0 .. n + 1 |-> v[i]]
  OBVIOUS
<1>4. Writes(v, t, s, n + 1)
  <2>. HIDE DEF v
  <2>. QED  BY <1>2, <1>3, Zenon DEF Writes
<1>. QED  BY <1>4

Steps(w, t, s, n) ==
  /\ w[0] = t /\ terminal_write(t, s) = w[n]
  /\ \A i \in 0 .. n - 1 : w[i + 1] = terminal_putchar(w[i], s[i + 1])

LEMMA WriteIs ==
  ASSUME NEW t, NEW s, Len(s) \in Nat
  PROVE  \E w : Steps(w, t, s, Len(s))
<1>0. PICK n \in Nat : n = Len(s)
  OBVIOUS
<1>. DEFINE S == {i \in Nat : \E w : Writes(w, t, s, i)}
<1>1. 0 \in S
  <2>1. Writes([i \in 0 .. 0 |-> t], t, s, 0)
    BY DEF Writes
  <2>. QED  BY <2>1
<1>2. \A i \in 0 .. n - 1 : i \in S => i + 1 \in S
  BY WriteOne
<1>3. n \in S
  <2>1. n \in 0 .. n
    OBVIOUS
  <2>2. PICK T : T = S
    OBVIOUS
  <2>3. 0 \in T /\ \A i \in 0 .. n - 1 : i \in T => i + 1 \in T
    BY <1>1, <1>2, <2>2
  <2>4. n \in T
    BY <2>1, <2>3, CountUp
  <2>. QED  BY <2>2, <2>4
<1>4. \E w : w = [i \in 0 .. Len(s) |-> IF i = 0 THEN t ELSE terminal_putchar(w[i - 1], s[i])]
  BY <1>0, <1>3 DEF Writes
<1>. DEFINE after == CHOOSE w : w = [i \in 0 .. Len(s) |-> IF i = 0 THEN t ELSE terminal_putchar(w[i - 1], s[i])]
<1>5. terminal_write(t, s) = after[Len(s)]
  BY Zenon DEF terminal_write
<1>6. after = [i \in 0 .. Len(s) |-> IF i = 0 THEN t ELSE terminal_putchar(after[i - 1], s[i])]
  BY <1>4, Zenon
<1>7. PICK w : w = after
  OBVIOUS
<1>8. w = [i \in 0 .. n |-> IF i = 0 THEN t ELSE terminal_putchar(w[i - 1], s[i])]
  BY <1>0, <1>6, <1>7, Zenon
<1>9. w[0] = t
  BY <1>8
<1>10. ASSUME NEW i \in 0 .. n - 1  PROVE w[i + 1] = terminal_putchar(w[i], s[i + 1])
  <2>1. i + 1 \in 0 .. n /\ i + 1 # 0 /\ i + 1 - 1 = i
    OBVIOUS
  <2>2. w[i + 1] = terminal_putchar(w[i + 1 - 1], s[i + 1])
    BY <1>8, <2>1
  <2>. QED  BY <2>1, <2>2
<1>11. terminal_write(t, s) = w[n]
  BY <1>0, <1>5, <1>7, Zenon
<1>12. Steps(w, t, s, n)
  BY <1>9, <1>10, <1>11, Zenon DEF Steps
<1>. QED  BY <1>0, <1>12, Zenon

\* What the program prints are texts.
LEMMA TextIn ==
  ASSUME NEW s \in Texts \cup Outputs \cup {Banner, Prompt}
  PROVE  /\ s \in Seq(Glyphs) /\ Len(s) \in Nat /\ \A i \in 1 .. Len(s) : s[i] \in Range(s)
<1>1. s \in Seq(Range(s))
  BY ConsoleAssumption
<1>2. Len(s) \in Nat /\ \A i \in 1 .. Len(s) : s[i] \in Range(s)
  BY <1>1, LenProperties, ElementOfSeq
<1>3. Range(s) \subseteq Glyphs
  BY DEF Glyphs
<1>4. s \in [1 .. Len(s) -> Glyphs]
  BY <1>1, <1>2, <1>3, LenProperties
<1>5. s \in Seq(Glyphs)
  BY <1>2, <1>4, SeqDef
<1>. QED  BY <1>2, <1>5

\* A text keeps the screen; one without a backspace keeps what stands on it.
LEMMA WriteKeeps ==
  ASSUME NEW t \in Screens, NEW s \in Seq(Glyphs), NEW u, u = terminal_write(t, s)
  PROVE  /\ u \in Screens /\ (Clean(t) => Clean(u))
         /\ (\A i \in 1 .. Len(s) : s[i] # BS) /\ Kept(t, 0) => Kept(u, 0)
<1>0. PICK n \in Nat : n = Len(s)
  BY LenProperties
<1>1. \A i \in 1 .. n : s[i] \in Glyphs
  BY <1>0, ElementOfSeq
<1>w. PICK w : Steps(w, t, s, n)
  BY <1>0, WriteIs
<1>2. /\ w[0] = t /\ terminal_write(t, s) = w[n]
      /\ \A i \in 0 .. n - 1 : w[i + 1] = terminal_putchar(w[i], s[i + 1])
  BY <1>w DEF Steps
<1>. DEFINE S == {i \in 0 .. n : /\ w[i] \in Screens /\ (Clean(t) => Clean(w[i]))
                                 /\ (\A j \in 1 .. n : s[j] # BS) /\ Kept(t, 0) => Kept(w[i], 0)}
<1>3. 0 \in S
  BY <1>2
<1>4. ASSUME NEW i \in 0 .. n - 1, i \in S  PROVE i + 1 \in S
  <2>1. i + 1 \in 1 .. n /\ i + 1 \in 0 .. n /\ 0 + 1 \in Nat /\ 0 <= 0 + 1
    OBVIOUS
  <2>2. PICK v \in Screens : v = w[i]
    BY <1>4
  <2>3. PICK c \in Glyphs : c = s[i + 1]
    BY <1>1, <2>1
  <2>4. PICK x : x = terminal_putchar(v, c) /\ x = w[i + 1]
    BY <1>2, <2>2, <2>3
  <2>5. /\ x \in Screens /\ (Clean(v) => Clean(x))
        /\ c # BS => \A k \in Nat : Kept(v, k) => Kept(x, k + 1)
    BY <2>4, CharKeeps
  <2>6. c # BS /\ Kept(v, 0) => Kept(x, 0)
    BY <2>1, <2>5, KeptLess
  <2>. QED  BY <1>4, <2>1, <2>2, <2>3, <2>4, <2>5, <2>6
<1>5. n \in S
  <2>1. PICK T : T = S
    OBVIOUS
  <2>2. 0 \in T /\ \A i \in 0 .. n - 1 : i \in T => i + 1 \in T
    BY <1>3, <1>4, <2>1
  <2>3. n \in 0 .. n
    OBVIOUS
  <2>4. n \in T
    BY <2>2, <2>3, CountUp
  <2>. QED  BY <2>1, <2>4
<1>. QED  BY <1>0, <1>2, <1>5

\* The debugger is entered: the rows above the cursor are the ones to keep.
LEMMA AnchorIs ==
  ASSUME NEW t \in Screens, NEW u, u = terminal_set_anchor(t)
  PROVE  u \in Screens /\ (Clean(t) => Clean(u)) /\ Kept(u, 0)
<1>0. /\ t.row \in 0 .. H - 1 /\ t.row \in Nat /\ t.cell \in Seq(Row) /\ Len(t.cell) = H
      /\ W \in Nat \ {0} /\ H \in Nat
  BY Dims, ScreenFacts
<1>1. PICK k \in Nat : k = t.row
  BY <1>0
<1>2. \A i \in 1 .. k : t.cell[i] \in Row
  BY <1>0, <1>1, ElementOfSeq
<1>3. PICK b : b = SubSeq(t.cell, 1, k)
  OBVIOUS
<1>4. b \in Seq(Row) /\ Len(b) = k /\ \A i \in 1 .. k : b[i] = t.cell[i]
  <2>1. /\ SubSeq(t.cell, 1, k) \in Seq(Row)
        /\ Len(SubSeq(t.cell, 1, k)) = IF 1 <= k THEN k - 1 + 1 ELSE 0
        /\ \A i \in 1 .. k - 1 + 1 : SubSeq(t.cell, 1, k)[i] = t.cell[1 + i - 1]
    BY <1>2, SubSeqProperties
  <2>2. Len(b) = k /\ \A i \in 1 .. k : b[i] = t.cell[1 + i - 1] /\ 1 + i - 1 = i
    BY <1>1, <1>3, <2>1
  <2>. QED  BY <1>3, <2>1, <2>2
<1>5. u = [t EXCEPT !.anchor = k, !.above = b]
  BY <1>1, <1>3 DEF terminal_set_anchor
<1>6. /\ u \in Screens /\ u.anchor = k /\ u.above = b /\ u.cell = t.cell /\ u.row = t.row
      /\ u.column = t.column
  BY <1>0, <1>1, <1>4, <1>5 DEF Screens
<1>7. Cur(u) = Cur(t) /\ \A n : At(u, n) = At(t, n)
  BY <1>6 DEF Cur, At
<1>8. W * k + 0 <= Cur(u)
  <2>1. Cur(u) = W * k + t.column /\ t.column \in Nat
    BY <1>1, <1>7, CursorIs, ScreenFacts
  <2>. QED  BY <1>0, <2>1
<1>9. ASSUME NEW y \in 0 .. k - 1, NEW x \in 0 .. W - 1  PROVE b[y + 1][x + 1] = At(u, W * y + x)
  <2>1. y \in 0 .. H - 1 /\ y + 1 \in 1 .. k
    BY <1>0, <1>1
  <2>2. At(u, W * y + x) = u.cell[y + 1][x + 1]
    BY <2>1, CellIn
  <2>. QED  BY <1>4, <1>6, <2>1, <2>2
<1>. QED  BY <1>4, <1>6, <1>7, <1>8, <1>9 DEF Clean, Kept

\* The clear command.
LEMMA ClearIs ==
  ASSUME NEW t \in Screens, NEW u, u = terminal_clear_to_anchor(t), Kept(t, 0)
  PROVE  u \in Screens /\ Clean(u) /\ Kept(u, 0)
<1>0. /\ t.anchor \in 0 .. H - 1 /\ t.anchor \in Nat /\ t.cell \in [1 .. H -> Row]
      /\ W \in Nat \ {0} /\ H \in Nat
  BY Dims, ScreenFacts
<1>1. PICK a \in 0 .. H - 1 : a = t.anchor
  BY <1>0
<1>2. PICK g : g = [y \in 1 .. H |-> IF y > a THEN BlankRow ELSE t.cell[y]]
  OBVIOUS
<1>3. BlankRow \in Row /\ \A x \in 1 .. W : BlankRow[x] = Blank
  BY DEF BlankRow, Row, Glyphs
<1>4. g \in [1 .. H -> Row] /\ \A y \in 1 .. H : g[y] = IF y > a THEN BlankRow ELSE t.cell[y]
  BY <1>0, <1>2, <1>3
<1>5. u = [t EXCEPT !.cell = g, !.row = a, !.column = 0]
  BY <1>1, <1>2 DEF terminal_clear_to_anchor, Screens
<1>6. /\ u \in Screens /\ u.cell = g /\ u.row = a /\ u.column = 0 /\ u.anchor = a
      /\ u.above = t.above
  <2>1. 0 \in 0 .. W - 1
    BY <1>0
  <2>. QED  BY <1>1, <1>4, <1>5, <2>1 DEF Screens
<1>7. Cur(u) = W * a + 0
  BY <1>6, CursorIs
<1>8. ASSUME NEW n \in Area, Cur(u) <= n  PROVE At(u, n) = Blank
  <2>1. PICK y \in 0 .. H - 1, x \in 0 .. W - 1 : n = W * y + x
    BY CellOut
  <2>2. W * a <= W * y + x
    BY <1>0, <1>7, <1>8, <2>1
  <2>3. a <= y
    BY <1>0, <2>2, RowsApart
  <2>4. At(u, n) = g[y + 1][x + 1]
    BY <1>6, <2>1, CellIn
  <2>5. y + 1 \in 1 .. H /\ y + 1 > a /\ x + 1 \in 1 .. W
    BY <1>0, <2>3
  <2>. QED  BY <1>3, <1>4, <2>4, <2>5
<1>9. ASSUME NEW y \in 0 .. a - 1, NEW x \in 0 .. W - 1
      PROVE  u.above[y + 1][x + 1] = At(u, W * y + x)
  <2>1. y \in 0 .. H - 1 /\ y + 1 \in 1 .. H /\ ~(y + 1 > a)
    BY <1>0
  <2>2. At(u, W * y + x) = g[y + 1][x + 1] /\ At(t, W * y + x) = t.cell[y + 1][x + 1]
    BY <1>6, <2>1, CellIn
  <2>3. t.above[y + 1][x + 1] = At(t, W * y + x)
    BY <1>1 DEF Kept
  <2>. QED  BY <1>4, <1>6, <2>1, <2>2, <2>3
<1>10. Len(u.above) = a /\ W * a + 0 <= Cur(u)
  BY <1>0, <1>1, <1>6, <1>7 DEF Kept
<1>. QED  BY <1>6, <1>8, <1>9, <1>10 DEF Clean, Kept

\* The screen at the start.
LEMMA StartIs == terminal_initialize \in Screens /\ Clean(terminal_initialize)
<1>0. W \in Nat \ {0} /\ H \in Nat \ {0}
  BY Dims
<1>1. PICK t : t = terminal_initialize
  OBVIOUS
<1>2. BlankRow \in Row /\ \A x \in 1 .. W : BlankRow[x] = Blank
  BY DEF BlankRow, Row, Glyphs
<1>3. <<>> \in Seq(Row)
  OBVIOUS
<1>4. t \in Screens
  BY <1>0, <1>1, <1>2, <1>3 DEF terminal_initialize, Screens
<1>5. \A y \in 1 .. H : t.cell[y] = BlankRow
  BY <1>1 DEF terminal_initialize
<1>6. ASSUME NEW n \in Area  PROVE At(t, n) = Blank
  <2>1. PICK y \in 0 .. H - 1, x \in 0 .. W - 1 : n = W * y + x
    BY CellOut
  <2>2. At(t, n) = t.cell[y + 1][x + 1]
    BY <2>1, CellIn
  <2>3. y + 1 \in 1 .. H /\ x + 1 \in 1 .. W
    BY <1>0
  <2>. QED  BY <1>2, <1>5, <2>2, <2>3
<1>. QED  BY <1>1, <1>4, <1>6 DEF Clean

-----------------------------------------------------------------------------
(***************************************************************************)
(* What stands before the cursor: the prompt, the cells of the line, and   *)
(* the cells left of tabs that were erased.                                *)
(***************************************************************************)
P == Len(Prompt)

\* The k first elements of f end at cell e.
Text(t, f, k, e) == \A j \in 1 .. k : At(t, e - k + j - 1) = f[j]

\* The n elements of c are the line, with l cells left over.
Shown(t, c, n, l) ==
  /\ l = 0 => P + n <= Cur(t) /\ Text(t, c, n, Cur(t))
  /\ P + n + l <= Cur(t) => Text(t, Prompt, P, Cur(t) - n - l)

LEMMA PromptFits == P \in Nat /\ MAX \in Nat \ {0} /\ W * (H - 1) \in Nat /\ P + 4 * (MAX - 1) <= W * (H - 1)
BY ConsoleAssumption, TextIn, Dims DEF P

\* A text before the cursor goes up with the screen, or stays under a backspace.
LEMMA TextGoes ==
  ASSUME NEW t \in Screens, NEW u \in Screens, NEW g, NEW d \in {0, W}, Drawn(t, u, g, d),
         NEW f, NEW k \in Nat, NEW e \in Nat, k + d <= e, e <= Cur(t), Text(t, f, k, e)
  PROVE  Text(u, f, k, e - d)
<1>0. W \in Nat \ {0} /\ W * H \in Nat /\ d \in Nat /\ Cur(t) \in Nat /\ Cur(t) < W * H
  BY Dims, CursorIs
<1>1. ASSUME NEW j \in 1 .. k  PROVE At(u, e - d - k + j - 1) = f[j]
  <2>1. PICK n \in Area : n = e - d - k + j - 1
    BY <1>0 DEF Area
  <2>2. n \in Nat /\ n + d = e - k + j - 1 /\ n + d < Cur(t) /\ n + d < W * H /\ n + d # Cur(t)
    BY <1>0, <2>1 DEF Area
  <2>3. At(u, n) = At(t, n + d)
    BY <2>2 DEF Drawn
  <2>4. At(t, e - k + j - 1) = f[j]
    BY DEF Text
  <2>. QED  BY <2>1, <2>2, <2>3, <2>4
<1>. QED  BY <1>1 DEF Text

LEMMA TextStays ==
  ASSUME NEW t \in Screens, NEW u \in Screens, Erased(t, u),
         NEW f, NEW k \in Nat, NEW e \in Nat, k <= e, e < Cur(t), Text(t, f, k, e)
  PROVE  Text(u, f, k, e)
<1>0. W * H \in Nat /\ Cur(t) \in Nat /\ Cur(t) < W * H
  BY Dims, CursorIs
<1>1. ASSUME NEW j \in 1 .. k  PROVE At(u, e - k + j - 1) = f[j]
  <2>1. PICK n \in Area : n = e - k + j - 1
    BY <1>0 DEF Area
  <2>2. n # Cur(t) - 1
    BY <1>0, <2>1
  <2>3. At(u, n) = At(t, n)
    BY <2>2 DEF Erased
  <2>. QED  BY <2>1, <2>3 DEF Text
<1>. QED  BY <1>1 DEF Text

\* A character is shown at the end of the text.
LEMMA TextGrows ==
  ASSUME NEW t \in Screens, NEW u \in Screens, NEW f, NEW k \in Nat, NEW d \in {0, W},
         Drawn(t, u, f[k + 1], d), k + 1 <= Cur(u), k <= Cur(t), Text(t, f, k, Cur(t))
  PROVE  Text(u, f, k + 1, Cur(u))
<1>0. /\ W \in Nat \ {0} /\ W * H \in Nat /\ d \in Nat /\ Cur(t) \in Nat /\ Cur(t) < W * H
      /\ Cur(u) = Cur(t) + 1 - d /\ Cur(u) \in Nat /\ Cur(u) < W * H
  BY Dims, CursorIs DEF Drawn
<1>1. k + d <= Cur(t)
  BY <1>0
<1>2. Text(u, f, k, Cur(t) - d)
  BY <1>0, <1>1, TextGoes
<1>3. ASSUME NEW j \in 1 .. k + 1  PROVE At(u, Cur(u) - (k + 1) + j - 1) = f[j]
  <2>1. CASE j = k + 1
    <3>1. PICK n \in Area : n = Cur(u) - 1
      BY <1>0 DEF Area
    <3>2. n + d = Cur(t) /\ n = Cur(u) - (k + 1) + j - 1
      BY <1>0, <2>1, <3>1
    <3>. QED  BY <2>1, <3>2 DEF Drawn
  <2>2. CASE j # k + 1
    <3>1. j \in 1 .. k /\ Cur(u) - (k + 1) + j - 1 = Cur(t) - d - k + j - 1
      BY <1>0, <2>2
    <3>. QED  BY <1>2, <3>1 DEF Text
  <2>. QED  BY <2>1, <2>2
<1>. QED  BY <1>3 DEF Text

\* A character of the line, where the whole line fits between the prompt and the
\* last row: what scrolls away is above the prompt.
LEMMA ShownGrows ==
  ASSUME NEW t \in Screens, NEW c, NEW n \in Nat, NEW l \in Nat, Shown(t, c, n, l),
         P + n + 1 <= W * (H - 1), c[n + 1] \in Glyphs, NEW u, u = Glyph(t, c[n + 1])
  PROVE  u \in Screens /\ Shown(u, c, n + 1, l)
<1>1. u \in Screens
  BY GlyphIs
<1>2. PICK d \in {0, W} : Drawn(t, u, c[n + 1], d)
  BY GlyphIs
<1>0. /\ W \in Nat \ {0} /\ d \in Nat /\ Cur(t) \in Nat /\ Cur(u) \in Nat /\ P \in Nat
      /\ Cur(u) = Cur(t) + 1 - d /\ (d # 0 => Cur(u) = W * (H - 1))
  BY <1>1, <1>2, Dims, CursorIs, PromptFits DEF Drawn
<1>3. ASSUME l = 0  PROVE P + (n + 1) <= Cur(u) /\ Text(u, c, n + 1, Cur(u))
  <2>1. P + n <= Cur(t) /\ Text(t, c, n, Cur(t))
    BY <1>3 DEF Shown
  <2>2. P + (n + 1) <= Cur(u)
    BY <1>0, <2>1
  <2>3. n <= Cur(t) /\ n + 1 <= Cur(u)
    BY <1>0, <2>1, <2>2
  <2>. QED  BY <1>1, <1>2, <2>1, <2>2, <2>3, TextGrows
<1>4. ASSUME P + (n + 1) + l <= Cur(u)  PROVE Text(u, Prompt, P, Cur(u) - (n + 1) - l)
  <2>1. P + n + l <= Cur(t)
    BY <1>0, <1>4
  <2>2. PICK e \in Nat : e = Cur(t) - n - l
    BY <1>0, <2>1
  <2>3. Text(t, Prompt, P, e)
    BY <2>1, <2>2 DEF Shown
  <2>4. P + d <= e /\ e <= Cur(t) /\ e - d = Cur(u) - (n + 1) - l
    BY <1>0, <1>4, <2>2
  <2>5. Text(u, Prompt, P, e - d)
    BY <1>0, <1>1, <1>2, <2>3, <2>4, TextGoes
  <2>. QED  BY <2>4, <2>5
<1>. QED  BY <1>1, <1>3, <1>4 DEF Shown

\* A character of w cells is erased, and leaves w - 1 of them.
LEMMA ShownErased ==
  ASSUME NEW t \in Screens, NEW c, NEW n \in Nat, NEW w \in Nat \ {0}, NEW l \in Nat,
         Shown(t, c, n + w, l), NEW u, u = Backspace(t)
  PROVE  u \in Screens /\ Shown(u, c, n, l + w - 1)
<1>1. u \in Screens
  BY BackIs
<1>0. Cur(t) \in Nat /\ Cur(u) \in Nat /\ P \in Nat
  BY <1>1, CursorIs, PromptFits
<1>2. CASE Cur(t) = 0
  <2>1. Cur(u) = 0
    BY <1>2, BackIs
  <2>2. l + w - 1 # 0
    BY <1>0, <1>2 DEF Shown
  <2>3. ~(P + n + (l + w - 1) <= Cur(u))
    BY <1>0, <2>1, <2>2
  <2>. QED  BY <1>1, <2>2, <2>3 DEF Shown
<1>3. CASE Cur(t) # 0
  <2>1. Erased(t, u) /\ Cur(u) = Cur(t) - 1
    BY <1>3, BackIs DEF Erased
  <2>2. ASSUME l + w - 1 = 0  PROVE P + n <= Cur(u) /\ Text(u, c, n, Cur(u))
    <3>1. w = 1 /\ l = 0
      BY <2>2
    <3>2. P + (n + 1) <= Cur(t) /\ Text(t, c, n + 1, Cur(t))
      BY <3>1 DEF Shown
    <3>3. ASSUME NEW j \in 1 .. n  PROVE At(t, Cur(u) - n + j - 1) = c[j]
      <4>1. j \in 1 .. n + 1 /\ Cur(u) - n + j - 1 = Cur(t) - (n + 1) + j - 1
        BY <1>0, <2>1
      <4>. QED  BY <3>2, <4>1 DEF Text
    <3>4. Text(t, c, n, Cur(u)) /\ n <= Cur(u) /\ Cur(u) < Cur(t) /\ P + n <= Cur(u)
      BY <1>0, <2>1, <3>2, <3>3 DEF Text
    <3>. QED  BY <1>0, <1>1, <2>1, <3>4, TextStays
  <2>3. ASSUME P + n + (l + w - 1) <= Cur(u)  PROVE Text(u, Prompt, P, Cur(u) - n - (l + w - 1))
    <3>1. PICK e \in Nat : e = Cur(t) - (n + w) - l /\ e = Cur(u) - n - (l + w - 1)
      BY <1>0, <2>1, <2>3
    <3>2. P + (n + w) + l <= Cur(t) /\ P <= e /\ e < Cur(t)
      BY <1>0, <2>1, <2>3, <3>1
    <3>3. Text(t, Prompt, P, e)
      BY <3>1, <3>2 DEF Shown
    <3>4. Text(u, Prompt, P, e)
      BY <1>0, <1>1, <2>1, <3>2, <3>3, TextStays
    <3>. QED  BY <3>1, <3>4
  <2>. QED  BY <1>1, <2>2, <2>3 DEF Shown
<1>. QED  BY <1>2, <1>3

\* More cells are left over than the screen has: the prompt has scrolled away.
LEMMA ShownCapped ==
  ASSUME NEW t \in Screens, NEW c, NEW n \in Nat, NEW l \in Nat, l > W * H, Shown(t, c, n, l)
  PROVE  Shown(t, c, n, W * H)
<1>1. W * H \in Nat /\ Cur(t) \in Nat /\ Cur(t) < W * H /\ P \in Nat
  BY Dims, CursorIs, PromptFits
<1>2. W * H # 0 /\ ~(P + n + W * H <= Cur(t))
  BY <1>1
<1>. QED  BY <1>2 DEF Shown

\* Only the cells of the line matter.
LEMMA ShownSame ==
  ASSUME NEW t, NEW b, NEW c, NEW n \in Nat, NEW l, Shown(t, b, n, l), \A j \in 1 .. n : c[j] = b[j]
  PROVE  Shown(t, c, n, l)
BY DEF Shown, Text

\* The prompt.
LEMMA PromptShown ==
  ASSUME NEW t \in Screens, NEW u, u = terminal_write(t, Prompt)
  PROVE  Shown(u, <<>>, 0, 0)
<1>0. P \in Nat /\ P <= W * (H - 1) /\ W * (H - 1) \in Nat
  BY PromptFits
<1>1. /\ Prompt \in Seq(Glyphs) /\ \A i \in 1 .. P : Prompt[i] \in Range(Prompt) /\ Prompt[i] \in Glyphs
  BY TextIn, ElementOfSeq DEF P
<1>w. PICK w : Steps(w, t, Prompt, P)
  BY <1>0, WriteIs DEF P
<1>2. /\ w[0] = t /\ terminal_write(t, Prompt) = w[P]
      /\ \A i \in 0 .. P - 1 : w[i + 1] = terminal_putchar(w[i], Prompt[i + 1])
  BY <1>w DEF Steps
<1>. DEFINE S == {i \in 0 .. P : w[i] \in Screens /\ i <= Cur(w[i]) /\ Text(w[i], Prompt, i, Cur(w[i]))}
<1>3. 0 \in S
  BY <1>0, <1>2, CursorIs DEF Text
<1>4. ASSUME NEW i \in 0 .. P - 1, i \in S  PROVE i + 1 \in S
  <2>1. i + 1 \in 1 .. P /\ i + 1 \in 0 .. P /\ i \in Nat
    BY <1>0
  <2>2. PICK v \in Screens : v = w[i]
    BY <1>4
  <2>3. PICK c \in Glyphs : c = Prompt[i + 1] /\ c \in Range(Prompt)
    BY <1>1, <2>1
  <2>4. PICK x : x = Glyph(v, c) /\ x = w[i + 1]
    <3>1. c \notin {NL, BS, TAB}
      BY <2>3, ConsoleAssumption
    <3>. QED  BY <1>2, <2>2, <2>3, <3>1 DEF terminal_putchar
  <2>5. x \in Screens
    BY <2>4, GlyphIs
  <2>6. PICK d \in {0, W} : Drawn(v, x, c, d)
    BY <2>4, GlyphIs
  <2>7. i <= Cur(v) /\ Text(v, Prompt, i, Cur(v))
    BY <1>4, <2>2
  <2>8. i + 1 <= Cur(x)
    <3>1. Cur(x) = Cur(v) + 1 - d /\ (d # 0 => Cur(x) = W * (H - 1)) /\ Cur(v) \in Nat
      BY <2>6, CursorIs DEF Drawn
    <3>. QED  BY <1>0, <2>1, <2>7, <3>1
  <2>9. Text(x, Prompt, i + 1, Cur(x))
    BY <2>1, <2>3, <2>5, <2>6, <2>7, <2>8, TextGrows
  <2>. QED  BY <2>1, <2>4, <2>5, <2>8, <2>9
<1>5. P \in S
  <2>1. PICK T : T = S
    OBVIOUS
  <2>2. 0 \in T /\ \A i \in 0 .. P - 1 : i \in T => i + 1 \in T
    BY <1>3, <1>4, <2>1
  <2>3. P \in 0 .. P
    BY <1>0
  <2>4. P \in T
    BY <1>0, <2>2, <2>3, CountUp
  <2>. QED  BY <2>1, <2>4
<1>6. u \in Screens /\ P <= Cur(u) /\ Text(u, Prompt, P, Cur(u))
  BY <1>2, <1>5
<1>7. Cur(u) \in Nat
  BY <1>6, CursorIs
<1>8. P + 0 <= Cur(u) /\ Cur(u) - 0 - 0 = Cur(u) /\ Text(u, <<>>, 0, Cur(u))
  BY <1>0, <1>6, <1>7 DEF Text
<1>. QED  BY <1>6, <1>8 DEF Shown

-----------------------------------------------------------------------------
(***************************************************************************)
(* The cells of a line.                                                    *)
(***************************************************************************)
LEMMA CellsOfIs ==
  ASSUME NEW c \in Chars
  PROVE  /\ CellsOf(c) \in Seq(Glyphs) /\ Len(CellsOf(c)) \in 1 .. 4
         /\ c = TAB => Len(CellsOf(c)) = 4 /\ \A j \in 1 .. 4 : CellsOf(c)[j] = Blank
         /\ c # TAB => Len(CellsOf(c)) = 1 /\ CellsOf(c)[1] = c
<1>1. c \in Glyphs /\ Blank \in Glyphs
  BY DEF Glyphs
<1>2. CASE c = TAB
  <2>1. CellsOf(c) = <<Blank, Blank, Blank, Blank>>
    BY <1>2 DEF CellsOf
  <2>2. PICK q : q = <<Blank, Blank, Blank, Blank>>
    OBVIOUS
  <2>3. q \in Seq(Glyphs) /\ Len(q) = 4 /\ \A j \in 1 .. 4 : q[j] = Blank
    BY <1>1, <2>2
  <2>. QED  BY <1>2, <2>1, <2>2, <2>3
<1>3. CASE c # TAB
  <2>1. CellsOf(c) = <<c>>
    BY <1>3 DEF CellsOf
  <2>. QED  BY <1>1, <1>3, <2>1
<1>. QED  BY <1>2, <1>3

\* f[i] is the cells of the i first characters of s.
Lays(f, s, n) == f = [i \in 0 .. n |-> IF i = 0 THEN <<>> ELSE f[i - 1] \o CellsOf(s[i])]
Laid(f, s, n) == f[0] = <<>> /\ \A i \in 1 .. n : f[i] = f[i - 1] \o CellsOf(s[i])

LEMMA LayOne ==
  ASSUME NEW s, NEW n \in Nat, NEW f, Lays(f, s, n)
  PROVE  \E g : Lays(g, s, n + 1)
<1>. DEFINE g == [i \in 0 .. n + 1 |-> IF i = n + 1 THEN f[n] \o CellsOf(s[n + 1]) ELSE f[i]]
<1>1. \A i \in 0 .. n : g[i] = f[i] /\ i \in 0 .. n + 1
  OBVIOUS
<1>2. ASSUME NEW i \in 0 .. n + 1
      PROVE  g[i] = IF i = 0 THEN <<>> ELSE g[i - 1] \o CellsOf(s[i])
  <2>1. CASE i = n + 1
    <3>1. i # 0 /\ i - 1 = n /\ n \in 0 .. n
      BY <2>1
    <3>2. g[i] = f[n] \o CellsOf(s[i])
      BY <2>1
    <3>. QED  BY <1>1, <3>1, <3>2
  <2>2. CASE i # n + 1
    <3>1. i \in 0 .. n
      BY <2>2
    <3>2. g[i] = IF i = 0 THEN <<>> ELSE f[i - 1] \o CellsOf(s[i])
      BY <1>1, <3>1 DEF Lays
    <3>3. i # 0 => i - 1 \in 0 .. n
      BY <3>1
    <3>. QED  BY <1>1, <3>2, <3>3
  <2>. QED  BY <2>1, <2>2
<1>3. g = [i \in 0 .. n + 1 |-> g[i]]
  OBVIOUS
<1>4. Lays(g, s, n + 1)
  <2>. HIDE DEF g
  <2>. QED  BY <1>2, <1>3, Zenon DEF Lays
<1>. QED  BY <1>4

LEMMA CellsLaid ==
  ASSUME NEW s, Len(s) \in Nat
  PROVE  \E f : Laid(f, s, Len(s)) /\ Cells(s) = f[Len(s)]
<1>0. PICK n \in Nat : n = Len(s)
  OBVIOUS
<1>. DEFINE S == {i \in Nat : \E f : Lays(f, s, i)}
<1>1. 0 \in S
  <2>1. Lays([i \in 0 .. 0 |-> <<>>], s, 0)
    BY DEF Lays
  <2>. QED  BY <2>1
<1>2. \A i \in 0 .. n - 1 : i \in S => i + 1 \in S
  BY LayOne
<1>3. n \in S
  <2>1. n \in 0 .. n
    OBVIOUS
  <2>2. PICK T : T = S
    OBVIOUS
  <2>3. 0 \in T /\ \A i \in 0 .. n - 1 : i \in T => i + 1 \in T
    BY <1>1, <1>2, <2>2
  <2>4. n \in T
    BY <2>1, <2>3, CountUp
  <2>. QED  BY <2>2, <2>4
<1>4. \E f : f = [i \in 0 .. Len(s) |-> IF i = 0 THEN <<>> ELSE f[i - 1] \o CellsOf(s[i])]
  BY <1>0, <1>3 DEF Lays
<1>. DEFINE cells == CHOOSE f : f = [i \in 0 .. Len(s) |-> IF i = 0 THEN <<>> ELSE f[i - 1] \o CellsOf(s[i])]
<1>5. Cells(s) = cells[Len(s)]
  BY Zenon DEF Cells
<1>6. cells = [i \in 0 .. Len(s) |-> IF i = 0 THEN <<>> ELSE cells[i - 1] \o CellsOf(s[i])]
  BY <1>4, Zenon
<1>7. PICK f : f = cells
  OBVIOUS
<1>8. f = [i \in 0 .. n |-> IF i = 0 THEN <<>> ELSE f[i - 1] \o CellsOf(s[i])]
  BY <1>0, <1>6, <1>7, Zenon
<1>9. f[0] = <<>>
  BY <1>8
<1>10. ASSUME NEW i \in 1 .. n  PROVE f[i] = f[i - 1] \o CellsOf(s[i])
  <2>1. i \in 0 .. n /\ i # 0
    OBVIOUS
  <2>2. PICK r : r = [j \in 0 .. n |-> IF j = 0 THEN <<>> ELSE f[j - 1] \o CellsOf(s[j])]
    OBVIOUS
  <2>3. r[i] = IF i = 0 THEN <<>> ELSE f[i - 1] \o CellsOf(s[i])
    BY <2>1, <2>2, Zenon
  <2>4. r[i] = f[i - 1] \o CellsOf(s[i])
    BY <2>1, <2>3, Zenon
  <2>5. f = r
    BY <1>8, <2>2, Zenon
  <2>. QED  BY <2>4, <2>5, Zenon
<1>11. Laid(f, s, Len(s))
  BY <1>0, <1>9, <1>10, Zenon DEF Laid
<1>. QED  BY <1>5, <1>7, <1>11, Zenon

\* A line and a longer one have the same cells as far as they are the same.
LEMMA CellsPrefix ==
  ASSUME NEW s, NEW n \in Nat, NEW f, Laid(f, s, n),
         NEW r, Len(r) \in 0 .. n, \A i \in 1 .. Len(r) : r[i] = s[i]
  PROVE  Cells(r) = f[Len(r)]
<1>0. PICK k \in Nat : k = Len(r) /\ k <= n
  OBVIOUS
<1>1. PICK g : Laid(g, r, k) /\ Cells(r) = g[k]
  BY <1>0, CellsLaid
<1>. DEFINE S == {i \in 0 .. k : g[i] = f[i]}
<1>2. 0 \in S
  BY <1>1 DEF Laid
<1>3. ASSUME NEW i \in 0 .. k - 1, i \in S  PROVE i + 1 \in S
  <2>1. i + 1 \in 1 .. k /\ i + 1 \in 0 .. k /\ i \in 0 .. n - 1
    BY <1>0
  <2>2. g[i + 1] = g[i] \o CellsOf(r[i + 1]) /\ f[i + 1] = f[i] \o CellsOf(s[i + 1])
    <3>1. PICK j \in 1 .. k : j = i + 1 /\ j \in 1 .. n /\ j - 1 = i
      BY <1>0, <2>1
    <3>2. g[j] = g[j - 1] \o CellsOf(r[j]) /\ f[j] = f[j - 1] \o CellsOf(s[j])
      BY <1>1, <3>1 DEF Laid
    <3>. QED  BY <3>1, <3>2
  <2>3. r[i + 1] = s[i + 1] /\ g[i] = f[i]
    BY <1>0, <1>3, <2>1
  <2>. QED  BY <2>1, <2>2, <2>3
<1>4. k \in S
  <2>1. k \in 0 .. k
    OBVIOUS
  <2>2. PICK T : T = S
    OBVIOUS
  <2>3. 0 \in T /\ \A i \in 0 .. k - 1 : i \in T => i + 1 \in T
    BY <1>2, <1>3, <2>2
  <2>4. k \in T
    BY <2>1, <2>3, CountUp
  <2>. QED  BY <2>2, <2>4
<1>. QED  BY <1>0, <1>1, <1>4

\* Every character has one cell or four.
LEMMA LaidLen ==
  ASSUME NEW s \in Seq(Chars), NEW f, Laid(f, s, Len(s))
  PROVE  \A i \in 0 .. Len(s) : /\ f[i] \in Seq(Glyphs) /\ Len(f[i]) \in Nat
                                /\ i <= Len(f[i]) /\ Len(f[i]) <= 4 * i
<1>0. PICK n \in Nat : n = Len(s)
  BY LenProperties
<1>. DEFINE S == {i \in 0 .. n : /\ f[i] \in Seq(Glyphs) /\ Len(f[i]) \in Nat
                                 /\ i <= Len(f[i]) /\ Len(f[i]) <= 4 * i}
<1>1. 0 \in S
  <2>1. f[0] = <<>> /\ <<>> \in Seq(Glyphs) /\ Len(<<>>) = 0
    BY DEF Laid
  <2>2. f[0] \in Seq(Glyphs) /\ Len(f[0]) = 0 /\ 0 \in 0 .. n
    BY <2>1
  <2>3. Len(f[0]) \in Nat /\ 0 <= Len(f[0]) /\ Len(f[0]) <= 4 * 0
    BY <2>2
  <2>. QED  BY <2>2, <2>3
<1>2. ASSUME NEW i \in 0 .. n - 1, i \in S  PROVE i + 1 \in S
  <2>1. i + 1 \in 0 .. n /\ s[i + 1] \in Chars
    BY <1>0, ElementOfSeq
  <2>2. PICK q : q = CellsOf(s[i + 1])
    OBVIOUS
  <2>3. q \in Seq(Glyphs) /\ Len(q) \in 1 .. 4
    BY <2>1, <2>2, CellsOfIs
  <2>4. PICK b \in Seq(Glyphs) : b = f[i] /\ Len(b) \in Nat /\ i <= Len(b) /\ Len(b) <= 4 * i
    BY <1>2
  <2>5. f[i + 1] = b \o q
    <3>1. PICK j \in 1 .. n : j = i + 1 /\ j - 1 = i
      BY <2>1
    <3>2. f[j] = f[j - 1] \o CellsOf(s[j])
      BY <1>0 DEF Laid
    <3>. QED  BY <2>2, <2>4, <3>1, <3>2
  <2>6. b \o q \in Seq(Glyphs) /\ Len(b \o q) = Len(b) + Len(q)
    BY <2>3, ConcatProperties
  <2>7. Len(b) + Len(q) \in Nat /\ i + 1 <= Len(b) + Len(q) /\ Len(b) + Len(q) <= 4 * (i + 1)
    <3>1. PICK x \in Nat, y \in 1 .. 4 : x = Len(b) /\ y = Len(q) /\ i <= x /\ x <= 4 * i
      BY <2>3, <2>4
    <3>2. i \in Nat /\ y \in Nat /\ 1 <= y /\ y <= 4
      OBVIOUS
    <3>3. i <= x /\ x <= 4 * i
      BY <3>1
    <3>4. x + y \in Nat /\ i + 1 <= x + y /\ x + y <= 4 * (i + 1)
      BY <3>2, <3>3
    <3>. QED  BY <3>1, <3>4
  <2>. QED  BY <2>1, <2>5, <2>6, <2>7
<1>3. \A i \in 0 .. n : i \in S
  <2>2. PICK T : T = S
    OBVIOUS
  <2>3. 0 \in T /\ \A i \in 0 .. n - 1 : i \in T => i + 1 \in T
    BY <1>1, <1>2, <2>2
  <2>4. \A i \in 0 .. n : i \in T
    BY <2>3, CountUp
  <2>. QED  BY <2>2, <2>4
<1>. QED  BY <1>0, <1>3

-----------------------------------------------------------------------------
(***************************************************************************)
(* The line editor on the screen.                                          *)
(***************************************************************************)
\* A character is typed, or printed from the history.
LEMMA KeyShown ==
  ASSUME NEW t \in Screens, NEW c \in Chars, NEW b \in Seq(Glyphs), NEW l \in Nat,
         Shown(t, b, Len(b), l), NEW g, g = b \o CellsOf(c), P + Len(g) <= W * (H - 1),
         NEW u, u = terminal_putchar(t, c)
  PROVE  Shown(u, g, Len(g), l)
<1>0. PICK n \in Nat : n = Len(b)
  BY LenProperties
<1>1. PICK q : q = CellsOf(c)
  OBVIOUS
<1>2. /\ q \in Seq(Glyphs) /\ Len(q) \in Nat
      /\ c = TAB => Len(q) = 4 /\ \A j \in 1 .. 4 : q[j] = Blank
      /\ c # TAB => Len(q) = 1 /\ q[1] = c
  BY <1>1, CellsOfIs
<1>w. PICK w \in Nat : w = Len(q)
  BY <1>2
<1>x. (c = TAB => w = 4) /\ (c # TAB => w = 1)
  BY <1>2, <1>w
<1>3. /\ Len(g) = n + w
      /\ \A i \in 1 .. n + w : g[i] = IF i <= n THEN b[i] ELSE q[i - n]
  BY <1>0, <1>1, <1>2, <1>w, ConcatProperties
<1>4. \A j \in 1 .. n : g[j] = b[j]
  BY <1>3
<1>5. Shown(t, g, n, l)
  BY <1>0, <1>4, ShownSame
<1>6. P \in Nat /\ W * (H - 1) \in Nat /\ Blank \in Glyphs /\ c \in Glyphs /\ c # NL /\ c # BS
  BY PromptFits, ConsoleAssumption DEF Glyphs
<1>7. CASE c = TAB
  <2>1. PICK n1 \in Nat, n2 \in Nat, n3 \in Nat, n4 \in Nat :
           n1 = n + 1 /\ n2 = n1 + 1 /\ n3 = n2 + 1 /\ n4 = n3 + 1
    OBVIOUS
  <2>2. Len(g) = n4 /\ n1 - n = 1 /\ n2 - n = 2 /\ n3 - n = 3 /\ n4 - n = 4
    BY <1>x, <1>3, <1>7, <2>1
  <2>3. g[n1] = Blank /\ g[n2] = Blank /\ g[n3] = Blank /\ g[n4] = Blank
    <3>1. \A i \in n + 1 .. n + 4 : g[i] = q[i - n] /\ i - n \in 1 .. 4
      BY <1>x, <1>3, <1>7
    <3>2. \A i \in n + 1 .. n + 4 : g[i] = Blank
      BY <1>2, <1>7, <3>1
    <3>3. n1 \in n + 1 .. n + 4 /\ n2 \in n + 1 .. n + 4 /\ n3 \in n + 1 .. n + 4 /\ n4 \in n + 1 .. n + 4
      BY <2>1
    <3>. QED  BY <3>2, <3>3
  <2>4. P + n1 <= W * (H - 1) /\ P + n2 <= W * (H - 1) /\ P + n3 <= W * (H - 1) /\ P + n4 <= W * (H - 1)
    BY <1>6, <2>1, <2>2
  <2>5. PICK v1 : v1 = Glyph(t, Blank)
    OBVIOUS
  <2>6. PICK v2 : v2 = Glyph(v1, Blank)
    OBVIOUS
  <2>7. PICK v3 : v3 = Glyph(v2, Blank)
    OBVIOUS
  <2>8. u = Glyph(v3, Blank)
    BY <1>6, <1>7, <2>5, <2>6, <2>7 DEF terminal_putchar
  <2>. DEFINE More(x, y, m) ==
         x \in Screens /\ Shown(x, g, m, l) /\ P + m + 1 <= W * (H - 1) /\ g[m + 1] = Blank /\ y = Glyph(x, Blank)
  <2>9. ASSUME NEW x, NEW y, NEW m \in Nat, More(x, y, m)  PROVE y \in Screens /\ Shown(y, g, m + 1, l)
    <3>1. x \in Screens /\ Shown(x, g, m, l) /\ P + m + 1 <= W * (H - 1) /\ g[m + 1] \in Glyphs /\ y = Glyph(x, g[m + 1])
      BY <1>6, <2>9
    <3>. QED  BY <3>1, ShownGrows
  <2>10. v1 \in Screens /\ Shown(v1, g, n1, l)
    <3>1. More(t, v1, n)
      BY <1>5, <1>6, <2>1, <2>3, <2>4, <2>5
    <3>. HIDE DEF More
    <3>. QED  BY <2>1, <2>9, <3>1
  <2>11. v2 \in Screens /\ Shown(v2, g, n2, l)
    <3>1. More(v1, v2, n1)
      BY <1>6, <2>1, <2>3, <2>4, <2>6, <2>10
    <3>. HIDE DEF More
    <3>. QED  BY <2>1, <2>9, <3>1
  <2>12. v3 \in Screens /\ Shown(v3, g, n3, l)
    <3>1. More(v2, v3, n2)
      BY <1>6, <2>1, <2>3, <2>4, <2>7, <2>11
    <3>. HIDE DEF More
    <3>. QED  BY <2>1, <2>9, <3>1
  <2>13. u \in Screens /\ Shown(u, g, n4, l)
    <3>1. More(v3, u, n3)
      BY <1>6, <2>1, <2>3, <2>4, <2>8, <2>12
    <3>. HIDE DEF More
    <3>. QED  BY <2>1, <2>9, <3>1
  <2>. QED  BY <2>2, <2>13
<1>8. CASE c # TAB
  <2>1. Len(g) = n + 1 /\ g[n + 1] = c
    <3>1. Len(g) = n + 1 /\ n + 1 \in 1 .. n + w /\ ~(n + 1 <= n) /\ n + 1 - n = 1
      BY <1>x, <1>3, <1>8
    <3>. QED  BY <1>2, <1>3, <1>8, <3>1
  <2>2. u = Glyph(t, g[n + 1])
    BY <1>6, <1>8, <2>1 DEF terminal_putchar
  <2>3. P + n + 1 <= W * (H - 1) /\ g[n + 1] \in Glyphs
    BY <1>6, <2>1
  <2>. QED  BY <1>5, <2>1, <2>2, <2>3, ShownGrows
<1>. QED  BY <1>7, <1>8

\* The cells of a line fit between the prompt and the last row.
LEMMA LineFits ==
  ASSUME NEW s \in Lines
  PROVE  /\ Cells(s) \in Seq(Glyphs) /\ Len(Cells(s)) \in Nat /\ Len(s) \in Nat
         /\ Len(s) <= Len(Cells(s)) /\ P + Len(Cells(s)) <= W * (H - 1)
<1>1. s \in Seq(Chars) /\ Len(s) \in Nat /\ Len(s) < MAX
  BY LenProperties DEF Lines
<1>2. PICK f : Laid(f, s, Len(s)) /\ Cells(s) = f[Len(s)]
  BY <1>1, CellsLaid
<1>3. Len(s) \in 0 .. Len(s)
  BY <1>1
<1>4. /\ Cells(s) \in Seq(Glyphs) /\ Len(Cells(s)) \in Nat /\ Len(s) <= Len(Cells(s))
      /\ Len(Cells(s)) <= 4 * Len(s)
  BY <1>1, <1>2, <1>3, LaidLen
<1>5. PICK k \in Nat, x \in Nat : k = Len(s) /\ x = Len(Cells(s)) /\ x <= 4 * k
  BY <1>1, <1>4
<1>6. k <= MAX - 1 /\ P + 4 * (MAX - 1) <= W * (H - 1) /\ P \in Nat /\ MAX \in Nat /\ W * (H - 1) \in Nat
  BY <1>1, <1>5, PromptFits
<1>7. x <= 4 * k
  BY <1>5
<1>8. P + x <= W * (H - 1)
  BY <1>6, <1>7
<1>. QED  BY <1>1, <1>4, <1>5, <1>8

\* One more character.
LEMMA CellsAppend ==
  ASSUME NEW s \in Seq(Chars), NEW c \in Chars
  PROVE  Cells(Append(s, c)) = Cells(s) \o CellsOf(c)
<1>0. PICK k \in Nat : k = Len(s)
  BY LenProperties
<1>1. PICK r : r = Append(s, c)
  OBVIOUS
<1>2. Len(r) = k + 1 /\ r[k + 1] = c /\ \A i \in 1 .. k : s[i] = r[i]
  BY <1>0, <1>1, AppendProperties
<1>3. PICK f : Laid(f, r, k + 1) /\ Cells(r) = f[k + 1]
  <2>1. Len(r) \in Nat
    BY <1>2
  <2>. QED  BY <1>2, <2>1, CellsLaid
<1>4. Cells(s) = f[k]
  <2>1. k + 1 \in Nat /\ Len(s) \in 0 .. k + 1 /\ \A i \in 1 .. Len(s) : s[i] = r[i]
    BY <1>0, <1>2
  <2>. QED  BY <1>0, <1>3, <2>1, CellsPrefix
<1>5. f[k + 1] = f[k] \o CellsOf(c)
  <2>1. PICK j \in 1 .. k + 1 : j = k + 1 /\ j - 1 = k
    OBVIOUS
  <2>2. f[j] = f[j - 1] \o CellsOf(r[j])
    BY <1>3 DEF Laid
  <2>. QED  BY <1>2, <2>1, <2>2
<1>. QED  BY <1>1, <1>3, <1>4, <1>5

\* The cells f[i] of the first i characters of s, and how many they are.
Spread(f, x, s, n) ==
  /\ x \in [0 .. n -> Nat] /\ Cells(s) = f[n] /\ f[0] = <<>> /\ x[0] = 0
  /\ \A i \in 0 .. n : f[i] \in Seq(Glyphs) /\ x[i] = Len(f[i]) /\ P + x[i] <= W * (H - 1)
  /\ \A i \in 1 .. n : /\ x[i - 1] < x[i] /\ s[i] \in Chars /\ f[i] = f[i - 1] \o CellsOf(s[i])
                       /\ \A j \in 1 .. x[i - 1] : f[i - 1][j] = f[i][j]

LEMMA Widths ==
  ASSUME NEW s \in Lines
  PROVE  \E f : \E x : Spread(f, x, s, Len(s))
<1>0. s \in Seq(Chars) /\ Len(s) \in Nat /\ Len(s) < MAX
  BY LenProperties DEF Lines
<1>n. PICK n \in Nat : n = Len(s)
  BY <1>0
<1>1. PICK f : Laid(f, s, n) /\ Cells(s) = f[n]
  BY <1>n, CellsLaid
<1>2. \A i \in 0 .. n : f[i] \in Seq(Glyphs) /\ Len(f[i]) \in Nat /\ Len(f[i]) <= 4 * i
  BY <1>0, <1>n, <1>1, LaidLen
<1>3. PICK x : x = [i \in 0 .. n |-> Len(f[i])]
  OBVIOUS
<1>4. x \in [0 .. n -> Nat] /\ \A i \in 0 .. n : x[i] = Len(f[i]) /\ x[i] \in Nat /\ x[i] <= 4 * i
  BY <1>2, <1>3
<1>5. ASSUME NEW i \in 0 .. n  PROVE P + x[i] <= W * (H - 1)
  <2>1. PICK k \in Nat : k = x[i] /\ k <= 4 * i
    BY <1>4
  <2>2. i \in Nat /\ i <= MAX - 1 /\ MAX \in Nat
    BY <1>0, <1>n, PromptFits
  <2>3. k <= 4 * (MAX - 1)
    BY <2>1, <2>2
  <2>4. P + k <= W * (H - 1)
    BY <2>3, PromptFits
  <2>. QED  BY <2>1, <2>4
<1>6. ASSUME NEW i \in 1 .. n
      PROVE  /\ x[i - 1] < x[i] /\ s[i] \in Chars /\ f[i] = f[i - 1] \o CellsOf(s[i])
             /\ \A j \in 1 .. x[i - 1] : f[i - 1][j] = f[i][j]
  <2>1. i \in 0 .. n /\ i - 1 \in 0 .. n
    OBVIOUS
  <2>2. s[i] \in Chars
    BY <1>0, <1>n, ElementOfSeq
  <2>3. f[i] = f[i - 1] \o CellsOf(s[i])
    BY <1>1 DEF Laid
  <2>4. PICK q : q = CellsOf(s[i])
    OBVIOUS
  <2>5. q \in Seq(Glyphs) /\ Len(q) \in 1 .. 4
    BY <2>2, <2>4, CellsOfIs
  <2>6. PICK b \in Seq(Glyphs) : b = f[i - 1]
    BY <1>2, <2>1
  <2>y. PICK y \in Nat : y = Len(b)
    BY LenProperties
  <2>7. PICK z \in 1 .. 4 : z = Len(q)
    BY <2>5
  <2>8. Len(b \o q) = y + z /\ \A j \in 1 .. y + z : (b \o q)[j] = IF j <= y THEN b[j] ELSE q[j - y]
    BY <2>5, <2>y, <2>7, ConcatProperties
  <2>9. PICK g : g = f[i]
    OBVIOUS
  <2>10. Len(g) = y + z /\ \A j \in 1 .. y + z : g[j] = IF j <= y THEN b[j] ELSE q[j - y]
    BY <2>3, <2>4, <2>6, <2>8, <2>9
  <2>11. x[i - 1] = y /\ x[i] = y + z
    BY <1>4, <2>1, <2>6, <2>y, <2>9, <2>10
  <2>12. y < y + z /\ \A j \in 1 .. y : g[j] = b[j]
    BY <2>10
  <2>. QED  BY <2>2, <2>3, <2>6, <2>9, <2>11, <2>12
<1>7. f[0] = <<>>
  BY <1>1 DEF Laid
<1>8. x[0] = 0
  <2>1. 0 \in 0 .. n
    OBVIOUS
  <2>2. x[0] = Len(f[0])
    BY <1>4, <2>1
  <2>. QED  BY <1>7, <2>2
<1>9. Spread(f, x, s, n)
  BY <1>1, <1>2, <1>4, <1>5, <1>6, <1>7, <1>8 DEF Spread
<1>. QED  BY <1>n, <1>9

\* The line is erased, one backspace for each of its characters.
LEMMA LineErased ==
  ASSUME NEW t \in Screens, NEW s \in Lines, NEW l \in Nat, Shown(t, Cells(s), Len(Cells(s)), l),
         Kept(t, Len(s)), NEW w, w[0] = t, \A i \in 0 .. Len(s) - 1 : w[i + 1] = Backspace(w[i])
  PROVE  /\ w[Len(s)] \in Screens /\ Kept(w[Len(s)], 0) /\ l + Len(Cells(s)) - Len(s) \in Nat
         /\ Shown(w[Len(s)], <<>>, 0, l + Len(Cells(s)) - Len(s))
<1>0. PICK m \in Nat : m = Len(s)
  BY LineFits
<1>1. PICK f, x : Spread(f, x, s, m)
  BY <1>0, Widths
<1>2. /\ x \in [0 .. m -> Nat] /\ Cells(s) = f[m] /\ f[0] = <<>> /\ x[0] = 0
      /\ \A i \in 0 .. m : f[i] \in Seq(Glyphs) /\ x[i] = Len(f[i])
      /\ \A i \in 1 .. m : x[i - 1] < x[i] /\ \A j \in 1 .. x[i - 1] : f[i - 1][j] = f[i][j]
  BY <1>1 DEF Spread
<1>3. \A i \in 0 .. m : x[i] \in Nat
  BY <1>2
<1>. DEFINE S == {i \in 0 .. m : /\ w[i] \in Screens /\ Kept(w[i], m - i)
                                 /\ l + x[m] - x[m - i] - i \in Nat
                                 /\ Shown(w[i], f[m - i], x[m - i], l + x[m] - x[m - i] - i)}
<1>m. m \in 0 .. m /\ 0 \in 0 .. m /\ m - 0 = m /\ m - m = 0
  OBVIOUS
<1>4. 0 \in S
  <2>1. PICK y \in Nat : y = x[m] /\ y = Len(Cells(s))
    BY <1>2, <1>3, <1>m
  <2>2. l + y - y - 0 = l
    OBVIOUS
  <2>3. Shown(w[0], f[m], x[m], l) /\ Kept(w[0], m)
    BY <1>0, <1>2, <2>1
  <2>. QED  BY <1>m, <2>1, <2>2, <2>3
<1>5. ASSUME NEW i \in 0 .. m - 1, i \in S  PROVE i + 1 \in S
  <2>1. PICK k \in 1 .. m : k = m - i /\ k - 1 = m - (i + 1) /\ k \in 0 .. m /\ k - 1 \in 0 .. m /\ k - 1 \in Nat /\ k - 1 + 1 = k
    OBVIOUS
  <2>2. PICK v \in Screens : v = w[i]
    BY <1>5
  <2>3. PICK n \in Nat, y \in Nat, z \in Nat : n = x[k - 1] /\ y = x[k] /\ z = x[m] /\ n < y
    BY <1>2, <1>3, <1>m, <2>1
  <2>a. n < y
    BY <2>3
  <2>4. PICK c \in Nat \ {0} : c = y - n /\ n + c = y
    BY <2>a
  <2>5. PICK a \in Nat : a = l + z - y - i
    BY <1>5, <2>1, <2>3
  <2>6. Shown(v, f[k], n + c, a)
    BY <1>5, <2>1, <2>2, <2>3, <2>4, <2>5
  <2>7. PICK u : u = Backspace(v) /\ u = w[i + 1]
    BY <1>0, <2>2
  <2>8. u \in Screens /\ Shown(u, f[k], n, a + c - 1)
    BY <2>6, <2>7, ShownErased
  <2>9. \A j \in 1 .. n : f[k - 1][j] = f[k][j]
    BY <1>2, <2>3
  <2>10. Shown(u, f[k - 1], n, a + c - 1)
    BY <2>8, <2>9, ShownSame
  <2>11. a + c - 1 \in Nat /\ a + c - 1 = l + z - n - (i + 1)
    BY <2>4, <2>5
  <2>12. Kept(u, k - 1)
    <3>1. Kept(v, k - 1 + 1)
      BY <1>5, <2>1, <2>2
    <3>. QED  BY <2>1, <2>7, <3>1, BackKeeps
  <2>13. i + 1 \in 0 .. m
    OBVIOUS
  <2>. QED  BY <2>1, <2>3, <2>7, <2>8, <2>10, <2>11, <2>12, <2>13
<1>6. m \in S
  <2>1. PICK T : T = S
    OBVIOUS
  <2>2. 0 \in T /\ \A i \in 0 .. m - 1 : i \in T => i + 1 \in T
    BY <1>4, <1>5, <2>1
  <2>3. m \in T
    BY <1>m, <2>2, CountUp
  <2>. QED  BY <2>1, <2>3
<1>7. PICK y \in Nat : y = x[m] /\ y = Len(Cells(s))
  BY <1>2, <1>3, <1>m
<1>8. l + y - 0 - m = l + y - m
  OBVIOUS
<1>9. /\ w[m] \in Screens /\ Kept(w[m], 0) /\ l + y - 0 - m \in Nat
      /\ Shown(w[m], <<>>, 0, l + y - 0 - m)
  BY <1>2, <1>6, <1>7, <1>m
<1>. QED  BY <1>0, <1>7, <1>8, <1>9

\* A line is typed, or printed, after the prompt.
LEMMA LineTyped ==
  ASSUME NEW t \in Screens, NEW s \in Lines, NEW l \in Nat, Shown(t, <<>>, 0, l), Kept(t, 0),
         NEW w, w[0] = t, \A i \in 0 .. Len(s) - 1 : w[i + 1] = terminal_putchar(w[i], s[i + 1])
  PROVE  /\ w[Len(s)] \in Screens /\ Kept(w[Len(s)], Len(s))
         /\ Shown(w[Len(s)], Cells(s), Len(Cells(s)), l)
<1>0. PICK m \in Nat : m = Len(s)
  BY LineFits
<1>1. PICK f, x : Spread(f, x, s, m)
  BY <1>0, Widths
<1>2. /\ Cells(s) = f[m] /\ f[0] = <<>> /\ Len(f[0]) = 0
      /\ \A i \in 0 .. m : f[i] \in Seq(Glyphs) /\ P + Len(f[i]) <= W * (H - 1)
      /\ \A i \in 1 .. m : s[i] \in Chars /\ f[i] = f[i - 1] \o CellsOf(s[i])
  BY <1>1 DEF Spread
<1>. DEFINE S == {i \in 0 .. m : /\ w[i] \in Screens /\ Kept(w[i], i) /\ Shown(w[i], f[i], Len(f[i]), l)}
<1>m. m \in 0 .. m /\ 0 \in 0 .. m
  OBVIOUS
<1>4. 0 \in S
  BY <1>2, <1>m
<1>5. ASSUME NEW i \in 0 .. m - 1, i \in S  PROVE i + 1 \in S
  <2>1. PICK k \in 1 .. m : k = i + 1 /\ k - 1 = i /\ k \in 0 .. m /\ i \in 0 .. m /\ i \in Nat
    OBVIOUS
  <2>2. PICK v \in Screens : v = w[i]
    BY <1>5
  <2>3. PICK c \in Chars : c = s[k] /\ c \in Glyphs /\ c # BS
    BY <1>2, <2>1, ConsoleAssumption DEF Glyphs
  <2>4. PICK b \in Seq(Glyphs) : b = f[i]
    BY <1>2, <2>1
  <2>5. PICK g \in Seq(Glyphs) : g = f[k] /\ P + Len(g) <= W * (H - 1)
    BY <1>2, <2>1
  <2>6. g = b \o CellsOf(c)
    BY <1>2, <2>1, <2>3, <2>4, <2>5
  <2>7. PICK u : u = terminal_putchar(v, c) /\ u = w[k]
    BY <1>0, <2>1, <2>2, <2>3
  <2>8. Shown(v, b, Len(b), l) /\ Kept(v, i)
    BY <1>5, <2>2, <2>4
  <2>9. Shown(u, g, Len(g), l)
    BY <2>5, <2>6, <2>7, <2>8, KeyShown
  <2>10. u \in Screens /\ Kept(u, i + 1)
    BY <2>1, <2>3, <2>7, <2>8, CharKeeps
  <2>. QED  BY <2>1, <2>5, <2>7, <2>9, <2>10
<1>6. m \in S
  <2>1. PICK T : T = S
    OBVIOUS
  <2>2. 0 \in T /\ \A i \in 0 .. m - 1 : i \in T => i + 1 \in T
    BY <1>4, <1>5, <2>1
  <2>3. m \in T
    BY <1>m, <2>2, CountUp
  <2>. QED  BY <2>1, <2>3
<1>. QED  BY <1>0, <1>2, <1>6

\* A line of the buffer is a text.
LEMMA LineIn ==
  ASSUME NEW s \in Lines
  PROVE  s \in Seq(Glyphs) /\ s \in Seq(Chars) /\ Len(s) \in Nat
<1>1. s \in Seq(Chars) /\ Len(s) \in Nat
  BY LenProperties DEF Lines
<1>2. s \in [1 .. Len(s) -> Glyphs]
  <2>1. s \in [1 .. Len(s) -> Chars]
    BY <1>1, LenProperties
  <2>. QED  BY <2>1 DEF Glyphs
<1>3. s \in Seq(Glyphs)
  BY <1>1, <1>2, SeqDef
<1>. QED  BY <1>1, <1>3

\* The line is erased and another one is printed in its place.
LEMMA LineReplaced ==
  ASSUME NEW t \in Screens, NEW s \in Lines, NEW h \in Lines, NEW l \in Nat, Clean(t),
         Shown(t, Cells(s), Len(Cells(s)), l), Kept(t, Len(s)),
         NEW u, u = terminal_write(t, [j \in 1 .. Len(s) |-> BS] \o h)
  PROVE  /\ u \in Screens /\ Clean(u) /\ Kept(u, Len(h)) /\ l + Len(Cells(s)) - Len(s) \in Nat
         /\ Shown(u, Cells(h), Len(Cells(h)), l + Len(Cells(s)) - Len(s))
<1>0. PICK m \in Nat, q \in Nat : m = Len(s) /\ q = Len(h)
  BY LineIn
<1>1. PICK e : e = [j \in 1 .. m |-> BS]
  OBVIOUS
<1>2. e \in Seq(Glyphs) /\ Len(e) = m /\ \A j \in 1 .. m : e[j] = BS
  <2>1. e \in [1 .. m -> Glyphs]
    BY <1>1 DEF Glyphs
  <2>2. e \in Seq(Glyphs)
    BY <2>1, SeqDef
  <2>3. DOMAIN e = 1 .. Len(e) /\ Len(e) \in Nat /\ DOMAIN e = 1 .. m
    BY <2>1, <2>2, LenProperties
  <2>4. Len(e) = m
    <3>1. PICK k \in Nat : k = Len(e)
      BY <2>3
    <3>2. 1 .. k = 1 .. m
      BY <2>3, <3>1
    <3>3. k = m
      BY <3>2
    <3>. QED  BY <3>1, <3>3
  <2>. QED  BY <1>1, <2>2, <2>4
<1>3. PICK c : c = e \o h
  OBVIOUS
<1>4. /\ c \in Seq(Glyphs) /\ Len(c) = m + q
      /\ \A i \in 1 .. m + q : c[i] = IF i <= m THEN e[i] ELSE h[i - m]
  <2>1. h \in Seq(Glyphs) /\ Len(h) = q
    BY <1>0, LineIn
  <2>2. /\ e \o h \in Seq(Glyphs) /\ Len(e \o h) = Len(e) + Len(h)
        /\ \A i \in 1 .. Len(e) + Len(h) : (e \o h)[i] = IF i <= Len(e) THEN e[i] ELSE h[i - Len(e)]
    BY <1>2, <2>1, ConcatProperties
  <2>3. Len(e) = m
    BY <1>2
  <2>. QED  BY <1>3, <2>1, <2>2, <2>3
<1>5. u = terminal_write(t, c)
  BY <1>0, <1>1, <1>3
<1>w. PICK w : Steps(w, t, c, m + q)
  <2>1. PICK z \in Nat : z = m + q /\ z = Len(c)
    BY <1>4
  <2>2. \E w : Steps(w, t, c, z)
    BY <2>1, WriteIs
  <2>. QED  BY <2>1, <2>2
<1>6. /\ w[0] = t /\ u = w[m + q]
      /\ \A i \in 0 .. m + q - 1 : w[i + 1] = terminal_putchar(w[i], c[i + 1])
  BY <1>5, <1>w DEF Steps
<1>7. ASSUME NEW i \in 0 .. m - 1  PROVE w[i + 1] = Backspace(w[i])
  <2>1. i \in 0 .. m + q - 1 /\ i + 1 \in 1 .. m + q /\ i + 1 \in 1 .. m /\ i + 1 <= m
    OBVIOUS
  <2>2. c[i + 1] = BS
    BY <1>2, <1>4, <2>1
  <2>3. w[i + 1] = terminal_putchar(w[i], BS)
    BY <1>6, <2>1, <2>2
  <2>. QED  BY <2>3 DEF terminal_putchar, NL, BS, TAB
<1>8. PICK a : a = l + Len(Cells(s)) - Len(s)
  OBVIOUS
<1>9. w[m] \in Screens /\ Kept(w[m], 0) /\ a \in Nat /\ Shown(w[m], <<>>, 0, a)
  BY <1>0, <1>6, <1>7, <1>8, LineErased
<1>10. PICK v : v = [j \in 0 .. q |-> w[m + j]]
  OBVIOUS
<1>11. v[0] = w[m] /\ v[q] = u
  <2>1. 0 \in 0 .. q /\ q \in 0 .. q /\ m + 0 = m
    OBVIOUS
  <2>. QED  BY <1>6, <1>10, <2>1
<1>12. ASSUME NEW i \in 0 .. q - 1  PROVE v[i + 1] = terminal_putchar(v[i], h[i + 1])
  <2>1. PICK k \in 0 .. m + q - 1 : k = m + i /\ k + 1 = m + (i + 1) /\ k + 1 \in 1 .. m + q /\ ~(k + 1 <= m) /\ k + 1 - m = i + 1
    OBVIOUS
  <2>2. i \in 0 .. q /\ i + 1 \in 0 .. q
    OBVIOUS
  <2>3. c[k + 1] = h[i + 1]
    BY <1>4, <2>1
  <2>4. w[k + 1] = terminal_putchar(w[k], h[i + 1])
    BY <1>6, <2>3
  <2>5. v[i] = w[k] /\ v[i + 1] = w[k + 1]
    BY <1>10, <2>1, <2>2
  <2>. QED  BY <2>4, <2>5
<1>13. u \in Screens /\ Kept(u, q) /\ Shown(u, Cells(h), Len(Cells(h)), a)
  <2>1. PICK b \in Screens : b = w[m] /\ b = v[0] /\ Kept(b, 0) /\ Shown(b, <<>>, 0, a)
    BY <1>9, <1>11
  <2>2. a \in Nat /\ \A i \in 0 .. Len(h) - 1 : v[i + 1] = terminal_putchar(v[i], h[i + 1])
    BY <1>0, <1>9, <1>12
  <2>3. /\ v[Len(h)] \in Screens /\ Kept(v[Len(h)], Len(h))
        /\ Shown(v[Len(h)], Cells(h), Len(Cells(h)), a)
    BY <2>1, <2>2, LineTyped
  <2>. QED  BY <1>0, <1>11, <2>3
<1>14. Clean(u)
  BY <1>4, <1>5, WriteKeeps
<1>. QED  BY <1>0, <1>8, <1>9, <1>13, <1>14

\* A line is its front and its last character.
LEMMA FrontLast ==
  ASSUME NEW s \in Lines, s # <<>>
  PROVE  Front(s) \in Lines /\ Last(s) \in Chars /\ s = Append(Front(s), Last(s)) /\ Len(s) = Len(Front(s)) + 1
<1>1. s \in Seq(Chars) /\ Len(s) \in Nat \ {0}
  BY LineIn, EmptySeq
<1>2. PICK r : r = Front(s)
  OBVIOUS
<1>3. r \in Seq(Chars) /\ Len(r) = Len(s) - 1 /\ \A i \in 1 .. Len(s) - 1 : r[i] = s[i]
  BY <1>1, <1>2, FrontIs
<1>4. PICK n \in Nat : n = Len(r) /\ Len(s) = n + 1
  BY <1>1, <1>3
<1>5. n + 1 \in 1 .. Len(s)
  BY <1>4
<1>6. PICK x \in Chars : x = s[n + 1]
  BY <1>1, <1>5, ElementOfSeq
<1>7. Last(s) = x
  BY <1>4, <1>6 DEF Last
<1>8. PICK z : z = Append(r, x)
  OBVIOUS
<1>9. z \in Seq(Chars) /\ Len(z) = n + 1 /\ z[n + 1] = x /\ \A i \in 1 .. n : z[i] = r[i]
  BY <1>3, <1>4, <1>8, AppendProperties
<1>10. \A i \in 1 .. n + 1 : z[i] = s[i]
  <2>1. \A i \in 1 .. n : z[i] = s[i]
    BY <1>3, <1>4, <1>9
  <2>2. \A i \in 1 .. n + 1 : i \in 1 .. n \/ i = n + 1
    OBVIOUS
  <2>. QED  BY <1>6, <1>9, <2>1, <2>2
<1>11. z = s
  BY <1>1, <1>4, <1>9, <1>10, SeqEqual
<1>12. r \in Lines
  BY <1>2, LineKept
<1>. QED  BY <1>2, <1>4, <1>7, <1>8, <1>11, <1>12

\* No character has no cells; one has its own.
LEMMA CellsEmpty == Cells(<<>>) = <<>> /\ Len(Cells(<<>>)) = 0
<1>1. Len(<<>>) = 0
  OBVIOUS
<1>2. PICK s : s = <<>>
  OBVIOUS
<1>3. PICK f : Laid(f, s, 0) /\ Cells(s) = f[0]
  BY <1>1, <1>2, CellsLaid
<1>4. Cells(s) = <<>>
  BY <1>3 DEF Laid
<1>. QED  BY <1>1, <1>2, <1>4

LEMMA CellsOne ==
  ASSUME NEW c \in Chars
  PROVE  Len(Cells(<<c>>)) = Len(CellsOf(c)) /\ Len(<<c>>) = 1
<1>1. PICK s : s = <<>>
  OBVIOUS
<1>2. s \in Seq(Chars) /\ Append(s, c) = <<c>>
  BY <1>1
<1>3. Cells(<<c>>) = Cells(s) \o CellsOf(c)
  BY <1>2, CellsAppend
<1>4. Cells(s) = <<>>
  BY <1>1, CellsEmpty
<1>5. PICK q : q = CellsOf(c)
  OBVIOUS
<1>6. q \in Seq(Glyphs) /\ Len(q) \in 1 .. 4
  BY <1>5, CellsOfIs
<1>e. <<>> \in Seq(Glyphs) /\ Len(<<>>) = 0
  OBVIOUS
<1>7. PICK b : b = <<>> /\ b \in Seq(Glyphs) /\ Len(b) = 0
  BY <1>e, Zenon
<1>8. Len(b \o q) = Len(b) + Len(q)
  BY <1>6, <1>7, ConcatProperties
<1>9. Len(b \o q) = Len(q)
  BY <1>6, <1>7, <1>8
<1>. QED  BY <1>3, <1>4, <1>5, <1>7, <1>9

-----------------------------------------------------------------------------
(***************************************************************************)
(* The screen in every state.                                              *)
(***************************************************************************)
\* The terminal t shows the line s, with l cells left over, below the rows kept.
Edits(t, s, l) == Kept(t, Len(s)) /\ Shown(t, Cells(s), Len(Cells(s)), l)
ScreenInv ==
  /\ tty \in Screens /\ Clean(tty) /\ left \in Nat
  /\ mode = "kdb" => Edits(tty, line, left)

\* The terminal is ready for a text that goes below the rows kept.
LEMMA ReadyShows ==
  ASSUME NEW t \in Screens, Clean(t), Kept(t, 0), Ready(t)
  PROVE  ScreenInv'
<1>1. PICK u : u = terminal_write(t, Prompt)
  OBVIOUS
<1>2. Prompt \in Seq(Glyphs) /\ \A i \in 1 .. Len(Prompt) : Prompt[i] # BS
  <2>1. Prompt \in Seq(Glyphs) /\ \A i \in 1 .. Len(Prompt) : Prompt[i] \in Range(Prompt)
    BY TextIn
  <2>2. BS \notin Range(Prompt)
    BY ConsoleAssumption
  <2>. QED  BY <2>1, <2>2
<1>3. u \in Screens /\ Clean(u) /\ Kept(u, 0)
  BY <1>1, <1>2, WriteKeeps
<1>4. Shown(u, <<>>, 0, 0)
  BY <1>1, PromptShown
<1>5. PICK s : s = <<>> /\ Len(s) = 0
  OBVIOUS
<1>6. Cells(s) = <<>> /\ Len(Cells(s)) = 0
  BY <1>5, CellsEmpty
<1>7. Edits(u, s, 0)
  BY <1>3, <1>4, <1>5, <1>6 DEF Edits
<1>8. tty' = u /\ line' = s /\ left' = 0
  BY <1>1, <1>5 DEF Ready
<1>. QED  BY <1>3, <1>7, <1>8 DEF ScreenInv

\* What is left over is counted up to the size of the screen.
LEMMA LeftShows ==
  ASSUME NEW t \in Screens, NEW s \in Lines, NEW r, NEW l \in Nat, l = left + Len(Cells(r)) - Len(r),
         Edits(t, s, l), LeftOver(r)
  PROVE  left' \in Nat /\ Edits(t, s, left')
<1>1. W * H \in Nat /\ Len(Cells(s)) \in Nat
  BY Dims, LineFits
<1>2. left' = IF l > W * H THEN W * H ELSE l
  BY DEF LeftOver
<1>3. CASE l > W * H
  <2>1. left' = W * H
    BY <1>2, <1>3
  <2>2. Shown(t, Cells(s), Len(Cells(s)), l) /\ Kept(t, Len(s))
    BY DEF Edits
  <2>3. Shown(t, Cells(s), Len(Cells(s)), W * H)
    BY <1>1, <1>3, <2>2, ShownCapped
  <2>. QED  BY <1>1, <2>1, <2>2, <2>3 DEF Edits
<1>4. CASE ~(l > W * H)
  BY <1>2, <1>4
<1>. QED  BY <1>3, <1>4

\* A key that types a character.
LEMMA CharShows ==
  ASSUME HistInv, ScreenInv, NEW c \in Chars, key_char(c)
  PROVE  ScreenInv'
<1>1. line \in Lines /\ mode = "kdb" /\ left' = left /\ tty' = terminal_putchar(tty, c)
  BY DEF HistInv, key_char, kdb_getchar
<1>2. tty \in Screens /\ Clean(tty) /\ left \in Nat /\ Edits(tty, line, left)
  BY <1>1 DEF ScreenInv
<1>3. PICK s : s = Append(line, c) /\ s = line'
  BY DEF key_char
<1>4. s \in Lines
  BY <1>1, <1>3, LineKept DEF key_char
<1>5. PICK n \in Nat : n = Len(line) /\ Len(s) = n + 1
  BY <1>1, <1>3, LineIn, AppendProperties
<1>6. PICK b \in Seq(Glyphs) : b = Cells(line)
  BY <1>1, LineFits
<1>7. Cells(s) = b \o CellsOf(c)
  BY <1>1, <1>3, <1>6, LineIn, CellsAppend
<1>8. PICK g : g = Cells(s) /\ P + Len(g) <= W * (H - 1)
  BY <1>4, LineFits
<1>9. PICK u : u = terminal_putchar(tty, c)
  OBVIOUS
<1>10. Shown(u, g, Len(g), left)
  <2>1. Shown(tty, b, Len(b), left)
    BY <1>2, <1>6 DEF Edits
  <2>2. g = b \o CellsOf(c)
    BY <1>7, <1>8
  <2>. QED  BY <1>2, <1>8, <1>9, <2>1, <2>2, KeyShown
<1>11. u \in Screens /\ Clean(u) /\ Kept(u, n + 1)
  <2>1. c \in Glyphs /\ c # BS /\ Kept(tty, n)
    BY <1>2, <1>5, ConsoleAssumption DEF Glyphs, Edits
  <2>. QED  BY <1>2, <1>9, <2>1, CharKeeps
<1>12. Edits(u, s, left)
  BY <1>5, <1>8, <1>10, <1>11 DEF Edits
<1>. QED  BY <1>1, <1>2, <1>3, <1>9, <1>11, <1>12 DEF ScreenInv

\* A backspace: the last character goes, and of a tab three cells are left.
LEMMA BackShows ==
  ASSUME HistInv, ScreenInv, key_backspace
  PROVE  ScreenInv'
<1>1. line \in Lines /\ mode = "kdb" /\ line # <<>>
  BY DEF HistInv, key_backspace, kdb_getchar
<1>2. tty \in Screens /\ Clean(tty) /\ left \in Nat /\ Edits(tty, line, left)
  BY <1>1 DEF ScreenInv
<1>3. PICK r \in Lines, c \in Chars : r = Front(line) /\ c = Last(line) /\ line = Append(r, c) /\ Len(line) = Len(r) + 1
  BY <1>1, FrontLast
<1>4. PICK u : u = Backspace(tty) /\ u = tty'
  BY DEF key_backspace, terminal_putchar, NL, BS, TAB
<1>5. PICK b \in Seq(Glyphs) : b = Cells(r)
  BY LineFits
<1>6. PICK q : q = CellsOf(c)
  OBVIOUS
<1>7. q \in Seq(Glyphs) /\ Len(q) \in 1 .. 4
  BY <1>6, CellsOfIs
<1>8. PICK n \in Nat : n = Len(b)
  BY LenProperties
<1>9. PICK w \in 1 .. 4 : w = Len(q)
  BY <1>7
<1>10. PICK g : g = Cells(line)
  OBVIOUS
<1>11. g = b \o q
  BY <1>3, <1>5, <1>6, <1>10, LineIn, CellsAppend
<1>12. Len(g) = n + w /\ \A i \in 1 .. n + w : g[i] = IF i <= n THEN b[i] ELSE q[i - n]
  BY <1>7, <1>8, <1>9, <1>11, ConcatProperties
<1>13. Shown(tty, g, n + w, left)
  BY <1>2, <1>10, <1>12 DEF Edits
<1>14. u \in Screens /\ Shown(u, g, n, left + w - 1)
  <2>1. w \in Nat \ {0}
    OBVIOUS
  <2>. QED  BY <1>2, <1>4, <1>13, <2>1, ShownErased
<1>15. Shown(u, b, n, left + w - 1)
  <2>1. \A j \in 1 .. n : b[j] = g[j]
    BY <1>12
  <2>. QED  BY <1>14, <2>1, ShownSame
<1>16. Clean(u) /\ Kept(u, Len(r))
  <2>1. Len(r) \in Nat /\ Kept(tty, Len(r) + 1)
    BY <1>2, <1>3, LineIn DEF Edits
  <2>. QED  BY <1>2, <1>4, <2>1, BackKeeps
<1>17. PICK l \in Nat : l = left + w - 1
  BY <1>2
<1>18. Edits(u, r, l)
  BY <1>5, <1>8, <1>15, <1>16, <1>17 DEF Edits
<1>19. LeftOver(<<c>>) /\ l = left + Len(Cells(<<c>>)) - Len(<<c>>)
  BY <1>3, <1>6, <1>9, <1>17, CellsOne DEF key_backspace
<1>20. PICK z : z = <<c>>
  OBVIOUS
<1>21. left' \in Nat /\ Edits(u, r, left')
  BY <1>14, <1>18, <1>19, <1>20, LeftShows
<1>22. line' = r
  BY <1>3 DEF key_backspace
<1>. QED  BY <1>4, <1>14, <1>16, <1>21, <1>22 DEF ScreenInv

\* A line of the history in place of the one typed.
LEMMA RecallShows ==
  ASSUME HistInv, ScreenInv, mode = "kdb", HistInv', NEW pos, Replace(pos)
  PROVE  ScreenInv'
<1>1. line \in Lines /\ line' \in Lines
  BY DEF HistInv
<1>2. tty \in Screens /\ Clean(tty) /\ left \in Nat /\ Edits(tty, line, left)
  BY DEF ScreenInv
<1>3. PICK h \in Lines : h = line'
  BY <1>1
<1>4. PICK u : u = tty' /\ u = terminal_write(tty, [j \in 1 .. Len(line) |-> BS] \o h)
  BY <1>3 DEF Replace
<1>5. PICK l : l = left + Len(Cells(line)) - Len(line)
  OBVIOUS
<1>6. u \in Screens /\ Clean(u) /\ Kept(u, Len(h)) /\ l \in Nat /\ Shown(u, Cells(h), Len(Cells(h)), l)
  <2>1. Shown(tty, Cells(line), Len(Cells(line)), left) /\ Kept(tty, Len(line))
    BY <1>2 DEF Edits
  <2>. QED  BY <1>1, <1>2, <1>4, <1>5, <2>1, LineReplaced
<1>7. Edits(u, h, l) /\ LeftOver(line)
  BY <1>6 DEF Edits, Replace
<1>8. left' \in Nat /\ Edits(u, h, left')
  BY <1>5, <1>6, <1>7, LeftShows
<1>. QED  BY <1>3, <1>4, <1>6, <1>8 DEF ScreenInv

\* A text without a backspace, below the rows kept.
LEMMA PrintKeeps ==
  ASSUME NEW t \in Screens, Clean(t), Kept(t, 0), NEW s \in Outputs \cup {Banner}, NEW u, u = terminal_write(t, s)
  PROVE  u \in Screens /\ Clean(u) /\ Kept(u, 0)
<1>1. s \in Seq(Glyphs) /\ \A i \in 1 .. Len(s) : s[i] \in Range(s)
  BY TextIn
<1>2. BS \notin Range(s)
  BY ConsoleAssumption
<1>3. \A i \in 1 .. Len(s) : s[i] # BS
  BY <1>1, <1>2
<1>. QED  BY <1>1, <1>3, WriteKeeps

\* Enter: the command prints below the line, clears down to the anchor, or leaves.
LEMMA EnterShows ==
  ASSUME HistInv, ScreenInv, key_enter
  PROVE  ScreenInv'
<1>1. line \in Lines /\ mode = "kdb"
  BY DEF HistInv, key_enter, kdb_getchar
<1>2. tty \in Screens /\ Clean(tty) /\ Kept(tty, Len(line)) /\ Len(line) \in Nat
  BY <1>1, LineIn DEF ScreenInv, Edits
<1>3. PICK t : t = Entered
  OBVIOUS
<1>4. t \in Screens /\ Clean(t) /\ Kept(t, 0)
  <2>1. Kept(tty, 0)
    <3>1. 0 \in Nat /\ 0 <= Len(line)
      BY <1>2
    <3>. QED  BY <1>2, <3>1, KeptLess
  <2>2. t = terminal_putchar(tty, NL) /\ NL \in Glyphs /\ NL # BS
    BY <1>3 DEF Entered, Glyphs, NL, BS
  <2>3. t \in Screens /\ Clean(t) /\ Kept(t, 0 + 1)
    BY <1>2, <2>1, <2>2, CharKeeps
  <2>4. 0 \in Nat /\ 0 + 1 \in Nat /\ 0 <= 0 + 1
    OBVIOUS
  <2>. QED  BY <2>3, <2>4, KeptLess
<1>5. \/ Ready(t)
      \/ \E u \in Printed(t) : Ready(u)
      \/ Ready(terminal_clear_to_anchor(t))
      \/ tty' = t /\ mode' = "kernel" /\ left' = 0
  BY <1>3 DEF key_enter
<1>6. CASE Ready(t)
  BY <1>4, <1>6, ReadyShows
<1>7. ASSUME NEW u \in Printed(t), Ready(u)  PROVE ScreenInv'
  <2>1. PICK s \in Outputs : u = terminal_write(t, s)
    BY DEF Printed
  <2>2. u \in Screens /\ Clean(u) /\ Kept(u, 0)
    BY <1>4, <2>1, PrintKeeps
  <2>. QED  BY <1>7, <2>2, ReadyShows
<1>8. CASE Ready(terminal_clear_to_anchor(t))
  <2>1. PICK u : u = terminal_clear_to_anchor(t)
    OBVIOUS
  <2>2. u \in Screens /\ Clean(u) /\ Kept(u, 0)
    BY <1>4, <2>1, ClearIs
  <2>. QED  BY <1>8, <2>1, <2>2, ReadyShows
<1>9. CASE tty' = t /\ mode' = "kernel" /\ left' = 0
  BY <1>4, <1>9 DEF ScreenInv
<1>. QED  BY <1>5, <1>6, <1>7, <1>8, <1>9

LEMMA ScreenStep == HistInv /\ ScreenInv /\ HistInv' /\ [Next]_vars => ScreenInv'
<1>. SUFFICES ASSUME HistInv, ScreenInv, HistInv', [Next]_vars  PROVE ScreenInv'
  OBVIOUS
<1>0. tty \in Screens /\ Clean(tty) /\ left \in Nat
  BY DEF ScreenInv
<1>1. CASE UNCHANGED <<tty, mode, line, left>>
  BY <1>1 DEF ScreenInv
<1>2. ASSUME NEW s \in Texts, print(s)  PROVE ScreenInv'
  <2>1. s \in Seq(Glyphs)
    BY TextIn
  <2>2. PICK u : u = terminal_write(tty, s) /\ u = tty'
    BY <1>2 DEF print
  <2>3. u \in Screens /\ Clean(u)
    BY <1>0, <2>1, <2>2, WriteKeeps
  <2>4. left' = left /\ mode' # "kdb"
    BY <1>2 DEF print
  <2>. QED  BY <1>0, <2>2, <2>3, <2>4 DEF ScreenInv
<1>3. CASE kdb_enter
  <2>1. PICK t : t = terminal_set_anchor(tty)
    OBVIOUS
  <2>2. t \in Screens /\ Clean(t) /\ Kept(t, 0)
    BY <1>0, <2>1, AnchorIs
  <2>3. PICK u : u = terminal_write(t, Banner)
    OBVIOUS
  <2>4. u \in Screens /\ Clean(u) /\ Kept(u, 0)
    BY <2>2, <2>3, PrintKeeps
  <2>5. Ready(u)
    BY <1>3, <2>1, <2>3 DEF kdb_enter
  <2>. QED  BY <2>4, <2>5, ReadyShows
<1>4. ASSUME NEW c \in Chars, key_char(c)  PROVE ScreenInv'
  BY <1>4, CharShows
<1>5. CASE key_backspace
  BY <1>5, BackShows
<1>6. CASE key_up
  <2>1. mode = "kdb" /\ Replace(hpos + 1)
    BY <1>6 DEF key_up, kdb_getchar
  <2>2. PICK pos : pos = hpos + 1
    OBVIOUS
  <2>. QED  BY <2>1, <2>2, RecallShows
<1>7. CASE key_down
  <2>1. mode = "kdb" /\ Replace(hpos - 1)
    BY <1>7 DEF key_down, kdb_getchar
  <2>2. PICK pos : pos = hpos - 1
    OBVIOUS
  <2>. QED  BY <2>1, <2>2, RecallShows
<1>8. CASE key_enter
  BY <1>8, EnterShows
<1>. QED  BY <1>1, <1>2, <1>3, <1>4, <1>5, <1>6, <1>7, <1>8 DEF Next, vars, scan_prefix, scan_ignored

LEMMA ScreenInit == Init => ScreenInv
BY StartIs DEF Init, ScreenInv

\* The screen and the line editor together: the cursor stays on the screen, nothing
\* stands at or after it, the line is on the screen behind the prompt, and the rows
\* above the anchor are kept, whatever is printed, typed, erased or recalled.
THEOREM ScreenInvariance == Spec => [](HistInv /\ ScreenInv)
<1>1. Init => HistInv /\ ScreenInv
  BY HistInit, ScreenInit
<1>2. HistInv /\ ScreenInv /\ [Next]_vars => (HistInv /\ ScreenInv)'
  BY HistStep, ScreenStep
<1>. QED  BY <1>1, <1>2, PTL DEF Spec

\* No store of the terminal or of the debugger is outside of its array: the cursor
\* and the anchor are on the screen, the line fits into its buffer, and the indices
\* of the history are in the ring.
THEOREM InBoundsTheorem == Spec => []InBounds
<1>1. HistInv /\ ScreenInv => InBounds
  <2>. SUFFICES ASSUME HistInv, ScreenInv  PROVE InBounds
    OBVIOUS
  <2>1. tty.row \in 0 .. H - 1 /\ tty.column \in 0 .. W - 1 /\ tty.anchor \in 0 .. H - 1
    BY ScreenFacts DEF ScreenInv
  <2>2. Len(line) < MAX
    BY DEF HistInv, Lines
  <2>. QED  BY <2>1, <2>2 DEF InBounds, HistInv, Slots
<1>. QED  BY <1>1, ScreenInvariance, PTL

\* The rows above the anchor are the ones that stood above the debugger when it was
\* entered, less those that scrolled away: clear blanks what the debugger printed
\* and nothing else.
THEOREM AboveKeptTheorem == Spec => []AboveKept
<1>1. HistInv /\ ScreenInv => AboveKept
  <2>. SUFFICES ASSUME HistInv, ScreenInv, mode = "kdb"  PROVE SubSeq(tty.cell, 1, tty.anchor) = tty.above
    BY DEF AboveKept
  <2>1. tty \in Screens /\ Kept(tty, Len(line))
    BY DEF ScreenInv, Edits
  <2>2. /\ tty.cell \in Seq(Row) /\ Len(tty.cell) = H /\ tty.anchor \in Nat /\ tty.anchor \in 0 .. H - 1
        /\ tty.above \in Seq(Row) /\ H \in Nat /\ W \in Nat
    BY <2>1, Dims, ScreenFacts
  <2>3. PICK a \in Nat : a = tty.anchor /\ a \in 0 .. H - 1
    BY <2>2
  <2>4. \A i \in 1 .. a : tty.cell[i] \in Row
    BY <2>2, <2>3, ElementOfSeq
  <2>5. PICK b : b = SubSeq(tty.cell, 1, a)
    OBVIOUS
  <2>6. b \in Seq(Row) /\ Len(b) = a /\ \A i \in 1 .. a : b[i] = tty.cell[i]
    <3>1. /\ SubSeq(tty.cell, 1, a) \in Seq(Row)
          /\ Len(SubSeq(tty.cell, 1, a)) = IF 1 <= a THEN a - 1 + 1 ELSE 0
          /\ \A i \in 1 .. a - 1 + 1 : SubSeq(tty.cell, 1, a)[i] = tty.cell[1 + i - 1]
      BY <2>4, SubSeqProperties
    <3>2. Len(b) = a /\ \A i \in 1 .. a : b[i] = tty.cell[1 + i - 1] /\ 1 + i - 1 = i
      BY <2>5, <3>1
    <3>. QED  BY <2>5, <3>1, <3>2
  <2>7. Len(tty.above) = a
    BY <2>1, <2>3 DEF Kept
  <2>8. ASSUME NEW i \in 1 .. a  PROVE b[i] = tty.above[i]
    <3>1. b[i] \in Row /\ tty.above[i] \in Row
      BY <2>2, <2>4, <2>6, <2>7, ElementOfSeq
    <3>2. ASSUME NEW j \in 1 .. W  PROVE b[i][j] = tty.above[i][j]
      <4>1. PICK y \in 0 .. a - 1, x \in 0 .. W - 1 : y = i - 1 /\ x = j - 1 /\ y + 1 = i /\ x + 1 = j /\ y \in 0 .. H - 1
        BY <2>2, <2>3
      <4>2. tty.above[y + 1][x + 1] = At(tty, W * y + x)
        BY <2>1, <2>3 DEF Kept
      <4>3. At(tty, W * y + x) = tty.cell[y + 1][x + 1]
        BY <4>1, CellIn
      <4>. QED  BY <2>6, <4>1, <4>2, <4>3
    <3>3. PICK f, g : f = b[i] /\ g = tty.above[i]
      OBVIOUS
    <3>4. f \in [1 .. W -> Glyphs] /\ g \in [1 .. W -> Glyphs]
      BY <3>1, <3>3 DEF Row
    <3>5. \A j \in 1 .. W : f[j] = g[j]
      BY <3>2, <3>3
    <3>6. f = g
      <4>1. f = [j \in 1 .. W |-> f[j]] /\ g = [j \in 1 .. W |-> g[j]]
        BY <3>4
      <4>2. [j \in 1 .. W |-> f[j]] = [j \in 1 .. W |-> g[j]]
        BY <3>5, Zenon
      <4>. QED  BY <4>1, <4>2, Zenon
    <3>. QED  BY <3>3, <3>6
  <2>9. b = tty.above
    BY <2>2, <2>6, <2>7, <2>8, SeqEqual
  <2>. QED  BY <2>3, <2>5, <2>9
<1>. QED  BY <1>1, ScreenInvariance, PTL

\* What stands before the cursor is the prompt and exactly the line that Enter would
\* run, over the ends of rows, scrolling, erasing and recalling; a tab that was
\* erased leaves three cells, and erasing never reaches the prompt.
THEOREM LineShownTheorem == Spec => []LineShown
<1>1. HistInv /\ ScreenInv => LineShown
  <2>. SUFFICES ASSUME HistInv, ScreenInv  PROVE LineShown
    OBVIOUS
  <2>1. tty \in Screens /\ Clean(tty) /\ left \in Nat /\ line \in Lines
    BY DEF ScreenInv, HistInv
  <2>2. Cursor = Cur(tty) /\ \A n : CellAt(n) = At(tty, n)
    BY DEF Cursor, Cur, CellAt, At
  <2>3. PICK k \in Nat : k = Cursor /\ k = Cur(tty) /\ k < W * H
    BY <2>1, <2>2, CursorIs
  <2>4. W * H \in Nat /\ P \in Nat
    BY Dims, PromptFits
  <2>5. ASSUME NEW n \in Cursor .. W * H - 1  PROVE CellAt(n) = Blank
    <3>1. n \in Area /\ Cur(tty) <= n
      BY <2>3, <2>4 DEF Area
    <3>. QED  BY <2>1, <2>2, <3>1 DEF Clean
  <2>6. ASSUME mode = "kdb"
        PROVE  LET end == Cursor - Len(Cells(line)) - left
               IN  /\ left = 0 => Len(Prompt) <= end /\ Stands(Prompt \o Cells(line), Cursor)
                   /\ Len(Prompt) <= end => Stands(Prompt, end)
    <3>1. PICK c \in Seq(Glyphs), n \in Nat : c = Cells(line) /\ n = Len(c)
      BY <2>1, LineFits
    <3>2. Shown(tty, c, n, left)
      BY <2>6, <3>1 DEF ScreenInv, Edits
    <3>3. PICK e \in Int : e = Cursor - Len(Cells(line)) - left /\ e = k - n - left
      BY <2>1, <2>3, <3>1
    <3>4. ASSUME P <= e  PROVE Stands(Prompt, e)
      <4>1. P + n + left <= k
        BY <2>1, <2>4, <3>3, <3>4
      <4>2. Text(tty, Prompt, P, e)
        BY <2>3, <3>2, <3>3, <4>1 DEF Shown
      <4>. QED  BY <2>2, <4>2 DEF Text, Stands, P
    <3>5. ASSUME left = 0  PROVE P <= e /\ Stands(Prompt \o Cells(line), Cursor)
      <4>1. P + n <= k /\ Text(tty, c, n, k)
        BY <2>3, <3>2, <3>5 DEF Shown
      <4>2. P <= e /\ e = k - n
        BY <2>4, <3>3, <3>5, <4>1
      <4>3. Text(tty, Prompt, P, e)
        BY <2>2, <3>4, <4>2 DEF Text, Stands, P
      <4>4. PICK g : g = Prompt \o c
        OBVIOUS
      <4>5. /\ Len(g) = P + n
            /\ \A i \in 1 .. P + n : g[i] = IF i <= P THEN Prompt[i] ELSE c[i - P]
        <5>1. Prompt \in Seq(Glyphs) /\ Len(Prompt) = P
          BY TextIn DEF P
        <5>. QED  BY <3>1, <4>4, <5>1, ConcatProperties
      <4>6. ASSUME NEW j \in 1 .. P + n  PROVE CellAt(k - (P + n) + j - 1) = g[j]
        <5>1. CASE j <= P
          <6>1. j \in 1 .. P /\ k - (P + n) + j - 1 = e - P + j - 1
            BY <2>4, <4>2, <5>1
          <6>2. At(tty, e - P + j - 1) = Prompt[j] /\ g[j] = Prompt[j]
            BY <4>3, <4>5, <5>1, <6>1 DEF Text
          <6>. QED  BY <2>2, <6>1, <6>2
        <5>2. CASE ~(j <= P)
          <6>1. PICK i \in 1 .. n : i = j - P /\ k - (P + n) + j - 1 = k - n + i - 1
            BY <2>4, <5>2
          <6>2. At(tty, k - n + i - 1) = c[i] /\ g[j] = c[i]
            BY <4>1, <4>5, <5>2, <6>1 DEF Text
          <6>. QED  BY <2>2, <6>1, <6>2
        <5>. QED  BY <5>1, <5>2
      <4>7. Stands(g, k)
        BY <4>5, <4>6 DEF Stands
      <4>. QED  BY <2>3, <3>1, <4>2, <4>4, <4>7
    <3>. QED  BY <3>3, <3>4, <3>5 DEF P
  <2>. QED  BY <2>5, <2>6 DEF LineShown
<1>. QED  BY <1>1, ScreenInvariance, PTL
==============================================================================
