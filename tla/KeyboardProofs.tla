--------------------------- MODULE KeyboardProofs ---------------------------
(***************************************************************************)
(* The keyboard driver, for a ring of any size and any set of keys: no     *)
(* modifier sticks, and the ring is a first in, first out queue whatever   *)
(* the interrupt handler does between two steps of the reader.             *)
(***************************************************************************)
EXTENDS Keyboard, SequenceTheorems, TLAPS

(***************************************************************************)
(* Modifiers.  Backed by a key that is held: with an extended key the      *)
(* driver only takes Ctrl and Alt, so an extended Shift backs nothing.     *)
(***************************************************************************)
Extensible == {"ctrl", "alt"}
BackedBy(m, k) == m \in ModifierOf(k[2]) /\ (k[1] => m \in Extensible)

\* What down will be once the controller has sent what it has still to send.
Pending ==
  IF wire = <<>> THEN down
  ELSE LET b == Head(wire)
       IN  IF b.up THEN down \ (ModifierOf(b.code) \cap Extensible)
           ELSE down \cup (ModifierOf(b.code) \cap Extensible)

\* The debugger is entered by a key with no modifier left down and no prefix
\* pending; in the kernel a prefix is pending exactly in the middle of a key, and
\* every modifier that will be down has a key that is held.
Tracked ==
  /\ mode = "kdb" => ~extended /\ down = {}
  /\ mode = "kernel" => /\ extended = (wire # <<>>)
                        /\ \A m \in Pending : \E k \in held : BackedBy(m, k)

WireOK == wire = <<>> \/ \E k \in Keys, up \in BOOLEAN : wire = <<[code |-> k[2], up |-> up]>>

ModInv ==
  /\ mode \in {"kernel", "kdb"} /\ extended \in BOOLEAN
  /\ held \subseteq Keys /\ WireOK
  /\ ~broke => Tracked

\* No key's byte is taken for the prefix.
LEMMA NotPrefix ==
  ASSUME NEW k \in Keys, NEW up \in BOOLEAN
  PROVE  [code |-> k[2], up |-> up] # Prefix
BY KeyboardAssumption DEF Prefix

\* A key goes down or up: its only byte, or its prefix.
LEMMA KeyKeeps ==
  ASSUME ModInv, NEW k \in Keys, NEW up \in BOOLEAN, key(k, up)
  PROVE  ModInv'
<1>. DEFINE b == [code |-> k[2], up |-> up]
<1>. USE DEF ModInv, key
<1>1. b # Prefix /\ b.code = k[2] /\ b.up = up /\ Head(<<b>>) = b /\ <<b>> # <<>>
  BY NotPrefix
<1>2. held' \subseteq Keys
  BY DEF Holds
<1>3. broke' = broke /\ wire = <<>>
  BY DEF Byte, keyboard_callback, kdb_polls
<1>4. CASE k[1]
  <2>1. wire' = <<b>> /\ Byte(Prefix)
    BY <1>4
  <2>2. WireOK'
    BY <2>1 DEF WireOK
  <2>3. CASE mode = "kdb"
    <3>1. UNCHANGED <<mode, extended, down>>
      BY <2>1, <2>3 DEF Byte, keyboard_callback, kdb_polls, modVars
    <3>. QED  BY <1>2, <1>3, <2>2, <2>3, <3>1 DEF Tracked
  <2>4. CASE mode = "kernel"
    <3>1. mode' = "kernel" /\ extended' = TRUE /\ down' = down
      BY <2>1, <2>4 DEF Byte, keyboard_callback, kdb_polls
    <3>2. ASSUME ~broke, NEW m \in Pending'  PROVE \E j \in held' : BackedBy(m, j)
      <4>1. Pending' = IF up THEN down \ (ModifierOf(k[2]) \cap Extensible)
                       ELSE down \cup (ModifierOf(k[2]) \cap Extensible)
        BY <1>1, <2>1, <3>1 DEF Pending
      <4>2. CASE m \in ModifierOf(k[2]) \cap Extensible
        BY <3>2, <4>1, <4>2 DEF Holds, BackedBy
      <4>3. CASE m \notin ModifierOf(k[2]) \cap Extensible
        <5>1. m \in Pending
          BY <3>2, <4>1, <4>3, <1>3 DEF Pending
        <5>2. PICK j \in held : BackedBy(m, j)
          BY <3>2, <5>1, <2>4 DEF Tracked
        <5>3. j # k
          BY <5>2, <4>3, <1>4 DEF BackedBy
        <5>. QED  BY <5>2, <5>3 DEF Holds
      <4>. QED  BY <4>2, <4>3
    <3>. QED  BY <1>1, <1>2, <1>3, <2>1, <2>2, <3>1, <3>2 DEF Tracked
  <2>. QED  BY <2>3, <2>4
<1>5. CASE ~k[1]
  <2>1. wire' = <<>> /\ Byte(b)
    BY <1>5, <1>3
  <2>2. WireOK'
    BY <2>1 DEF WireOK
  <2>3. CASE mode = "kdb"
    <3>1. UNCHANGED <<mode, extended, down>>
      BY <2>1, <2>3 DEF Byte, keyboard_callback, kdb_polls, modVars
    <3>. QED  BY <1>2, <1>3, <2>2, <2>3, <3>1 DEF Tracked
  <2>4. CASE mode = "kernel" /\ extended
    <3>1. mode' = "kernel" /\ extended' = FALSE
      BY <1>1, <2>1, <2>4 DEF Byte, keyboard_callback, kdb_polls, ExtendedKey
    <3>2. broke
      BY <1>3, <2>4 DEF Tracked
    <3>. QED  BY <1>2, <1>3, <2>2, <3>1, <3>2
  <2>5. CASE mode = "kernel" /\ ~extended
    <3>1. PlainKey(b)
      BY <1>1, <2>1, <2>5 DEF Byte, keyboard_callback, kdb_polls
    <3>2. extended' = FALSE
      BY <3>1, <2>5 DEF PlainKey
    <3>3. CASE mode' = "kdb" /\ down' = {}
      BY <1>2, <1>3, <2>2, <3>2, <3>3 DEF Tracked
    <3>4. CASE /\ mode' = "kernel"
               /\ \/ up /\ down' = down \ ModifierOf(k[2])
                  \/ ~up /\ down' = down \cup ModifierOf(k[2])
                  \/ ModifierOf(k[2]) = {} /\ down' = down
      <4>1. ASSUME ~broke, NEW m \in down'  PROVE \E j \in held' : BackedBy(m, j)
        <5>1. CASE m \in ModifierOf(k[2])
          BY <5>1, <4>1, <3>4, <1>5 DEF Holds, BackedBy
        <5>2. CASE m \notin ModifierOf(k[2])
          <6>1. m \in Pending
            BY <5>2, <4>1, <3>4, <1>3 DEF Pending
          <6>2. PICK j \in held : BackedBy(m, j)
            BY <6>1, <4>1, <2>5 DEF Tracked
          <6>3. j # k
            BY <6>2, <5>2 DEF BackedBy
          <6>. QED  BY <6>2, <6>3 DEF Holds
        <5>. QED  BY <5>1, <5>2
      <4>2. Pending' = down'
        BY <2>1 DEF Pending
      <4>. QED  BY <1>2, <1>3, <2>1, <2>2, <3>2, <3>4, <4>1, <4>2 DEF Tracked
    <3>5. ASSUME k[2] = "caps" \/ k[2] \in Letters  PROVE ModifierOf(k[2]) = {}
      BY <3>5, KeyboardAssumption DEF ModifierOf, Shifts, Modifiers
    <3>6. (mode' = "kdb" /\ down' = {}) \/
          (/\ mode' = "kernel"
           /\ \/ up /\ down' = down \ ModifierOf(k[2])
              \/ ~up /\ down' = down \cup ModifierOf(k[2])
              \/ ModifierOf(k[2]) = {} /\ down' = down)
      BY <1>1, <3>1, <3>5, <2>5 DEF PlainKey, DownInDebugger
    <3>. QED  BY <3>3, <3>4, <3>6
  <2>. QED  BY <2>3, <2>4, <2>5
<1>. QED  BY <1>4, <1>5

\* The byte after a prefix.
LEMMA SecondByteKeeps ==
  ASSUME ModInv, second_byte
  PROVE  ModInv'
<1>. USE DEF ModInv, second_byte
<1>1. PICK k \in Keys, up \in BOOLEAN : wire = <<[code |-> k[2], up |-> up]>>
  BY DEF WireOK
<1>. DEFINE b == [code |-> k[2], up |-> up]
<1>2. Head(wire) = b /\ b # Prefix /\ b.code = k[2] /\ b.up = up
  BY <1>1, NotPrefix
<1>3. wire' = <<>> /\ held' = held /\ WireOK' /\ Byte(b) /\ broke' = broke
  BY <1>2 DEF WireOK, Byte, keyboard_callback, kdb_polls
<1>4. CASE mode = "kdb"
  <2>1. UNCHANGED <<mode, extended, down>>
    BY <1>3, <1>4 DEF Byte, keyboard_callback, kdb_polls, modVars
  <2>. QED  BY <1>3, <1>4, <2>1 DEF Tracked
<1>5. CASE mode = "kernel" /\ extended
  <2>1. ExtendedKey(b)
    BY <1>2, <1>3, <1>5 DEF Byte, keyboard_callback, kdb_polls
  <2>2. mode' = "kernel" /\ extended' = FALSE /\ down' = Pending
    BY <1>1, <1>2, <1>5, <2>1 DEF ExtendedKey, Pending, Extensible
  <2>3. Pending' = Pending
    BY <1>3, <2>2 DEF Pending
  <2>. QED  BY <1>3, <1>5, <2>2, <2>3 DEF Tracked
<1>6. CASE mode = "kernel" /\ ~extended
  <2>1. PlainKey(b)
    BY <1>2, <1>3, <1>6 DEF Byte, keyboard_callback, kdb_polls
  <2>2. mode' \in {"kernel", "kdb"} /\ extended' = FALSE
    BY <1>6, <2>1 DEF PlainKey
  <2>3. broke
    BY <1>1, <1>6 DEF Tracked
  <2>. QED  BY <1>3, <2>2, <2>3
<1>. QED  BY <1>4, <1>5, <1>6

\* The reader, the timer, a breakpoint and the debugger's return.
LEMMA OthersKeep ==
  ASSUME ModInv,
         \/ getchar_call \/ Reader \/ timer_interrupt \/ breakpoint \/ kdb_return
         \/ UNCHANGED vars
  PROVE  ModInv'
<1>1. CASE breakpoint
  BY <1>1 DEF ModInv, breakpoint, modVars, WireOK
<1>2. CASE kdb_return
  BY <1>2 DEF ModInv, kdb_return, modVars, WireOK, Tracked, Pending
<1>3. CASE UNCHANGED <<modVars, mode, held, wire, broke>>
  BY <1>3 DEF ModInv, modVars, WireOK, Tracked, Pending
<1>. QED
  BY <1>1, <1>2, <1>3 DEF getchar_call, Reader, getchar_test, getchar_halt, getchar_read,
     getchar_advance, timer_interrupt, Calm, vars

\* The modifiers are tracked in every state.
THEOREM ModifierInvariance == Spec => []ModInv
<1>1. Init => ModInv
  BY DEF Init, ModInv, WireOK, Tracked, Pending
<1>2. ModInv /\ [Next]_vars => ModInv'
  BY KeyKeeps, SecondByteKeeps, OthersKeep DEF Next
<1>. QED  BY <1>1, <1>2, PTL DEF Spec

\* keyboard_callback leaves no modifier stuck and no prefix over, with any keys
\* pressed in any order, across the debugger that Ctrl+D enters.
THEOREM NoneStuckTheorem == Spec => []NoneStuck
<1>1. ModInv => NoneStuck
  BY DEF ModInv, NoneStuck, Tracked, Pending, BackedBy
<1>. QED  BY <1>1, ModifierInvariance, PTL

-----------------------------------------------------------------------------
(***************************************************************************)
(* The ring.  An index is at most one turn past the end, so the remainders *)
(* of the code are a subtraction or nothing.                               *)
(***************************************************************************)
Ring == 0 .. KBD_BUFFER_SIZE - 1

LEMMA ModOnce ==
  ASSUME NEW a \in Int, a < 2 * KBD_BUFFER_SIZE, a >= -KBD_BUFFER_SIZE
  PROVE  a % KBD_BUFFER_SIZE = IF a < 0 THEN a + KBD_BUFFER_SIZE
                               ELSE IF a < KBD_BUFFER_SIZE THEN a ELSE a - KBD_BUFFER_SIZE
BY KeyboardAssumption
Chars == Letters \X BOOLEAN
Count(h, t) == (h - t) % KBD_BUFFER_SIZE
Slot(t, i) == (t + i - 1) % KBD_BUFFER_SIZE
Contents(buf, h, t) == [i \in 1 .. Count(h, t) |-> buf[Slot(t, i)]]

\* The slots from t up to h hold characters.
Filled(buf, h, t) == \A i \in 1 .. Count(h, t) : buf[Slot(t, i)] \in Chars

LEMMA CountIs ==
  ASSUME NEW h \in Ring, NEW t \in Ring
  PROVE  /\ Count(h, t) \in 0 .. KBD_BUFFER_SIZE - 1
         /\ h >= t => Count(h, t) = h - t
         /\ h < t => Count(h, t) = h - t + KBD_BUFFER_SIZE
<1>1. h - t \in Int /\ h - t < 2 * KBD_BUFFER_SIZE /\ h - t >= -KBD_BUFFER_SIZE
  BY KeyboardAssumption DEF Ring
<1>. QED  BY <1>1, ModOnce, KeyboardAssumption DEF Count, Ring

LEMMA SlotIs ==
  ASSUME NEW t \in Ring, NEW i \in 1 .. KBD_BUFFER_SIZE
  PROVE  /\ Slot(t, i) \in Ring
         /\ t + i <= KBD_BUFFER_SIZE => Slot(t, i) = t + i - 1
         /\ t + i > KBD_BUFFER_SIZE => Slot(t, i) = t + i - 1 - KBD_BUFFER_SIZE
<1>1. t + i - 1 \in Int /\ t + i - 1 < 2 * KBD_BUFFER_SIZE /\ t + i - 1 >= -KBD_BUFFER_SIZE
  BY KeyboardAssumption DEF Ring
<1>. QED  BY <1>1, ModOnce, KeyboardAssumption DEF Slot, Ring

LEMMA AfterIs ==
  ASSUME NEW h \in Ring
  PROVE  /\ After(h) \in Ring
         /\ After(h) = IF h = KBD_BUFFER_SIZE - 1 THEN 0 ELSE h + 1
<1>1. h + 1 \in Int /\ h + 1 < 2 * KBD_BUFFER_SIZE /\ h + 1 >= -KBD_BUFFER_SIZE
  BY KeyboardAssumption DEF Ring
<1>. QED  BY <1>1, ModOnce, KeyboardAssumption DEF After, Ring

\* The contents are a sequence of characters.
LEMMA ContentsSeq ==
  ASSUME NEW h \in Ring, NEW t \in Ring, NEW buf, Filled(buf, h, t)
  PROVE  /\ Contents(buf, h, t) \in Seq(Chars)
         /\ Len(Contents(buf, h, t)) = Count(h, t)
         /\ \A i \in 1 .. Count(h, t) : Contents(buf, h, t)[i] = buf[Slot(t, i)]
<1>1. Count(h, t) \in Nat
  BY CountIs
<1>2. /\ Contents(buf, h, t) \in [1 .. Count(h, t) -> Chars]
      /\ \A i \in 1 .. Count(h, t) : Contents(buf, h, t)[i] = buf[Slot(t, i)]
  BY DEF Contents, Filled
<1>3. Contents(buf, h, t) \in Seq(Chars)
  BY <1>1, <1>2, SeqDef
<1>. QED  BY <1>1, <1>2, <1>3, LenProperties

\* A character written at h, which then moves on, goes to the end.
LEMMA PushAppends ==
  ASSUME NEW h \in Ring, NEW t \in Ring, NEW S, NEW buf \in [Ring -> S], NEW ch \in Chars,
         ~Full(h, t), Filled(buf, h, t)
  PROVE  LET new == [buf EXCEPT ![h] = ch]
         IN  /\ Filled(new, After(h), t)
             /\ Contents(new, After(h), t) = Append(Contents(buf, h, t), ch)
             /\ Count(h, t) < KBD_BUFFER_SIZE - 1
<1>. DEFINE new == [buf EXCEPT ![h] = ch]
            n == Count(h, t)
<1>. USE KeyboardAssumption
<1>0. /\ h \in Ring /\ t \in Ring /\ n \in 0 .. KBD_BUFFER_SIZE - 1
      /\ h >= t => n = h - t
      /\ h < t => n = h - t + KBD_BUFFER_SIZE
  BY CountIs
<1>a. After(h) \in Ring /\ After(h) = IF h = KBD_BUFFER_SIZE - 1 THEN 0 ELSE h + 1
  BY AfterIs
<1>1. n \in Nat /\ n < KBD_BUFFER_SIZE - 1
  BY <1>0, <1>a DEF Full, Ring
<1>2. After(h) \in Ring /\ Count(After(h), t) = n + 1
  <2>1. After(h) \in Ring /\ After(h) # t
    BY AfterIs DEF Full
  <2>2. /\ After(h) >= t => Count(After(h), t) = After(h) - t
        /\ After(h) < t => Count(After(h), t) = After(h) - t + KBD_BUFFER_SIZE
    BY <2>1, CountIs
  <2>. QED  BY <2>1, <2>2, <1>0, <1>a DEF Ring
<1>3. ASSUME NEW i \in 1 .. n  PROVE Slot(t, i) \in Ring /\ Slot(t, i) # h
  <2>1. i \in 1 .. KBD_BUFFER_SIZE
    BY <1>1
  <2>2. /\ Slot(t, i) \in Ring
        /\ t + i <= KBD_BUFFER_SIZE => Slot(t, i) = t + i - 1
        /\ t + i > KBD_BUFFER_SIZE => Slot(t, i) = t + i - 1 - KBD_BUFFER_SIZE
    BY <2>1, SlotIs
  <2>. QED  BY <1>0, <1>1, <2>1, <2>2 DEF Ring
<1>4. Slot(t, n + 1) = h
  <2>1. n + 1 \in 1 .. KBD_BUFFER_SIZE
    BY <1>1
  <2>2. /\ t + (n + 1) <= KBD_BUFFER_SIZE => Slot(t, n + 1) = t + (n + 1) - 1
        /\ t + (n + 1) > KBD_BUFFER_SIZE => Slot(t, n + 1) = t + (n + 1) - 1 - KBD_BUFFER_SIZE
    BY <2>1, SlotIs
  <2>. QED  BY <1>0, <1>1, <2>2 DEF Ring
<1>5. (\A i \in 1 .. n : new[Slot(t, i)] = buf[Slot(t, i)]) /\ new[Slot(t, n + 1)] = ch
  BY <1>3, <1>4
<1>6. \A i \in 1 .. n + 1 : i \in 1 .. n \/ i = n + 1
  BY <1>1
<1>7. Filled(new, After(h), t)
  <2>1. \A i \in 1 .. n + 1 : new[Slot(t, i)] \in Chars
    BY <1>5, <1>6 DEF Filled
  <2>. QED  BY <1>2, <2>1 DEF Filled
<1>8. /\ Contents(new, After(h), t) \in Seq(Chars)
      /\ Len(Contents(new, After(h), t)) = n + 1
      /\ \A i \in 1 .. n + 1 : Contents(new, After(h), t)[i] = new[Slot(t, i)]
  <2>. HIDE DEF new, n
  <2>. QED  BY <1>2, <1>7, ContentsSeq
<1>. DEFINE s == Contents(buf, h, t)
<1>9. s \in Seq(Chars) /\ Len(s) = n /\ \A i \in 1 .. n : s[i] = buf[Slot(t, i)]
  BY ContentsSeq
<1>10. /\ Append(s, ch) \in Seq(Chars) /\ Len(Append(s, ch)) = n + 1
       /\ (\A i \in 1 .. n : Append(s, ch)[i] = s[i]) /\ Append(s, ch)[n + 1] = ch
  <2>. HIDE DEF s, n
  <2>. QED  BY <1>9
<1>11. \A i \in 1 .. n + 1 : Contents(new, After(h), t)[i] = Append(s, ch)[i]
  BY <1>5, <1>6, <1>8, <1>9, <1>10
<1>12. Contents(new, After(h), t) = Append(s, ch)
  <2>. HIDE DEF new, n, s
  <2>. QED  BY <1>8, <1>10, <1>11, SeqEqual
<1>. QED  BY <1>1, <1>7, <1>12

\* When t moves on, the first character goes.
LEMMA AdvanceTails ==
  ASSUME NEW h \in Ring, NEW t \in Ring, NEW buf, h # t, Filled(buf, h, t)
  PROVE  /\ Filled(buf, h, After(t))
         /\ Contents(buf, h, t) # <<>> /\ Head(Contents(buf, h, t)) = buf[t]
         /\ buf[t] \in Chars
         /\ Contents(buf, h, After(t)) = Tail(Contents(buf, h, t))
<1>. DEFINE n == Count(h, t)
            s == Contents(buf, h, t)
<1>. USE KeyboardAssumption
<1>0. /\ h \in Ring /\ t \in Ring /\ n \in 0 .. KBD_BUFFER_SIZE - 1
      /\ h >= t => n = h - t
      /\ h < t => n = h - t + KBD_BUFFER_SIZE
  BY CountIs
<1>a. After(t) \in Ring /\ After(t) = IF t = KBD_BUFFER_SIZE - 1 THEN 0 ELSE t + 1
  BY AfterIs
<1>1. n \in Nat /\ n > 0 /\ n < KBD_BUFFER_SIZE
  BY <1>0 DEF Ring
<1>2. After(t) \in Ring /\ Count(h, After(t)) = n - 1
  <2>1. After(t) \in Ring
    BY AfterIs
  <2>2. /\ h >= After(t) => Count(h, After(t)) = h - After(t)
        /\ h < After(t) => Count(h, After(t)) = h - After(t) + KBD_BUFFER_SIZE
    BY <2>1, CountIs
  <2>. QED  BY <2>1, <2>2, <1>0, <1>a DEF Ring
<1>3. ASSUME NEW i \in 1 .. n - 1  PROVE Slot(After(t), i) = Slot(t, i + 1)
  <2>1. i \in 1 .. KBD_BUFFER_SIZE /\ i + 1 \in 1 .. KBD_BUFFER_SIZE
    BY <1>1
  <2>2. /\ After(t) + i <= KBD_BUFFER_SIZE => Slot(After(t), i) = After(t) + i - 1
        /\ After(t) + i > KBD_BUFFER_SIZE => Slot(After(t), i) = After(t) + i - 1 - KBD_BUFFER_SIZE
    BY <1>2, <2>1, SlotIs
  <2>3. /\ t + (i + 1) <= KBD_BUFFER_SIZE => Slot(t, i + 1) = t + (i + 1) - 1
        /\ t + (i + 1) > KBD_BUFFER_SIZE => Slot(t, i + 1) = t + (i + 1) - 1 - KBD_BUFFER_SIZE
    BY <2>1, SlotIs
  <2>. QED  BY <1>0, <1>a, <1>1, <2>1, <2>2, <2>3 DEF Ring
<1>4. Slot(t, 1) = t
  BY SlotIs DEF Ring
<1>5. s \in Seq(Chars) /\ Len(s) = n /\ \A i \in 1 .. n : s[i] = buf[Slot(t, i)]
  BY ContentsSeq
<1>6. \A i \in 1 .. n - 1 : i \in 1 .. n /\ i + 1 \in 1 .. n
  BY <1>1
<1>7. Filled(buf, h, After(t))
  BY <1>2, <1>3, <1>6 DEF Filled
<1>8. buf[t] \in Chars /\ s # <<>> /\ Head(s) = buf[t]
  <2>1. 1 \in 1 .. n
    BY <1>1
  <2>2. buf[t] \in Chars /\ s[1] = buf[t]
    BY <1>4, <1>5, <2>1 DEF Filled
  <2>3. s # <<>>
    <3>. HIDE DEF s, n
    <3>. QED  BY <1>1, <1>5
  <2>4. Head(s) = s[1]
    <3>. HIDE DEF s
    <3>. QED  BY <1>5, <2>3
  <2>. QED  BY <2>2, <2>3, <2>4
<1>. DEFINE r == Contents(buf, h, After(t))
<1>9. r \in Seq(Chars) /\ Len(r) = n - 1 /\ \A i \in 1 .. n - 1 : r[i] = buf[Slot(After(t), i)]
  BY <1>2, <1>7, ContentsSeq
<1>10. /\ Tail(s) \in Seq(Chars) /\ Len(Tail(s)) = n - 1
       /\ \A i \in 1 .. n - 1 : Tail(s)[i] = s[i + 1]
  <2>. HIDE DEF s, n
  <2>. QED  BY <1>5, <1>8, HeadTailProperties
<1>11. \A i \in 1 .. n - 1 : r[i] = Tail(s)[i]
  BY <1>3, <1>5, <1>6, <1>9, <1>10
<1>12. r = Tail(s)
  BY <1>9, <1>10, <1>11, SeqEqual
<1>. QED  BY <1>7, <1>8, <1>12

(***************************************************************************)
(* The driver: every slot between kbd_tail and kbd_head holds a character, *)
(* a reader past its test has one to read, and what it has read is the     *)
(* oldest, which an interrupt does not overwrite.                          *)
(***************************************************************************)
RingInv ==
  /\ kbd_head \in Ring /\ kbd_tail \in Ring
  /\ kbd_buffer \in [Ring -> Chars \cup {Nothing}]
  /\ Filled(kbd_buffer, kbd_head, kbd_tail)
  /\ pc \in {"read", "advance"} => kbd_head # kbd_tail
  /\ c = IF pc = "advance" THEN kbd_buffer[kbd_tail] ELSE Nothing

LEMMA WaitingIs == /\ Waiting = Contents(kbd_buffer, kbd_head, kbd_tail)
                   /\ Waiting' = Contents(kbd_buffer', kbd_head', kbd_tail')
BY DEF Waiting, Contents, Count, Slot

\* A byte pushes one character at most, and wakes a reader at most.
LEMMA ByteStep ==
  ASSUME NEW b, Byte(b)
  PROVE  /\ c' = c /\ (pc' = pc \/ (pc = "halt" /\ pc' = "test"))
         /\ UNCHANGED ringVars \/ \E ch \in Chars : kbd_push(ch)
<1>1. CASE kdb_polls(b)
  BY <1>1 DEF kdb_polls
<1>2. CASE keyboard_callback(b)
  <2>1. c' = c /\ (pc' = pc \/ (pc = "halt" /\ pc' = "test"))
    BY <1>2 DEF keyboard_callback
  <2>2. UNCHANGED ringVars \/ (b.code \in Letters /\ kbd_push(Character(b.code)))
    BY <1>2 DEF keyboard_callback, ExtendedKey, PlainKey
  <2>3. b.code \in Letters => Character(b.code) \in Chars
    BY DEF Character, Chars
  <2>. QED  BY <2>1, <2>2, <2>3
<1>. QED  BY <1>1, <1>2 DEF Byte

\* Whatever byte comes, the queue gets one character, or stays as it is.
LEMMA ByteQueue ==
  ASSUME RingInv, NEW b, Byte(b)
  PROVE  RingInv' /\ [Queue!Next]_<<Waiting, c>>
<1>1. c' = c /\ (pc' = pc \/ (pc = "halt" /\ pc' = "test"))
  BY ByteStep
<1>2. CASE UNCHANGED ringVars
  <2>1. RingInv'
    BY <1>1, <1>2 DEF RingInv, ringVars
  <2>2. UNCHANGED <<Waiting, c>>
    BY <1>1, <1>2, WaitingIs DEF ringVars
  <2>. QED  BY <2>1, <2>2
<1>3. ASSUME NEW ch \in Chars, kbd_push(ch), ~UNCHANGED ringVars
      PROVE  RingInv' /\ [Queue!Next]_<<Waiting, c>>
  <2>1. /\ ~Full(kbd_head, kbd_tail)
        /\ kbd_buffer' = [kbd_buffer EXCEPT ![kbd_head] = ch]
        /\ kbd_head' = After(kbd_head) /\ kbd_tail' = kbd_tail
    BY <1>3 DEF kbd_push
  <2>2. /\ Filled(kbd_buffer', kbd_head', kbd_tail')
        /\ Contents(kbd_buffer', kbd_head', kbd_tail')
             = Append(Contents(kbd_buffer, kbd_head, kbd_tail), ch)
        /\ Count(kbd_head, kbd_tail) < KBD_BUFFER_SIZE - 1
    BY <2>1, PushAppends DEF RingInv
  <2>3. kbd_head' \in Ring /\ kbd_head' # kbd_tail
    BY <2>1, AfterIs DEF RingInv, Full
  <2>4. kbd_buffer' \in [Ring -> Chars \cup {Nothing}]
    BY <2>1 DEF RingInv
  <2>5. c' = IF pc' = "advance" THEN kbd_buffer'[kbd_tail'] ELSE Nothing
    BY <1>1, <2>1 DEF RingInv
  <2>6. RingInv'
    BY <1>1, <2>1, <2>2, <2>3, <2>4, <2>5 DEF RingInv
  <2>7. Len(Waiting) = Count(kbd_head, kbd_tail)
    BY WaitingIs, ContentsSeq DEF RingInv
  <2>8. Queue!Put(ch)
    BY <1>1, <2>2, <2>7, WaitingIs DEF Queue!Put
  <2>. QED  BY <2>6, <2>8 DEF Queue!Next, Chars
<1>. QED  BY <1>2, <1>3, ByteStep

\* The reader's steps: one looks at the first character, one removes it.
LEMMA ReaderQueue ==
  ASSUME RingInv, Reader \/ getchar_call
  PROVE  RingInv' /\ [Queue!Next]_<<Waiting, c>>
<1>1. CASE getchar_call \/ getchar_test \/ getchar_halt
  <2>1. UNCHANGED ringVars /\ c' = c
    BY <1>1 DEF getchar_call, getchar_test, getchar_halt
  <2>2. RingInv'
    BY <1>1, <2>1 DEF RingInv, ringVars, getchar_call, getchar_test, getchar_halt,
       keyboard_available
  <2>3. UNCHANGED <<Waiting, c>>
    BY <2>1, WaitingIs DEF ringVars
  <2>. QED  BY <2>2, <2>3
<1>2. CASE getchar_read
  <2>1. UNCHANGED ringVars /\ c = Nothing /\ kbd_head # kbd_tail
    BY <1>2 DEF getchar_read, RingInv
  <2>2. c' = kbd_buffer[kbd_tail] /\ pc' = "advance"
    BY <1>2 DEF getchar_read
  <2>3. RingInv'
    BY <2>1, <2>2 DEF RingInv, ringVars
  <2>4. Waiting # <<>> /\ Head(Waiting) = kbd_buffer[kbd_tail]
    BY <2>1, WaitingIs, AdvanceTails DEF RingInv
  <2>5. Waiting' = Waiting
    BY <2>1, WaitingIs DEF ringVars
  <2>6. Queue!Look
    BY <2>1, <2>2, <2>4, <2>5 DEF Queue!Look
  <2>. QED  BY <2>3, <2>6 DEF Queue!Next
<1>3. CASE getchar_advance
  <2>1. /\ kbd_tail' = After(kbd_tail) /\ kbd_buffer' = kbd_buffer /\ kbd_head' = kbd_head
        /\ c' = Nothing /\ pc' = "idle" /\ c = kbd_buffer[kbd_tail] /\ kbd_head # kbd_tail
    BY <1>3 DEF getchar_advance, RingInv
  <2>2. /\ Filled(kbd_buffer, kbd_head, After(kbd_tail))
        /\ Waiting # <<>> /\ Head(Waiting) = kbd_buffer[kbd_tail] /\ kbd_buffer[kbd_tail] \in Chars
        /\ Waiting' = Tail(Waiting)
    BY <2>1, WaitingIs, AdvanceTails DEF RingInv
  <2>3. kbd_tail' \in Ring
    BY <2>1, AfterIs DEF RingInv
  <2>4. RingInv'
    BY <2>1, <2>2, <2>3 DEF RingInv
  <2>5. c # Nothing
    <3>1. PICK x \in Letters, y \in BOOLEAN : c = <<x, y>>
      BY <2>1, <2>2 DEF Chars
    <3>2. <<x, y>>[1] = x /\ DOMAIN <<x, y>> = 1 .. 2
      OBVIOUS
    <3>3. 1 \in DOMAIN <<x, y>> /\ 1 \notin DOMAIN <<>>
      BY <3>2
    <3>. QED  BY <3>1, <3>3, Zenon DEF Nothing
  <2>6. Queue!Remove
    BY <2>1, <2>2, <2>5 DEF Queue!Remove
  <2>. QED  BY <2>4, <2>6 DEF Queue!Next
<1>. QED  BY <1>1, <1>2, <1>3 DEF Reader

\* One step of the driver is one step of the queue, or none.
LEMMA QueueStep ==
  ASSUME RingInv, [Next]_vars
  PROVE  RingInv' /\ [Queue!Next]_<<Waiting, c>>
<1>1. CASE \E b : Byte(b)
  BY <1>1, ByteQueue
<1>2. CASE Reader \/ getchar_call
  BY <1>2, ReaderQueue
<1>3. CASE timer_interrupt \/ breakpoint \/ kdb_return \/ UNCHANGED vars
  <2>1. UNCHANGED ringVars /\ c' = c /\ (pc' = pc \/ (pc = "halt" /\ pc' = "test"))
    BY <1>3 DEF timer_interrupt, TimerWakes, breakpoint, kdb_return, vars
  <2>2. RingInv'
    BY <2>1 DEF RingInv, ringVars
  <2>3. UNCHANGED <<Waiting, c>>
    BY <2>1, WaitingIs DEF ringVars
  <2>. QED  BY <2>2, <2>3
<1>4. CASE (\E k \in Keys, up \in BOOLEAN : key(k, up)) \/ second_byte
  <2>1. ASSUME NEW k \in Keys, NEW up \in BOOLEAN, key(k, up)  PROVE \E b : Byte(b)
    <3>. DEFINE b == [code |-> k[2], up |-> up]
    <3>1. IF k[1] THEN Byte(Prefix) ELSE Byte(b)
      BY <2>1 DEF key
    <3>. HIDE DEF b
    <3>. QED  BY <3>1
  <2>2. second_byte => \E b : Byte(b)
    BY Zenon DEF second_byte
  <2>. QED  BY <1>1, <1>4, <2>1, <2>2
<1>. QED  BY <1>2, <1>3, <1>4 DEF Next

\* kbd_push and keyboard_getchar implement a bounded queue in a ring of any size,
\* with the interrupt handler between any two steps of the reader: a character is
\* lost only when the ring is full, and none is returned twice or out of order.
THEOREM QueueTheorem == Spec => QueueSpec
<1>1. Init => RingInv /\ Queue!Init
  <2>. SUFFICES ASSUME Init  PROVE RingInv /\ Queue!Init
    OBVIOUS
  <2>1. kbd_head \in Ring /\ kbd_tail \in Ring
    BY KeyboardAssumption DEF Init, Ring
  <2>2. Count(kbd_head, kbd_tail) = 0
    BY <2>1, CountIs DEF Init
  <2>3. RingInv
    <3>1. Filled(kbd_buffer, kbd_head, kbd_tail)
      BY <2>2 DEF Filled
    <3>2. kbd_buffer \in [Ring -> Chars \cup {Nothing}]
      BY DEF Init, Ring
    <3>. QED  BY <2>1, <3>1, <3>2 DEF Init, RingInv
  <2>4. Len(Waiting) = 0 /\ Waiting \in Seq(Chars)
    BY <2>1, <2>2, <2>3, WaitingIs, ContentsSeq DEF RingInv
  <2>5. Waiting = <<>>
    BY <2>4, EmptySeq
  <2>. QED  BY <2>3, <2>5 DEF Init, Queue!Init
<1>2. RingInv /\ [Next]_vars => RingInv' /\ [Queue!Next]_<<Waiting, c>>
  BY QueueStep
<1>. QED  BY <1>1, <1>2, PTL DEF Spec, QueueSpec, Queue!Spec
=============================================================================
