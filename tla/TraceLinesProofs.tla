--------------------------- MODULE TraceLinesProofs ---------------------------
(***************************************************************************)
(* Theorems about TraceLines: its types for every layout and every bound,  *)
(* and, where the tree of every line fits the line buffer and opening a    *)
(* file does not run out of memory half-way, that the cursor is the end of *)
(* the file, that patches stay on their own line, and that the lines shown *)
(* as pending are those of the frames on the stack.                        *)
(***************************************************************************)
EXTENDS TraceLines, FiniteSetTheorems, SequenceTheorems, WellFoundedInduction, TLAPS

(***************************************************************************)
(* Sets of natural numbers.                                                *)
(***************************************************************************)
LEMMA SmallerNaturals == \A x, y \in Nat : x < y => <<x, y>> \in OpToRel(<, Nat)
<1> TAKE x, y \in Nat
<1> HAVE x < y
<1> DEFINE p == <<x, y>>
<1>1. p \in Nat \X Nat /\ p[1] < p[2]
  OBVIOUS
<1> QED
  BY <1>1, Zenon DEF OpToRel

LEMMA LeastNatural ==
    ASSUME NEW S \in SUBSET Nat, S # {}
    PROVE  \E x \in S : \A y \in S : x <= y
<1>1. PICK x \in S : \A y \in S : ~(<<y, x>> \in OpToRel(<, Nat))
  BY NatLessThanWellFounded, WFMin, Zenon
<1>2. \A y \in S : ~(y < x)
  BY <1>1, SmallerNaturals
<1> QED
  BY <1>2

LEMMA MinProperty ==
    ASSUME NEW S \in SUBSET Nat, S # {}
    PROVE  Min(S) \in S /\ \A y \in S : Min(S) <= y
BY LeastNatural, Zenon DEF Min

LEMMA MaxProperty ==
    ASSUME NEW S \in SUBSET Nat, S # {}, NEW bound \in Nat, \A x \in S : x <= bound
    PROVE  Max(S) \in S /\ \A y \in S : y <= Max(S)
<1> DEFINE above == {m \in Nat : \A x \in S : x <= m}
<1>1. PICK m \in above : \A n \in above : m <= n
  <2>1. above \in SUBSET Nat /\ bound \in above
    OBVIOUS
  <2> HIDE DEF above
  <2> QED
    BY <2>1, LeastNatural
<1>2. m \in S
  <2>1. SUFFICES ASSUME m \notin S PROVE FALSE
    OBVIOUS
  <2>2. \A x \in S : x < m
    BY <1>1, <2>1
  <2>3. m - 1 \in Nat /\ \A x \in S : x <= m - 1
    <3>1. PICK x \in S : x < m
      BY <2>2
    <3>2. \A y \in S : y \in Nat /\ y < m
      BY <2>2
    <3> QED
      BY <1>1, <3>1, <3>2
  <2>4. m - 1 \in above
    BY <2>3
  <2> QED
    BY <1>1, <2>4
<1>3. \E x \in S : \A y \in S : x >= y
  BY <1>1, <1>2
<1>4. Max(S) \in S /\ \A y \in S : Max(S) >= y
  BY <1>3, Zenon DEF Max
<1> QED
  BY <1>4

LEMMA Induction ==
    ASSUME NEW S, 0 \in S, \A n \in Nat : n \in S => n + 1 \in S
    PROVE  Nat \subseteq S
<1> DEFINE T == Nat \ S
<1>1. SUFFICES ASSUME T # {} PROVE FALSE
  OBVIOUS
<1>2. PICK x \in T : \A y \in T : x <= y
  <2>1. T \in SUBSET Nat
    OBVIOUS
  <2> HIDE DEF T
  <2> QED
    BY <1>1, <2>1, LeastNatural
<1>3. x - 1 \in Nat /\ x - 1 < x
  OBVIOUS
<1>4. x - 1 \in S
  BY <1>2, <1>3
<1> QED
  BY <1>3, <1>4
-------------------------------------------------------------------------------
(***************************************************************************)
(* Cells, and what a patch does to them.                                   *)
(***************************************************************************)
Patches == [line : Nat, part : {"none", "field", "glyph"}]

LEMMA FunctionAsSeq ==
    ASSUME NEW S, NEW n \in Nat, NEW f \in [1..n -> S]
    PROVE  f \in Seq(S) /\ Len(f) = n
<1>1. f \in Seq(S)
  BY SeqDef
<1>2. DOMAIN f = 1..Len(f) /\ Len(f) \in Nat
  BY <1>1, LenProperties
<1> QED
  BY <1>1, <1>2

LEMMA FillerType ==
    ASSUME NEW size \in Nat, NEW part \in Parts
    PROVE  Filler(size, part) \in Seq(Byte) /\ Len(Filler(size, part)) = size
<1>1. Filler(size, part) \in [1..size -> Byte]
  BY DEF Filler, Byte, Unpatched, NoLine
<1> QED
  BY <1>1, FunctionAsSeq

LEMMA FillerCells ==
    ASSUME NEW size \in Nat, NEW part \in Parts
    PROVE  \A i \in 1..size : Filler(size, part)[i] = [line |-> NoLine, part |-> part, patch |-> Unpatched]
BY DEF Filler

\* A patch of any bytes at all, inside the file or past its end.
LEMMA PWriteType ==
    ASSUME NEW file \in Seq(Byte), NEW patches, NEW bound \in Nat,
           DOMAIN patches \in SUBSET (Nat \ {0}),
           \A i \in DOMAIN patches : i <= bound /\ patches[i] \in Patches
    PROVE  PWrite(file, patches) \in Seq(Byte)
<1> DEFINE ends == {Len(file)} \cup DOMAIN patches
           end == Max(ends)
           longer == file \o Filler(end - Len(file), "hole")
<1>1. Len(file) \in Nat
  BY LenProperties
<1>2. end \in Nat /\ Len(file) <= end
  <2>1. ends \in SUBSET Nat /\ ends # {}
    BY <1>1
  <2>2. \A x \in ends : x <= Len(file) + bound
    BY <1>1
  <2>3. Len(file) + bound \in Nat /\ Len(file) \in ends
    BY <1>1
  <2> HIDE DEF ends
  <2> QED
    BY <2>1, <2>2, <2>3, MaxProperty
<1>3. end - Len(file) \in Nat /\ "hole" \in Parts
  BY <1>1, <1>2 DEF Parts
<1> HIDE DEF end
<1>4. longer \in Seq(Byte)
  BY <1>3, FillerType, ConcatProperties
<1>5. Len(longer) \in Nat /\ longer \in [1..Len(longer) -> Byte] /\ DOMAIN longer = 1..Len(longer)
  BY <1>4, LenProperties
<1> HIDE DEF longer
<1>6. [i \in DOMAIN longer |->
         IF i \in DOMAIN patches THEN [longer[i] EXCEPT !.patch = patches[i]] ELSE longer[i]]
        \in [1..Len(longer) -> Byte]
  <2>1. \A i \in DOMAIN longer : longer[i] \in Byte
    BY <1>5
  <2> QED
    BY <1>5, <2>1 DEF Byte, Patches
<1>7. PWrite(file, patches) =
        [i \in DOMAIN longer |->
           IF i \in DOMAIN patches THEN [longer[i] EXCEPT !.patch = patches[i]] ELSE longer[i]]
  BY DEF PWrite, end, longer, ends
<1> QED
  BY <1>5, <1>6, <1>7, FunctionAsSeq

\* A patch inside the file leaves its length, and of each cell the line and
\* the part.
LEMMA PWriteInside ==
    ASSUME NEW file \in Seq(Byte), NEW patches,
           DOMAIN patches \in SUBSET (1..Len(file)),
           \A i \in DOMAIN patches : patches[i] \in Patches
    PROVE  /\ PWrite(file, patches) \in Seq(Byte)
           /\ Len(PWrite(file, patches)) = Len(file)
           /\ \A i \in 1..Len(file) :
                /\ PWrite(file, patches)[i].line = file[i].line
                /\ PWrite(file, patches)[i].part = file[i].part
                /\ PWrite(file, patches)[i].patch =
                     IF i \in DOMAIN patches THEN patches[i] ELSE file[i].patch
<1> DEFINE ends == {Len(file)} \cup DOMAIN patches
           end == Max(ends)
           longer == file \o Filler(end - Len(file), "hole")
           patched == [i \in DOMAIN longer |->
             IF i \in DOMAIN patches THEN [longer[i] EXCEPT !.patch = patches[i]] ELSE longer[i]]
<1>1. Len(file) \in Nat /\ file \in [1..Len(file) -> Byte] /\ DOMAIN file = 1..Len(file)
  BY LenProperties
<1>2. end = Len(file)
  <2>1. ends \in SUBSET Nat /\ ends # {}
    BY <1>1
  <2>2. (\A x \in ends : x <= Len(file)) /\ Len(file) \in ends
    BY <1>1
  <2> HIDE DEF ends
  <2>3. end \in ends /\ \A y \in ends : y <= end
    BY <1>1, <2>1, <2>2, MaxProperty
  <2>4. end \in Nat /\ end <= Len(file) /\ Len(file) <= end
    BY <2>1, <2>2, <2>3
  <2> QED
    BY <1>1, <2>4
<1>3. longer = file
  <2>1. Filler(end - Len(file), "hole") = << >>
    <3>1. end - Len(file) = 0 /\ "hole" \in Parts
      BY <1>1, <1>2 DEF Parts
    <3>2. Filler(0, "hole") \in Seq(Byte) /\ Len(Filler(0, "hole")) = 0
      BY <3>1, FillerType
    <3> QED
      BY <3>1, <3>2, EmptySeq
  <2> QED
    BY <2>1, ConcatEmptySeq
<1>4. PWrite(file, patches) = patched
  BY DEF PWrite
<1>5. \A i \in 1..Len(file) : file[i] \in Byte
  BY <1>1
<1> HIDE DEF longer
<1>6. patched \in [1..Len(file) -> Byte]
  <2>1. patched = [i \in 1..Len(file) |->
          IF i \in DOMAIN patches THEN [file[i] EXCEPT !.patch = patches[i]] ELSE file[i]]
    BY <1>1, <1>3
  <2> HIDE DEF patched
  <2> QED
    BY <1>5, <2>1 DEF Byte, Patches
<1>7. patched \in Seq(Byte) /\ Len(patched) = Len(file)
  BY <1>1, <1>6, FunctionAsSeq
<1>8. ASSUME NEW i \in 1..Len(file)
      PROVE  /\ patched[i].line = file[i].line
             /\ patched[i].part = file[i].part
             /\ patched[i].patch = IF i \in DOMAIN patches THEN patches[i] ELSE file[i].patch
  BY <1>1, <1>3, <1>5 DEF Byte, Patches
<1> QED
  BY <1>4, <1>7, <1>8
-------------------------------------------------------------------------------
(***************************************************************************)
(* The layout of a line.                                                   *)
(***************************************************************************)
LEMMA Widths ==
    /\ {StampWidth, FieldWidth, SegmentWidth, HeaderSize, PrefixWidth} \subseteq Nat \ {0}
    /\ Capacity - PrefixWidth - 1 \in Nat
    /\ PrefixWidth = IF LogElapsed THEN StampWidth + FieldWidth + 1 ELSE StampWidth
    /\ LogElapsed \in BOOLEAN /\ LogExceptions \in BOOLEAN
BY LayoutAssumption DEF PrefixWidth

LEMMA Quotient ==
    ASSUME NEW a \in Nat, NEW b \in Nat \ {0}
    PROVE  a \div b \in Nat /\ (a \div b) * b <= a
OBVIOUS

LEMMA TreeFits ==
    ASSUME NEW d \in Nat
    PROVE  /\ SegmentsWritten(d) \in 0..d
           /\ SegmentsWritten(d) * SegmentWidth \in Nat
           /\ PrefixWidth + SegmentsWritten(d) * SegmentWidth <= Capacity - 1
<1> DEFINE room == Capacity - PrefixWidth - 1
           quotient == room \div SegmentWidth
           s == SegmentsWritten(d)
<1>1. room \in Nat /\ SegmentWidth \in Nat \ {0} /\ PrefixWidth \in Nat /\ Capacity \in Int
  BY Widths, LayoutAssumption
<1> HIDE DEF room
<1>2. quotient \in Nat /\ quotient * SegmentWidth <= room
  BY <1>1, Quotient
<1> HIDE DEF quotient
<1>3. s = Min({d, quotient})
  BY DEF SegmentsWritten, quotient, room
<1>4. s \in {d, quotient} /\ s <= d /\ s <= quotient
  <2>1. {d, quotient} \in SUBSET Nat /\ {d, quotient} # {}
    BY <1>2
  <2> QED
    BY <1>3, <2>1, MinProperty
<1> HIDE DEF s
<1>5. s \in 0..d
  BY <1>2, <1>4
<1>6. s * SegmentWidth \in Nat /\ s * SegmentWidth <= quotient * SegmentWidth
  <2>1. s \in Nat /\ quotient \in Nat /\ s <= quotient
    BY <1>2, <1>4, <1>5
  <2> QED
    BY <1>1, <2>1
<1>7. s * SegmentWidth <= room
  <2> DEFINE product == s * SegmentWidth
             most == quotient * SegmentWidth
  <2>1. product \in Nat /\ most \in Nat /\ product <= most /\ most <= room
    BY <1>1, <1>2, <1>6
  <2> HIDE DEF product, most
  <2>2. product <= room
    BY <1>1, <2>1
  <2> QED
    BY <2>2 DEF product
<1>8. PrefixWidth + s * SegmentWidth <= Capacity - 1
  <2> DEFINE product == s * SegmentWidth
  <2>1. product \in Nat /\ product <= room
    BY <1>6, <1>7
  <2> HIDE DEF product
  <2>2. PrefixWidth + product <= Capacity - 1
    BY <1>1, <2>1 DEF room
  <2> QED
    BY <2>2 DEF product
<1> QED
  BY <1>5, <1>6, <1>8 DEF s

\* Where the tree of a line ends.
TreeEnd(d) == PrefixWidth + SegmentsWritten(d) * SegmentWidth

LEMMA LineSizeProperty ==
    ASSUME NEW d \in Nat, NEW text \in Nat
    PROVE  /\ TreeEnd(d) \in Nat /\ PrefixWidth <= TreeEnd(d)
           /\ LineSize(d, text) \in Nat /\ LineSize(d, text) >= TreeEnd(d) + 1
<1> DEFINE room == Capacity - TreeEnd(d) - 1
           shown == Min({text, room})
<1>1. PrefixWidth \in Nat /\ Capacity \in Int /\ PrefixWidth <= Capacity - 1
  BY Widths, LayoutAssumption
<1>2. TreeEnd(d) \in Nat /\ PrefixWidth <= TreeEnd(d) /\ TreeEnd(d) <= Capacity - 1
  <2> DEFINE product == SegmentsWritten(d) * SegmentWidth
  <2>1. product \in Nat /\ PrefixWidth + product <= Capacity - 1
    BY TreeFits
  <2>2. TreeEnd(d) = PrefixWidth + product
    BY DEF TreeEnd
  <2> HIDE DEF product
  <2> QED
    BY <1>1, <2>1, <2>2
<1>3. room \in Nat
  BY <1>1, <1>2
<1>4. LineSize(d, text) = TreeEnd(d) + shown + 1
  BY DEF LineSize, TreeEnd
<1> HIDE DEF room
<1>5. shown \in Nat
  <2>1. {text, room} \in SUBSET Nat /\ {text, room} # {}
    BY <1>3
  <2> QED
    BY <2>1, MinProperty
<1> HIDE DEF shown
<1> QED
  BY <1>2, <1>4, <1>5
\* A call line as a sequence of cells.
LEMMA CallLine ==
    ASSUME NEW line \in Nat, NEW d \in Nat, NEW text \in Nat
    PROVE  /\ format_into(line, d, text) \in Seq(Byte)
           /\ Len(format_into(line, d, text)) = LineSize(d, text)
           /\ \A i \in 1..LineSize(d, text) :
                format_into(line, d, text)[i] = [line |-> line, part |-> PartAt(i - 1, d), patch |-> Unpatched]
<1>1. LineSize(d, text) \in Nat
  BY LineSizeProperty
<1>2. \A i \in 1..LineSize(d, text) : PartAt(i - 1, d) \in Parts
  BY Zenon DEF PartAt, Parts
<1>3. format_into(line, d, text) \in [1..LineSize(d, text) -> Byte]
  BY <1>2 DEF format_into, Byte, Unpatched, NoLine
<1> QED
  BY <1>1, <1>3, FunctionAsSeq DEF format_into

LEMMA EventLine ==
    ASSUME NEW line \in Nat, NEW d \in Nat, NEW text \in Nat
    PROVE  /\ format_event_into(line, d, text) \in Seq(Byte)
           /\ \A i \in 1..Len(format_event_into(line, d, text)) :
                format_event_into(line, d, text)[i] = [line |-> line, part |-> "event", patch |-> Unpatched]
<1> DEFINE size == LineSize(Max({d, 1}), text)
<1>1. Max({d, 1}) \in Nat
  <2>1. {d, 1} \in SUBSET Nat /\ {d, 1} # {} /\ d + 1 \in Nat /\ \A x \in {d, 1} : x <= d + 1
    OBVIOUS
  <2> QED
    BY <2>1, MaxProperty
<1>2. size \in Nat
  BY <1>1, LineSizeProperty
<1>3. format_event_into(line, d, text) =
        [i \in 1..size |-> [line |-> line, part |-> "event", patch |-> Unpatched]]
  BY DEF format_event_into
<1> HIDE DEF size
<1>4. format_event_into(line, d, text) \in [1..size -> Byte]
  BY <1>3 DEF Byte, Parts, Unpatched, NoLine
<1> QED
  BY <1>2, <1>3, <1>4, FunctionAsSeq

\* The duration field is where PatchField looks for it ...
LEMMA FieldPlace ==
    ASSUME LogElapsed, NEW d \in Nat, NEW text \in Nat
    PROVE  /\ StampWidth + 1 .. StampWidth + FieldWidth \subseteq 1..LineSize(d, text)
           /\ \A i \in 1..LineSize(d, text) :
                PartAt(i - 1, d) = "field" <=> i \in StampWidth + 1 .. StampWidth + FieldWidth
<1>1. /\ StampWidth \in Nat /\ FieldWidth \in Nat
      /\ PrefixWidth = StampWidth + FieldWidth + 1
  BY Widths
<1>2. LineSize(d, text) \in Nat /\ LineSize(d, text) >= PrefixWidth + 1
  <2> DEFINE e == TreeEnd(d)
  <2>1. e \in Nat /\ PrefixWidth <= e /\ LineSize(d, text) \in Nat /\ LineSize(d, text) >= e + 1
    BY LineSizeProperty
  <2> HIDE DEF e
  <2> QED
    BY <1>1, <2>1
<1>3. StampWidth + 1 .. StampWidth + FieldWidth \subseteq 1..LineSize(d, text)
  BY <1>1, <1>2
<1>4. ASSUME NEW i \in 1..LineSize(d, text)
      PROVE  PartAt(i - 1, d) = "field" <=> i \in StampWidth + 1 .. StampWidth + FieldWidth
  <2>1. i \in Int
    BY <1>2
  <2>2. ~(i - 1 < StampWidth) /\ i - 1 < StampWidth + FieldWidth
          <=> i \in StampWidth + 1 .. StampWidth + FieldWidth
    BY <1>1, <2>1
  <2>3. PartAt(i - 1, d) = "field" <=>
          ~(i - 1 < StampWidth) /\ i - 1 < StampWidth + FieldWidth
    BY ZenonT(30) DEF PartAt
  <2> QED
    BY <2>2, <2>3
<1> QED
  BY <1>3, <1>4

\* ... and the glyph, of a line whose tree was not clamped, where PatchGlyph does.
LEMMA GlyphPlace ==
    ASSUME NEW d \in Nat, d >= 1, SegmentsWritten(d) = d, NEW text \in Nat
    PROVE  /\ GlyphOffset(d) \in Nat
           /\ GlyphOffset(d) + 1 \in 1..LineSize(d, text)
           /\ PartAt(GlyphOffset(d), d) = "glyph"
<1> DEFINE before == SegmentWidth * (d - 1)
           product == SegmentsWritten(d) * SegmentWidth
<1>1. /\ StampWidth \in Nat \ {0} /\ FieldWidth \in Nat \ {0} /\ SegmentWidth \in Nat \ {0}
      /\ PrefixWidth \in Nat \ {0}
      /\ PrefixWidth = IF LogElapsed THEN StampWidth + FieldWidth + 1 ELSE StampWidth
  BY Widths
<1>2. before \in Nat /\ product = before + SegmentWidth /\ (d - 1) * SegmentWidth = before
  BY <1>1
<1>3. TreeEnd(d) = PrefixWidth + product
  BY DEF TreeEnd
<1>4. GlyphOffset(d) = PrefixWidth + before
  BY DEF GlyphOffset
<1> HIDE DEF before, product
<1>6. GlyphOffset(d) \in Nat /\ GlyphOffset(d) + 1 <= TreeEnd(d)
  BY <1>1, <1>2, <1>3, <1>4
<1>7. GlyphOffset(d) + 1 \in 1..LineSize(d, text)
  <2> DEFINE e == TreeEnd(d)
  <2>1. e \in Nat /\ LineSize(d, text) \in Nat /\ LineSize(d, text) >= e + 1
    BY LineSizeProperty
  <2>2. GlyphOffset(d) + 1 <= e
    BY <1>6
  <2> HIDE DEF e
  <2> QED
    BY <1>6, <2>1, <2>2
<1>8. /\ ~(GlyphOffset(d) < StampWidth)
      /\ ~(LogElapsed /\ GlyphOffset(d) < StampWidth + FieldWidth)
  BY <1>1, <1>2, <1>4
<1>9. GlyphOffset(d) = PrefixWidth + (d - 1) * SegmentWidth
  BY <1>2, <1>4
<1>10. PartAt(GlyphOffset(d), d) = "glyph"
  BY <1>8, <1>9, ZenonT(30) DEF PartAt
<1> QED
  BY <1>6, <1>7, <1>10
-------------------------------------------------------------------------------
(***************************************************************************)
(* Type correctness.                                                       *)
(***************************************************************************)
Outs == [file : Seq(Byte), fp : BOOLEAN, patchFd : BOOLEAN, attempted : BOOLEAN,
         cursor : Nat, cursorValid : BOOLEAN, torn : BOOLEAN]
Records == [logged : BOOLEAN, line : Nat, start : Int, depth : Nat]

\* o is a state of the file that differs from `before' in its bytes at most.
SameButBytes(o, before) ==
    /\ o.fp = before.fp /\ o.patchFd = before.patchFd
    /\ o.attempted = before.attempted
    /\ o.cursor = before.cursor /\ o.cursorValid = before.cursorValid
    /\ o.torn = before.torn

\* What a record's end marks, wherever its offsets lead.
LEMMA MarksType ==
    ASSUME NEW o \in Outs, NEW record \in Records
    PROVE  /\ DOMAIN mark_frame_end(o, record) \in SUBSET (Nat \ {0})
           /\ \A i \in DOMAIN mark_frame_end(o, record) : mark_frame_end(o, record)[i] \in Patches
           /\ \E bound \in Nat : \A i \in DOMAIN mark_frame_end(o, record) : i <= bound
<1> DEFINE marks == mark_frame_end(o, record)
           bytes == FieldBytes(record) \cup GlyphBytes(record)
<1>1. /\ DOMAIN marks = IF record.logged /\ CanPatch(o, record) THEN bytes ELSE {}
      /\ \A i \in DOMAIN marks : marks[i] \in Patches
  BY DEF mark_frame_end, As, Patches, Records
<1>2. CASE ~(record.logged /\ CanPatch(o, record))
  <2>1. DOMAIN marks = {}
    BY <1>1, <1>2
  <2> HIDE DEF marks
  <2> QED
    BY <1>1, <2>1 DEF marks
<1>3. CASE record.logged /\ CanPatch(o, record)
  <2>1. record.start \in Nat /\ record.depth \in Nat
    BY <1>3 DEF CanPatch, Records
  <2>2. StampWidth \in Nat /\ FieldWidth \in Nat /\ PrefixWidth \in Nat /\ SegmentWidth \in Nat
    BY Widths
  <2>3. record.depth >= 1 => GlyphOffset(record.depth) \in Nat
    <3> SUFFICES ASSUME record.depth >= 1 PROVE GlyphOffset(record.depth) \in Nat
      OBVIOUS
    <3>1. record.depth - 1 \in Nat
      BY <2>1
    <3>2. SegmentWidth * (record.depth - 1) \in Nat
      BY <2>2, <3>1
    <3> QED
      BY <2>2, <3>2 DEF GlyphOffset
  <2> DEFINE glyph == IF record.depth >= 1 THEN GlyphOffset(record.depth) ELSE 0
             most == record.start + StampWidth + FieldWidth + glyph + 1
  <2>4. glyph \in Nat
    BY <2>3
  <2>5. \A i \in FieldBytes(record) : i \in Nat \ {0} /\ i <= record.start + StampWidth + FieldWidth
    BY <2>1, <2>2 DEF FieldBytes
  <2>6. \A i \in GlyphBytes(record) : i = record.start + glyph + 1
    BY DEF GlyphBytes
  <2> HIDE DEF glyph
  <2>7. most \in Nat /\ \A i \in bytes : i \in Nat \ {0} /\ i <= most
    BY <2>1, <2>2, <2>4, <2>5, <2>6
  <2>8. DOMAIN marks = bytes
    BY <1>1, <1>3
  <2> HIDE DEF marks, bytes, most
  <2> QED
    BY <1>1, <2>7, <2>8 DEF marks
<1> QED
  BY <1>2, <1>3

\* The marks of all records popped, and what they leave in the file.
Marks(o, first) == [n \in first .. Len(records) |-> mark_frame_end(o, records[n])]
MarkedBytes(o, first) == UNION {DOMAIN Marks(o, first)[n] : n \in DOMAIN Marks(o, first)}
Marking(o, first, i) == {n \in DOMAIN Marks(o, first) : i \in DOMAIN Marks(o, first)[n]}
Marked(o, first) == [i \in MarkedBytes(o, first) |-> Marks(o, first)[Min(Marking(o, first, i))][i]]

LEMMA ReclaimIsMarked ==
    ASSUME NEW o, NEW first
    PROVE  reclaim_dead_records(o, first) =
             IF LogExceptions THEN [o EXCEPT !.file = PWrite(@, Marked(o, first))] ELSE o
BY DEF reclaim_dead_records, Marked, MarkedBytes, Marking, Marks

LEMMA MarkedProperty ==
    ASSUME records \in Seq(Records), NEW o \in Outs, NEW first \in 1..Len(records) + 1
    PROVE  /\ DOMAIN Marked(o, first) = MarkedBytes(o, first)
           /\ \A i \in MarkedBytes(o, first) : \E n \in first..Len(records) :
                /\ i \in DOMAIN mark_frame_end(o, records[n])
                /\ Marked(o, first)[i] = mark_frame_end(o, records[n])[i]
           /\ \A n \in first..Len(records) :
                DOMAIN mark_frame_end(o, records[n]) \subseteq MarkedBytes(o, first)
<1>1. Len(records) \in Nat /\ \A n \in 1..Len(records) : records[n] \in Records
  BY LenProperties, ElementOfSeq
<1>2. /\ DOMAIN Marks(o, first) = first..Len(records)
      /\ \A n \in first..Len(records) : Marks(o, first)[n] = mark_frame_end(o, records[n])
  BY DEF Marks
<1>3. ASSUME NEW i \in MarkedBytes(o, first)
      PROVE  \E n \in first..Len(records) :
               /\ i \in DOMAIN mark_frame_end(o, records[n])
               /\ Marked(o, first)[i] = mark_frame_end(o, records[n])[i]
  <2> DEFINE marking == Marking(o, first, i)
  <2>1. marking \in SUBSET Nat
    BY <1>1, <1>2 DEF Marking
  <2>2. marking # {}
    BY <1>3, <1>2 DEF Marking, MarkedBytes
  <2>3. Min(marking) \in marking
    BY <2>1, <2>2, MinProperty
  <2>4. Min(marking) \in first..Len(records) /\ i \in DOMAIN Marks(o, first)[Min(marking)]
    BY <1>2, <2>3 DEF Marking
  <2>5. Marked(o, first)[i] = Marks(o, first)[Min(marking)][i]
    BY DEF Marked
  <2> HIDE DEF marking
  <2> QED
    BY <1>2, <2>4, <2>5
<1>4. ASSUME NEW n \in first..Len(records)
      PROVE  DOMAIN mark_frame_end(o, records[n]) \subseteq MarkedBytes(o, first)
  BY <1>2 DEF MarkedBytes
<1>5. DOMAIN Marked(o, first) = MarkedBytes(o, first)
  BY DEF Marked
<1> QED
  BY <1>3, <1>4, <1>5
LEMMA ReclaimType ==
    ASSUME records \in Seq(Records), NEW o \in Outs, NEW first \in 1..Len(records) + 1
    PROVE  /\ reclaim_dead_records(o, first) \in Outs
           /\ SameButBytes(reclaim_dead_records(o, first), o)
<1>1. Len(records) \in Nat /\ \A n \in 1..Len(records) : records[n] \in Records
  BY LenProperties, ElementOfSeq
<1> DEFINE marks(n) == mark_frame_end(o, records[n])
           bounded == {k \in Nat : k <= Len(records) =>
                         \E bound \in Nat : \A n \in 1..k : \A i \in DOMAIN marks(n) : i <= bound}
<1>2. \A n \in 1..Len(records) :
        /\ DOMAIN marks(n) \in SUBSET (Nat \ {0})
        /\ \A i \in DOMAIN marks(n) : marks(n)[i] \in Patches
        /\ \E bound \in Nat : \A i \in DOMAIN marks(n) : i <= bound
  BY <1>1, MarksType
<1> HIDE DEF marks
<1>3. Len(records) \in bounded
  <2>1. 0 \in bounded
    OBVIOUS
  <2>2. ASSUME NEW k \in Nat, k \in bounded
        PROVE  k + 1 \in bounded
    <3>1. SUFFICES ASSUME k + 1 <= Len(records)
                   PROVE  \E bound \in Nat : \A n \in 1..k + 1 : \A i \in DOMAIN marks(n) : i <= bound
      OBVIOUS
    <3>2. PICK below \in Nat : \A n \in 1..k : \A i \in DOMAIN marks(n) : i <= below
      <4>1. k <= Len(records)
        BY <1>1, <3>1
      <4> QED
        BY <2>2, <4>1, Zenon
    <3>3. k + 1 \in 1..Len(records)
      BY <1>1, <3>1
    <3>4. PICK top \in Nat : \A i \in DOMAIN marks(k + 1) : i <= top
      BY <1>2, <3>3
    <3>5. \A n \in 1..k + 1 : n \in 1..k \/ n = k + 1
      OBVIOUS
    <3>6. \A n \in 1..k + 1 : \A i \in DOMAIN marks(n) : i \in Nat
      BY <1>1, <1>2, <3>1
    <3>7. ASSUME NEW n \in 1..k + 1, NEW i \in DOMAIN marks(n)
          PROVE  i <= below + top
      <4>1. i \in Nat
        BY <3>6
      <4>2. i <= below \/ i <= top
        BY <3>2, <3>4, <3>5
      <4> QED
        BY <4>1, <4>2
    <3>8. below + top \in Nat
      OBVIOUS
    <3> QED
      BY <3>7, <3>8
  <2> HIDE DEF bounded
  <2>3. Nat \subseteq bounded
    BY <2>1, <2>2, Induction
  <2> QED
    BY <1>1, <2>3
<1>4. PICK bound \in Nat : \A n \in 1..Len(records) : \A i \in DOMAIN marks(n) : i <= bound
  BY <1>1, <1>3
<1>5. /\ DOMAIN Marked(o, first) \in SUBSET (Nat \ {0})
      /\ \A i \in DOMAIN Marked(o, first) : i <= bound /\ Marked(o, first)[i] \in Patches
  <2>1. ASSUME NEW i \in DOMAIN Marked(o, first)
        PROVE  i \in Nat \ {0} /\ i <= bound /\ Marked(o, first)[i] \in Patches
    <3>1. i \in MarkedBytes(o, first)
      BY MarkedProperty
    <3>2. PICK n \in first..Len(records) :
            i \in DOMAIN marks(n) /\ Marked(o, first)[i] = marks(n)[i]
      BY <3>1, MarkedProperty DEF marks
    <3>3. n \in 1..Len(records)
      BY <1>1
    <3> QED
      BY <1>2, <1>4, <3>2, <3>3
  <2> QED
    BY <2>1
<1>6. o.file \in Seq(Byte)
  BY DEF Outs
<1>7. PWrite(o.file, Marked(o, first)) \in Seq(Byte)
  BY <1>5, <1>6, PWriteType
<1>8. reclaim_dead_records(o, first) =
        IF LogExceptions THEN [o EXCEPT !.file = PWrite(@, Marked(o, first))] ELSE o
  BY ReclaimIsMarked
<1> QED
  BY <1>7, <1>8 DEF Outs, SameButBytes

\* A single patch.
LEMMA PatchType ==
    ASSUME NEW o \in Outs, NEW record \in Records
    PROVE  /\ PatchField(o, record) \in Outs /\ SameButBytes(PatchField(o, record), o)
           /\ PatchGlyph(o, record) \in Outs /\ SameButBytes(PatchGlyph(o, record), o)
<1>1. o.file \in Seq(Byte)
  BY DEF Outs
<1>2. ASSUME NEW part \in {"field", "glyph"}, NEW bytes \in SUBSET (Nat \ {0}),
             NEW bound \in Nat, \A i \in bytes : i <= bound
      PROVE  /\ patch_line_bytes(o, record, part, bytes) \in Outs
             /\ SameButBytes(patch_line_bytes(o, record, part, bytes), o)
  <2> DEFINE patches == [i \in bytes |-> As(record, part)]
  <2>1. DOMAIN patches = bytes /\ \A i \in bytes : patches[i] \in Patches
    BY <1>2 DEF As, Patches, Records
  <2> HIDE DEF patches
  <2>2. PWrite(o.file, patches) \in Seq(Byte)
    BY <1>1, <1>2, <2>1, PWriteType
  <2>3. patch_line_bytes(o, record, part, bytes) =
          IF CanPatch(o, record) THEN [o EXCEPT !.file = PWrite(@, patches)] ELSE o
    BY DEF patch_line_bytes, patches
  <2> QED
    BY <2>2, <2>3 DEF Outs, SameButBytes
<1>3. CASE ~CanPatch(o, record)
  BY <1>3 DEF PatchField, PatchGlyph, patch_line_bytes, SameButBytes
<1>4. CASE CanPatch(o, record)
  <2>1. record.start \in Nat /\ record.depth \in Nat
    BY <1>4 DEF CanPatch, Records
  <2>2. StampWidth \in Nat /\ FieldWidth \in Nat /\ PrefixWidth \in Nat /\ SegmentWidth \in Nat
    BY Widths
  <2> DEFINE last == record.start + StampWidth + FieldWidth
  <2>3. /\ FieldBytes(record) \in SUBSET (Nat \ {0}) /\ last \in Nat
        /\ \A i \in FieldBytes(record) : i <= last
    BY <2>1, <2>2 DEF FieldBytes
  <2> DEFINE cell == record.start + GlyphOffset(record.depth) + 1
  <2>4. record.depth >= 1 => cell \in Nat \ {0}
    <3> SUFFICES ASSUME record.depth >= 1 PROVE cell \in Nat \ {0}
      OBVIOUS
    <3>1. record.depth - 1 \in Nat
      BY <2>1
    <3>2. SegmentWidth * (record.depth - 1) \in Nat
      BY <2>2, <3>1
    <3>3. GlyphOffset(record.depth) \in Nat
      BY <2>2, <3>2 DEF GlyphOffset
    <3> QED
      BY <2>1, <3>3
  <2>5. /\ PatchField(o, record) \in Outs /\ SameButBytes(PatchField(o, record), o)
    <3> HIDE DEF last
    <3> QED
      BY <1>2, <2>3 DEF PatchField
  <2>6. GlyphBytes(record) = IF record.depth >= 1 THEN {cell} ELSE {}
    BY DEF GlyphBytes
  <2> HIDE DEF cell
  <2>7. PICK bound \in Nat : \A i \in GlyphBytes(record) : i <= bound
    <3>1. CASE record.depth >= 1
      BY <2>4, <2>6, <3>1
    <3>2. CASE ~(record.depth >= 1)
      BY <2>6, <3>2
    <3> QED
      BY <3>1, <3>2
  <2>8. GlyphBytes(record) \in SUBSET (Nat \ {0})
    BY <2>4, <2>6
  <2>9. PatchGlyph(o, record) \in Outs /\ SameButBytes(PatchGlyph(o, record), o)
    BY <1>2, <2>7, <2>8 DEF PatchGlyph
  <2> QED
    BY <2>5, <2>9
<1> QED
  BY <1>3, <1>4
-------------------------------------------------------------------------------
(***************************************************************************)
(* Appending to the file, and opening it.                                  *)
(***************************************************************************)
\* f is `file' with cells of the line appended.
Prolongs(f, file, line) ==
    /\ f \in Seq(Byte)
    /\ Len(file) <= Len(f)
    /\ \A i \in 1..Len(file) : f[i] = file[i]
    /\ \A i \in Len(file) + 1..Len(f) : f[i].line = line /\ f[i].patch = Unpatched

LEMMA WrittenProperty ==
    ASSUME NEW file \in Seq(Byte), NEW cells \in Seq(Byte), NEW f \in Written(file, cells)
    PROVE  /\ f \in Seq(Byte)
           /\ Len(f) - Len(file) \in 0..Len(cells)
           /\ \A i \in 1..Len(file) : f[i] = file[i]
           /\ \A i \in Len(file) + 1..Len(f) : f[i] = cells[i - Len(file)]
           /\ f = file \o cells => Len(f) = Len(file) + Len(cells)
<1>1. /\ Len(file) \in Nat /\ Len(cells) \in Nat
      /\ \A i \in 1..Len(cells) : cells[i] \in Byte
  BY LenProperties, ElementOfSeq
<1>2. ASSUME NEW k \in 0..Len(cells), NEW part \in Seq(Byte), Len(part) = k,
             \A i \in 1..k : part[i] = cells[i], f = file \o part
      PROVE  /\ f \in Seq(Byte)
             /\ Len(f) = Len(file) + k
             /\ \A i \in 1..Len(file) : f[i] = file[i]
             /\ \A i \in Len(file) + 1..Len(f) : f[i] = cells[i - Len(file)]
  <2> DEFINE whole == file \o part
  <2>1. /\ whole \in Seq(Byte)
        /\ Len(whole) = Len(file) + Len(part)
        /\ \A i \in 1..Len(file) + Len(part) :
             whole[i] = IF i <= Len(file) THEN file[i] ELSE part[i - Len(file)]
    BY ConcatProperties
  <2>2. f = whole
    BY <1>2
  <2> HIDE DEF whole
  <2> QED
    BY <1>1, <1>2, <2>1, <2>2
<1>3. CASE f = file \o cells
  <2>1. Len(cells) \in 0..Len(cells)
    BY <1>1
  <2>2. /\ f \in Seq(Byte) /\ Len(f) = Len(file) + Len(cells)
        /\ \A i \in 1..Len(file) : f[i] = file[i]
        /\ \A i \in Len(file) + 1..Len(f) : f[i] = cells[i - Len(file)]
    BY <1>2, <1>3, <2>1
  <2> QED
    BY <1>1, <2>2
<1>4. CASE f # file \o cells
  <2>1. PICK k \in TornSizes : k < Len(cells) /\ f = file \o SubSeq(cells, 1, k)
    BY <1>4 DEF Written
  <2>2. k \in 0..Len(cells) /\ k \in Nat
    BY <1>1, <2>1, LayoutAssumption
  <2> DEFINE part == SubSeq(cells, 1, k)
  <2>3. \A i \in 1..k : cells[i] \in Byte
    BY <1>1, <2>2
  <2>4. /\ part \in Seq(Byte) /\ Len(part) = IF 1 <= k THEN k - 1 + 1 ELSE 0
        /\ \A i \in 1..k - 1 + 1 : part[i] = cells[1 + i - 1]
    BY <2>2, <2>3, SubSeqProperties
  <2> HIDE DEF part
  <2>5. Len(part) = k /\ \A i \in 1..k : part[i] = cells[i]
    BY <2>2, <2>4
  <2>6. f = file \o part
    BY <2>1 DEF part
  <2>7. /\ f \in Seq(Byte) /\ Len(f) = Len(file) + k
        /\ \A i \in 1..Len(file) : f[i] = file[i]
        /\ \A i \in Len(file) + 1..Len(f) : f[i] = cells[i - Len(file)]
    BY <1>2, <2>2, <2>4, <2>5, <2>6
  <2> QED
    BY <1>1, <1>4, <2>2, <2>7
<1> QED
  BY <1>3, <1>4

\* w is o with the cells of the line appended, or a part of them.
Appended(w, o, cells, line) ==
    /\ w \in Outs
    /\ Prolongs(w.file, o.file, line)
    /\ w.fp = o.fp /\ w.patchFd = o.patchFd /\ w.attempted = o.attempted
    /\ \/ /\ Len(w.file) = Len(o.file) + Len(cells)
          /\ \A i \in 1..Len(cells) : w.file[Len(o.file) + i] = cells[i]
          /\ w.cursor = o.cursor + Len(cells)
          /\ w.cursorValid = o.cursorValid
          /\ w.torn = o.torn
       \/ /\ ~w.cursorValid
          /\ w.torn

LEMMA AppendProperty ==
    ASSUME NEW o \in Outs, NEW line \in Nat, NEW cells \in Seq(Byte), NEW w \in AppendLine(o, cells),
           \A i \in 1..Len(cells) : cells[i].line = line /\ cells[i].patch = Unpatched
    PROVE  Appended(w, o, cells, line)
<1>1. PICK f \in Written(o.file, cells) :
        w = IF f = o.file \o cells
            THEN [o EXCEPT !.file = f, !.cursor = @ + Len(cells)]
            ELSE [o EXCEPT !.file = f, !.cursorValid = FALSE, !.torn = TRUE]
  BY DEF AppendLine
<1>2. o.file \in Seq(Byte) /\ Len(o.file) \in Nat /\ Len(cells) \in Nat
  BY LenProperties DEF Outs
<1>3. /\ f \in Seq(Byte)
      /\ Len(f) - Len(o.file) \in 0..Len(cells)
      /\ \A i \in 1..Len(o.file) : f[i] = o.file[i]
      /\ \A i \in Len(o.file) + 1..Len(f) : f[i] = cells[i - Len(o.file)]
      /\ f = o.file \o cells => Len(f) = Len(o.file) + Len(cells)
  BY <1>2, WrittenProperty
<1>4. Len(f) \in Nat
  BY <1>3, LenProperties
<1>5. w \in Outs /\ w.file = f /\ w.fp = o.fp /\ w.patchFd = o.patchFd /\ w.attempted = o.attempted
  <2>1. o.cursor + Len(cells) \in Nat
    BY <1>2 DEF Outs
  <2> QED
    BY <1>1, <1>3, <2>1 DEF Outs
<1>6. Len(o.file) <= Len(f) /\ \A i \in Len(o.file) + 1..Len(f) : i - Len(o.file) \in 1..Len(cells)
  BY <1>2, <1>3, <1>4
<1>7. Prolongs(w.file, o.file, line)
  BY <1>3, <1>5, <1>6 DEF Prolongs
<1>8. CASE f = o.file \o cells
  <2>1. Len(f) = Len(o.file) + Len(cells)
    BY <1>3, <1>8
  <2>2. ASSUME NEW i \in 1..Len(cells)
        PROVE  f[Len(o.file) + i] = cells[i]
    <3> DEFINE j == Len(o.file) + i
    <3>1. j \in Len(o.file) + 1..Len(f) /\ j - Len(o.file) = i
      BY <1>2, <2>1
    <3> HIDE DEF j
    <3>2. f[j] = cells[i]
      BY <1>3, <3>1
    <3> QED
      BY <3>2 DEF j
  <2>3. w.cursor = o.cursor + Len(cells) /\ w.cursorValid = o.cursorValid /\ w.torn = o.torn
    BY <1>1, <1>8 DEF Outs
  <2> QED
    BY <1>5, <1>7, <2>1, <2>2, <2>3 DEF Appended
<1>9. CASE f # o.file \o cells
  <2>1. ~w.cursorValid /\ w.torn
    BY <1>1, <1>9 DEF Outs
  <2> QED
    BY <1>5, <1>7, <2>1 DEF Appended
<1> QED
  BY <1>8, <1>9
\* What is known of the descriptors and the cursor, unless the header's
\* allocation failed when both descriptors were stored: a cursor that counts
\* as valid is that of a file that can be patched, and is its end.
FileInv(o) ==
    /\ ~o.attempted => ~o.fp /\ ~o.patchFd /\ o.cursorValid /\ ~o.torn
    /\ o.patchFd => o.fp
    /\ o.fp /\ o.cursorValid => o.patchFd /\ Seekable /\ o.cursor = Len(o.file)
    /\ o.fp /\ o.patchFd /\ Seekable /\ ~o.torn => o.cursorValid
    /\ o.torn => ~o.cursorValid

LEMMA SameFile ==
    ASSUME NEW file \in Seq(Byte)
    PROVE  Prolongs(file, file, NoLine)
<1>1. Len(file) \in Nat
  BY LenProperties
<1> QED
  BY <1>1 DEF Prolongs

\* The states open_this_thread_file goes through.
Tried(o) == [o EXCEPT !.attempted = TRUE]
WithDescriptors(o, p) == [Tried(o) EXCEPT !.fp = TRUE, !.patchFd = p]
WithHeader(d, f) == SeededCursor([d EXCEPT !.file = f])

LEMMA OpenCases ==
    ASSUME NEW o, ~o.attempted, NEW g \in get_thread_fp(o)
    PROVE  \/ g.o = Tried(o)
           \/ \E p \in BOOLEAN : MayRunOut /\ g.o = WithDescriptors(o, p)
           \/ \E p \in BOOLEAN, f \in Written(o.file, Filler(HeaderSize, "header")) :
                g.o = WithHeader(WithDescriptors(o, p), f)
<1> DEFINE descriptors == {WithDescriptors(o, p) : p \in IF MayFail THEN BOOLEAN ELSE {TRUE}}
           opened == {WithHeader(d, f) : d \in descriptors, f \in Written(o.file, Filler(HeaderSize, "header"))}
<1>1. g \in open_this_thread_file(o)
  BY DEF get_thread_fp
<1>2. open_this_thread_file(o) =
        {[o |-> x, threw |-> FALSE] : x \in opened \cup (IF MayFail THEN {Tried(o)} ELSE {})}
        \cup (IF MayRunOut
              THEN {[o |-> x, threw |-> TRUE] : x \in descriptors \cup {Tried(o)}}
              ELSE {})
  BY DEF open_this_thread_file, Tried, WithDescriptors, WithHeader
<1>3. \A d \in descriptors : \E p \in BOOLEAN : d = WithDescriptors(o, p)
  OBVIOUS
<1>4. \A x \in opened : \E d \in descriptors, f \in Written(o.file, Filler(HeaderSize, "header")) :
        x = WithHeader(d, f)
  <2> DEFINE texts == Written(o.file, Filler(HeaderSize, "header"))
  <2>1. opened = {WithHeader(d, f) : d \in descriptors, f \in texts}
    OBVIOUS
  <2> HIDE DEF texts, descriptors, opened
  <2>2. \A x \in opened : \E d \in descriptors, f \in texts : x = WithHeader(d, f)
    BY <2>1
  <2> QED
    BY <2>2 DEF texts
<1> HIDE DEF opened, descriptors
<1>5. \/ g.o \in opened \/ g.o = Tried(o) \/ (MayRunOut /\ g.o \in descriptors)
  BY <1>1, <1>2
<1> QED
  BY <1>3, <1>4, <1>5

LEMMA DescriptorsType ==
    ASSUME NEW o \in Outs, NEW p \in BOOLEAN
    PROVE  /\ Tried(o) \in Outs /\ Tried(o).file = o.file /\ Tried(o).attempted
           /\ Tried(o).fp = o.fp /\ Tried(o).patchFd = o.patchFd /\ Tried(o).torn = o.torn
           /\ Tried(o).cursorValid = o.cursorValid
           /\ WithDescriptors(o, p) \in Outs /\ WithDescriptors(o, p).file = o.file
           /\ WithDescriptors(o, p).attempted /\ WithDescriptors(o, p).fp
           /\ WithDescriptors(o, p).torn = o.torn
           /\ WithDescriptors(o, p).cursorValid = o.cursorValid
<1>1. /\ Tried(o) \in Outs /\ Tried(o).file = o.file /\ Tried(o).attempted
      /\ Tried(o).fp = o.fp /\ Tried(o).patchFd = o.patchFd /\ Tried(o).torn = o.torn
      /\ Tried(o).cursorValid = o.cursorValid
  BY DEF Outs, Tried
<1> HIDE DEF Tried
<1> QED
  BY <1>1 DEF Outs, WithDescriptors

LEMMA HeaderProperty ==
    ASSUME NEW d \in Outs, d.fp, d.attempted,
           NEW f \in Written(d.file, Filler(HeaderSize, "header"))
    PROVE  LET x == WithHeader(d, f)
           IN  /\ x \in Outs /\ x.attempted /\ x.fp /\ Prolongs(x.file, d.file, NoLine)
               /\ x.torn = d.torn
               /\ d.cursorValid => (x.cursorValid <=> x.patchFd /\ Seekable)
               /\ x.patchFd /\ Seekable => x.cursor = Len(x.file)
<1> DEFINE header == Filler(HeaderSize, "header")
           w == [d EXCEPT !.file = f]
           x == WithHeader(d, f)
<1>1. d.file \in Seq(Byte) /\ Len(d.file) \in Nat
  BY LenProperties DEF Outs
<1>2. header \in Seq(Byte) /\ Len(header) = HeaderSize
      /\ \A i \in 1..Len(header) : header[i].line = NoLine /\ header[i].patch = Unpatched
  <2>1. HeaderSize \in Nat /\ "header" \in Parts
    BY Widths DEF Parts
  <2>2. \A i \in 1..HeaderSize : header[i] = [line |-> NoLine, part |-> "header", patch |-> Unpatched]
    BY <2>1, FillerCells
  <2>3. header \in Seq(Byte) /\ Len(header) = HeaderSize
    BY <2>1, FillerType
  <2> HIDE DEF header
  <2> QED
    BY <2>2, <2>3
<1>3. f \in Written(d.file, header)
  OBVIOUS
<1> HIDE DEF header
<1>4. /\ f \in Seq(Byte)
      /\ Len(f) - Len(d.file) \in 0..Len(header)
      /\ \A i \in 1..Len(d.file) : f[i] = d.file[i]
      /\ \A i \in Len(d.file) + 1..Len(f) : f[i] = header[i - Len(d.file)]
  BY <1>1, <1>2, <1>3, WrittenProperty
<1>5. Len(f) \in Nat /\ Len(header) \in Nat
  BY <1>2, <1>4, LenProperties
<1>6. Len(d.file) <= Len(f) /\ \A i \in Len(d.file) + 1..Len(f) : i - Len(d.file) \in 1..Len(header)
  BY <1>1, <1>4, <1>5
<1>7. Prolongs(f, d.file, NoLine)
  BY <1>2, <1>4, <1>6 DEF Prolongs
<1>8. /\ w \in Outs /\ w.file = f /\ w.attempted /\ w.fp /\ w.torn = d.torn
      /\ w.cursorValid = d.cursorValid
  BY <1>4 DEF Outs
<1>9. x = SeededCursor(w)
  BY DEF WithHeader
<1> HIDE DEF w, x
<1>10. Len(w.file) \in Nat /\ Len(w.file) = Len(f)
  BY <1>5, <1>8
<1>11. CASE w.patchFd /\ Seekable
  <2>1. x = [w EXCEPT !.cursor = Len(w.file)]
    BY <1>9, <1>11 DEF SeededCursor
  <2>2. /\ x \in Outs /\ x.attempted /\ x.fp /\ x.file = f
        /\ x.torn = d.torn /\ x.patchFd /\ x.cursor = Len(f) /\ x.cursorValid = d.cursorValid
    BY <1>8, <1>10, <1>11, <2>1 DEF Outs
  <2> QED
    BY <1>7, <1>11, <2>2 DEF x
<1>12. CASE ~(w.patchFd /\ Seekable)
  <2>1. x = [w EXCEPT !.cursorValid = FALSE]
    BY <1>9, <1>12 DEF SeededCursor
  <2>2. /\ x \in Outs /\ x.attempted /\ x.fp /\ x.file = f
        /\ x.torn = d.torn /\ ~(x.patchFd /\ Seekable) /\ ~x.cursorValid
    BY <1>8, <1>10, <1>12, <2>1 DEF Outs
  <2> QED
    BY <1>7, <2>2 DEF x
<1> QED
  BY <1>11, <1>12

LEMMA OpenProperty ==
    ASSUME NEW o \in Outs, NEW g \in get_thread_fp(o)
    PROVE  /\ g.o \in Outs
           /\ Prolongs(g.o.file, o.file, NoLine)
           /\ o.attempted => g.o = o
           /\ g.o.attempted
           /\ FileInv(o) /\ ~MayRunOut => FileInv(g.o)
<1>1. o.file \in Seq(Byte) /\ Len(o.file) \in Nat
  BY LenProperties DEF Outs
<1>2. CASE o.attempted
  <2>1. g.o = o
    BY <1>2 DEF get_thread_fp
  <2> QED
    BY <1>1, <1>2, <2>1, SameFile
<1>3. CASE ~o.attempted
  <2>1. CASE g.o = Tried(o)
    <3>1. FileInv(o) => FileInv(g.o)
      BY <1>3, <2>1, DescriptorsType DEF FileInv
    <3> QED
      BY <1>1, <1>3, <2>1, <3>1, SameFile, DescriptorsType
  <2>2. CASE \E p \in BOOLEAN : MayRunOut /\ g.o = WithDescriptors(o, p)
    BY <1>1, <1>3, <2>2, SameFile, DescriptorsType
  <2>3. CASE \E p \in BOOLEAN, f \in Written(o.file, Filler(HeaderSize, "header")) :
               g.o = WithHeader(WithDescriptors(o, p), f)
    <3>1. PICK p \in BOOLEAN, f \in Written(o.file, Filler(HeaderSize, "header")) :
                 g.o = WithHeader(WithDescriptors(o, p), f)
      BY <2>3
    <3> DEFINE d == WithDescriptors(o, p)
               x == WithHeader(d, f)
    <3>2. d \in Outs /\ d.file = o.file /\ d.attempted /\ d.fp /\ d.torn = o.torn /\ d.cursorValid = o.cursorValid
      BY DescriptorsType
    <3> HIDE DEF d
    <3>3. f \in Written(d.file, Filler(HeaderSize, "header"))
      BY <3>2
    <3>4. /\ x \in Outs /\ x.attempted /\ x.fp /\ Prolongs(x.file, d.file, NoLine)
          /\ x.torn = d.torn
          /\ d.cursorValid => (x.cursorValid <=> x.patchFd /\ Seekable)
          /\ x.patchFd /\ Seekable => x.cursor = Len(x.file)
      BY <3>2, <3>3, HeaderProperty
    <3>5. g.o = x
      BY <3>1 DEF d
    <3> HIDE DEF x
    <3>6. FileInv(o) => FileInv(g.o)
      BY <1>3, <3>2, <3>4, <3>5 DEF FileInv
    <3> QED
      BY <1>3, <3>2, <3>4, <3>5, <3>6
  <2> QED
    BY <1>3, <2>1, <2>2, <2>3, OpenCases
<1> QED
  BY <1>2, <1>3
-------------------------------------------------------------------------------
(***************************************************************************)
(* The depth is that of the logged records.                                *)
(***************************************************************************)
LoggedBelow(k) == {i \in 1..k : records[i].logged}

DepthInv == depth = Cardinality({i \in 1..Len(records) : records[i].logged}) - 1

LEMMA DepthBelowProperty ==
    ASSUME records \in Seq(Records), DepthInv, NEW first \in 1..Len(records) + 1
    PROVE  /\ Cardinality(LoggedBelow(first - 1)) \in 0..first - 1
           /\ DepthBelow(first) = Cardinality(LoggedBelow(first - 1)) - 1
<1> DEFINE all == {i \in 1..Len(records) : records[i].logged}
           above == {i \in first..Len(records) : records[i].logged}
           below == LoggedBelow(first - 1)
<1>1. Len(records) \in Nat
  BY LenProperties
<1>2. first \in Nat /\ first - 1 \in Nat
  BY <1>1
<1>3. IsFiniteSet(1..Len(records)) /\ IsFiniteSet(1..first - 1) /\ Cardinality(1..first - 1) = first - 1
  <2> DEFINE k == first - 1
  <2>1. k \in Nat /\ 1 \in Int /\ k \in Int /\ Len(records) \in Int
    BY <1>1, <1>2
  <2> HIDE DEF k
  <2>2. IsFiniteSet(1..Len(records)) /\ IsFiniteSet(1..k)
    BY <2>1, FS_Interval
  <2>3. Cardinality(1..k) = IF 1 > k THEN 0 ELSE k - 1 + 1
    BY <2>1, FS_Interval
  <2>4. Cardinality(1..k) = k
    BY <2>1, <2>3
  <2> QED
    BY <2>2, <2>4 DEF k
<1>4. all \in SUBSET (1..Len(records)) /\ above \in SUBSET all /\ below \in SUBSET (1..first - 1)
  BY <1>1, <1>2 DEF LoggedBelow
<1>5. below = all \ above /\ all \cap above = above
  BY <1>1, <1>2 DEF LoggedBelow
<1> HIDE DEF all, above, below
<1>6. IsFiniteSet(all)
  BY <1>3, <1>4, FS_Subset
<1>7. IsFiniteSet(above) /\ IsFiniteSet(below) /\ Cardinality(below) <= first - 1
  <2>1. IsFiniteSet(above)
    BY <1>4, <1>6, FS_Subset
  <2> DEFINE positions == 1..first - 1
  <2>2. below \in SUBSET positions /\ IsFiniteSet(positions) /\ Cardinality(positions) = first - 1
    BY <1>3, <1>4
  <2> HIDE DEF positions
  <2>3. IsFiniteSet(below) /\ Cardinality(below) <= Cardinality(positions)
    BY <2>2, FS_Subset
  <2> QED
    BY <2>1, <2>2, <2>3
<1>8. Cardinality(all) \in Nat /\ Cardinality(above) \in Nat /\ Cardinality(below) \in Nat
  BY <1>6, <1>7, FS_CardinalityType
<1>9. Cardinality(below) = Cardinality(all) - Cardinality(above)
  <2>1. Cardinality(all \ above) = Cardinality(all) - Cardinality(all \cap above)
    BY <1>6, FS_Difference
  <2> QED
    BY <1>5, <2>1
<1>10. DepthBelow(first) = Cardinality(all) - 1 - Cardinality(above)
  BY DEF DepthBelow, DepthInv, all, above
<1> QED
  BY <1>2, <1>7, <1>8, <1>9, <1>10 DEF below
\* The records kept, and those after a push.
LEMMA KeptRecords ==
    ASSUME records \in Seq(Records), NEW first \in 1..Len(records) + 1
    PROVE  /\ Truncated(first) \in Seq(Records)
           /\ Len(Truncated(first)) = first - 1
           /\ first - 1 \in 0..Len(records)
           /\ \A i \in 1..first - 1 : Truncated(first)[i] = records[i] /\ i \in 1..Len(records)
<1> DEFINE k == first - 1
<1>1. Len(records) \in Nat /\ \A i \in 1..Len(records) : records[i] \in Records
  BY LenProperties, ElementOfSeq
<1>2. k \in 0..Len(records) /\ k \in Int /\ 1 \in Int
  BY <1>1
<1> HIDE DEF k
<1>3. \A i \in 1..k : records[i] \in Records /\ i \in 1..Len(records)
  BY <1>1, <1>2
<1>4. /\ SubSeq(records, 1, k) \in Seq(Records)
      /\ Len(SubSeq(records, 1, k)) = IF 1 <= k THEN k - 1 + 1 ELSE 0
      /\ \A i \in 1 .. k - 1 + 1 : SubSeq(records, 1, k)[i] = records[1 + i - 1]
  BY <1>2, <1>3, SubSeqProperties
<1>5. Len(SubSeq(records, 1, k)) = k /\ \A i \in 1..k : SubSeq(records, 1, k)[i] = records[i]
  BY <1>2, <1>4
<1>6. Truncated(first) = SubSeq(records, 1, k)
  BY DEF Truncated, k
<1> QED
  BY <1>2, <1>3, <1>4, <1>5, <1>6 DEF k

LEMMA PushedRecords ==
    ASSUME records \in Seq(Records), NEW first \in 1..Len(records) + 1, NEW e \in Records
    PROVE  /\ Append(Truncated(first), e) \in Seq(Records)
           /\ Len(Append(Truncated(first), e)) = first
           /\ \A i \in 1..first - 1 : Append(Truncated(first), e)[i] = records[i]
           /\ Append(Truncated(first), e)[first] = e
<1> DEFINE kept == Truncated(first)
<1>1. first \in Int
  BY LenProperties
<1>2. kept \in Seq(Records) /\ Len(kept) = first - 1 /\ \A i \in 1..first - 1 : kept[i] = records[i]
  BY KeptRecords
<1> HIDE DEF kept
<1>3. /\ Append(kept, e) \in Seq(Records)
      /\ Len(Append(kept, e)) = Len(kept) + 1
      /\ \A i \in 1..Len(kept) : Append(kept, e)[i] = kept[i]
      /\ Append(kept, e)[Len(kept) + 1] = e
  BY <1>2, AppendProperties
<1>4. Len(kept) + 1 = first
  BY <1>1, <1>2
<1> QED
  BY <1>2, <1>3, <1>4 DEF kept

LEMMA DepthAfterPop ==
    ASSUME records \in Seq(Records), DepthInv, NEW first \in 1..Len(records) + 1,
           records' = Truncated(first), depth' = DepthBelow(first)
    PROVE  DepthInv'
<1>1. Len(records') = first - 1 /\ \A i \in 1..first - 1 : records'[i] = records[i]
  BY KeptRecords
<1>2. {i \in 1..Len(records') : records'[i].logged} = LoggedBelow(first - 1)
  BY <1>1 DEF LoggedBelow
<1> QED
  BY <1>2, DepthBelowProperty DEF DepthInv

LEMMA DepthAfterPush ==
    ASSUME records \in Seq(Records), DepthInv, NEW first \in 1..Len(records) + 1, NEW e \in Records,
           records' = Append(Truncated(first), e),
           depth' = DepthBelow(first) + (IF e.logged THEN 1 ELSE 0)
    PROVE  DepthInv'
<1> DEFINE below == LoggedBelow(first - 1)
<1>1. first \in Nat /\ first >= 1
  BY LenProperties
<1>2. /\ Len(records') = first /\ records'[first] = e
      /\ \A i \in 1..first - 1 : records'[i] = records[i]
  BY PushedRecords
<1>3. {i \in 1..Len(records') : records'[i].logged} = IF e.logged THEN below \cup {first} ELSE below
  BY <1>1, <1>2 DEF LoggedBelow
<1>4. first \notin below /\ below \in SUBSET (1..first - 1)
  BY <1>1 DEF LoggedBelow
<1>5. Cardinality(below) \in Nat /\ DepthBelow(first) = Cardinality(below) - 1
  BY <1>1, DepthBelowProperty
<1> HIDE DEF below
<1>6. IsFiniteSet(below)
  <2> DEFINE k == first - 1
  <2>1. k \in Int /\ 1 \in Int
    BY <1>1
  <2> HIDE DEF k
  <2>2. IsFiniteSet(1..k)
    BY <2>1, FS_Interval
  <2> QED
    BY <1>4, <2>2, FS_Subset DEF k
<1>7. Cardinality(below \cup {first}) = Cardinality(below) + 1
  BY <1>4, <1>6, FS_AddElement
<1> DEFINE logged == {i \in 1..Len(records') : records'[i].logged}
<1>8. DepthInv' <=> depth' = Cardinality(logged) - 1
  BY DEF DepthInv
<1>9. logged = IF e.logged THEN below \cup {first} ELSE below
  BY <1>3
<1> HIDE DEF logged
<1>10. Cardinality(logged) = Cardinality(below) + (IF e.logged THEN 1 ELSE 0)
  BY <1>5, <1>7, <1>9
<1> QED
  BY <1>5, <1>8, <1>10
-------------------------------------------------------------------------------
TypeInv ==
    /\ TypeOK
    /\ DepthInv
    /\ Len(records) <= MaxRecords

LEMMA InitTypes == Init => TypeInv
<1> SUFFICES ASSUME Init PROVE TypeInv
  OBVIOUS
<1>1. <<>> \in Seq(Byte) /\ <<>> \in Seq(Records) /\ Len(records) = 0
  BY EmptySeq DEF Init
<1>2. MaxRecords \in Nat /\ MaxLines \in Nat /\ MaxRuns \in Nat \ {0}
  BY LayoutAssumption
<1>3. {i \in 1..Len(records) : records[i].logged} = {}
  BY <1>1
<1>4. DepthInv
  BY <1>3, FS_EmptySet DEF Init, DepthInv
<1>5. TypeOK
  BY <1>1, <1>2 DEF Init, TypeOK, Fresh, Records
<1> QED
  BY <1>1, <1>2, <1>4, <1>5 DEF TypeInv
LEMMA Typed ==
    ASSUME TypeInv
    PROVE  /\ out \in Outs /\ records \in Seq(Records) /\ Len(records) \in Nat
           /\ DOMAIN records = 1..Len(records)
           /\ \A i \in 1..Len(records) : records[i] \in Records
           /\ lines \in Nat /\ lines <= MaxLines /\ MaxLines \in Nat /\ MaxRecords \in Nat
           /\ DepthInv
<1>1. out \in Outs /\ records \in Seq(Records)
  BY DEF TypeInv, TypeOK, Outs, Records
<1>2. /\ Len(records) \in Nat /\ DOMAIN records = 1..Len(records)
      /\ \A i \in 1..Len(records) : records[i] \in Records
  BY <1>1, LenProperties, ElementOfSeq
<1> QED
  BY <1>1, <1>2, LayoutAssumption DEF TypeInv, TypeOK

LEMMA UnloggedType == Unlogged \in Records /\ ~Unlogged.logged /\ Unlogged.start = -1 /\ Unlogged.line = NoLine
BY DEF Unlogged, Records, NoLine

\* The depth at which a hook writes.
LEMMA LineDepth ==
    ASSUME TypeInv, NEW first \in 1..Len(records) + 1
    PROVE  /\ first \in Nat
           /\ DepthBelow(first) + 1 \in 0..first - 1
           /\ DepthBelow(first) \in Int
<1>1. first \in Nat
  BY Typed
<1>2. Cardinality(LoggedBelow(first - 1)) \in 0..first - 1
      /\ DepthBelow(first) = Cardinality(LoggedBelow(first - 1)) - 1
  BY Typed, DepthBelowProperty
<1> QED
  BY <1>1, <1>2

\* What is left of the lines' types in any step.
LEMMA TypesKept ==
    ASSUME TypeInv, out' \in Outs, records' \in Seq(Records), Len(records') <= MaxRecords,
           DepthInv', depth' \in Int, lines' \in 0..MaxLines, trusted' \subseteq 1..MaxLines,
           runs' \in 1..MaxRuns
    PROVE  TypeInv'
BY DEF TypeInv, TypeOK, Outs, Records

LEMMA EnterTypes ==
    ASSUME TypeInv, NEW first \in 1..Len(records) + 1, NEW t \in TextSizes,
           NEW filtered \in BOOLEAN, Enter(first, filtered, t)
    PROVE  TypeInv'
<1> DEFINE d == DepthBelow(first) + 1
           cells == format_into(lines + 1, d, t)
<1>1. /\ out \in Outs /\ records \in Seq(Records) /\ Len(records) \in Nat
      /\ lines \in Nat /\ lines <= MaxLines /\ MaxLines \in Nat /\ MaxRecords \in Nat /\ DepthInv
  BY Typed
<1>2. first \in Nat /\ d \in Nat /\ d - 1 \in Int /\ d - 1 = DepthBelow(first)
  BY LineDepth
<1>3. /\ first <= MaxRecords /\ runs' = runs
      /\ \E g \in get_thread_fp(reclaim_dead_records(out, first)) :
           \/ /\ out' = g.o
              /\ records' = Append(Truncated(first), Unlogged)
              /\ depth' = d - 1
              /\ UNCHANGED <<lines, trusted>>
           \/ /\ lines < MaxLines
              /\ out' \in AppendLine(g.o, cells)
              /\ records' = Append(Truncated(first), LineRecord(g.o, out', d))
              /\ depth' = d
              /\ lines' = lines + 1
              /\ trusted' = IF Patchable(out') THEN trusted \cup {lines + 1} ELSE trusted
  BY DEF Enter
<1> HIDE DEF d, cells
<1>4. PICK g \in get_thread_fp(reclaim_dead_records(out, first)) :
           \/ /\ out' = g.o
              /\ records' = Append(Truncated(first), Unlogged)
              /\ depth' = d - 1
              /\ UNCHANGED <<lines, trusted>>
           \/ /\ lines < MaxLines
              /\ out' \in AppendLine(g.o, cells)
              /\ records' = Append(Truncated(first), LineRecord(g.o, out', d))
              /\ depth' = d
              /\ lines' = lines + 1
              /\ trusted' = IF Patchable(out') THEN trusted \cup {lines + 1} ELSE trusted
  BY <1>3
<1>5. g.o \in Outs
  BY <1>1, ReclaimType, OpenProperty
<1>6. lines \in 0..MaxLines /\ trusted \subseteq 1..MaxLines /\ runs' \in 1..MaxRuns
  BY <1>3 DEF TypeInv, TypeOK
<1>7. CASE /\ out' = g.o
           /\ records' = Append(Truncated(first), Unlogged)
           /\ depth' = d - 1
           /\ UNCHANGED <<lines, trusted>>
  <2>1. records' \in Seq(Records) /\ Len(records') = first
    BY <1>1, <1>7, PushedRecords, UnloggedType
  <2>2. DepthInv'
    <3>1. depth' = DepthBelow(first) + (IF Unlogged.logged THEN 1 ELSE 0)
      BY <1>2, <1>7, UnloggedType
    <3> QED
      BY <1>1, <1>7, <3>1, DepthAfterPush, UnloggedType
  <2> QED
    BY <1>2, <1>3, <1>5, <1>6, <1>7, <2>1, <2>2, TypesKept
<1>8. CASE /\ lines < MaxLines
           /\ out' \in AppendLine(g.o, cells)
           /\ records' = Append(Truncated(first), LineRecord(g.o, out', d))
           /\ depth' = d
           /\ lines' = lines + 1
           /\ trusted' = IF Patchable(out') THEN trusted \cup {lines + 1} ELSE trusted
  <2>1. t \in Nat
    BY LayoutAssumption
  <2>2. lines + 1 \in Nat /\ lines + 1 \in 1..MaxLines /\ lines + 1 \in 0..MaxLines
    BY <1>1, <1>8
  <2>3. /\ cells \in Seq(Byte) /\ Len(cells) = LineSize(d, t)
        /\ \A i \in 1..LineSize(d, t) : cells[i] = [line |-> lines + 1, part |-> PartAt(i - 1, d), patch |-> Unpatched]
    BY <1>2, <2>1, <2>2, CallLine DEF cells
  <2>4. \A i \in 1..Len(cells) : cells[i].line = lines + 1 /\ cells[i].patch = Unpatched
    BY <2>3
  <2>5. out' \in Outs
    <3>1. out' \in AppendLine(g.o, cells) /\ cells \in Seq(Byte) /\ lines + 1 \in Nat
      BY <1>8, <2>2, <2>3
    <3> HIDE DEF cells
    <3> QED
      BY <1>5, <2>4, <3>1, AppendProperty DEF Appended
  <2> DEFINE e == LineRecord(g.o, out', d)
  <2>6. e \in Records /\ e.logged
    <3>1. g.o.cursor \in Nat
      BY <1>5 DEF Outs
    <3> QED
      BY <1>2, <2>2, <3>1 DEF LineRecord, Records
  <2> HIDE DEF e
  <2>7. records' = Append(Truncated(first), e)
    BY <1>8 DEF e
  <2>8. records' \in Seq(Records) /\ Len(records') = first
    BY <1>1, <2>6, <2>7, PushedRecords
  <2>9. DepthInv'
    <3>1. depth' = DepthBelow(first) + (IF e.logged THEN 1 ELSE 0)
      BY <1>8, <2>6 DEF d
    <3> QED
      BY <1>1, <2>6, <2>7, <3>1, DepthAfterPush
  <2>10. trusted' \subseteq 1..MaxLines
    BY <1>6, <1>8, <2>2
  <2>11. lines' \in 0..MaxLines /\ depth' \in Int
    BY <1>2, <1>8, <2>2
  <2> QED
    BY <1>3, <1>6, <2>5, <2>8, <2>9, <2>10, <2>11, TypesKept
<1> QED
  BY <1>4, <1>7, <1>8
LEMMA EventTypes ==
    ASSUME TypeInv, NEW first \in 1..Len(records) + 1, NEW t \in TextSizes, Event(first, t)
    PROVE  TypeInv'
<1> DEFINE d == DepthBelow(first) + 1
           cells == format_event_into(lines + 1, d, t)
<1>1. /\ out \in Outs /\ records \in Seq(Records) /\ Len(records) \in Nat
      /\ lines \in Nat /\ lines <= MaxLines /\ MaxLines \in Nat /\ MaxRecords \in Nat /\ DepthInv
  BY Typed
<1>2. first \in Nat /\ d \in Nat /\ DepthBelow(first) \in Int
  BY LineDepth
<1>3. /\ runs' = runs /\ trusted' = trusted
      /\ records' = Truncated(first)
      /\ depth' = DepthBelow(first)
      /\ \E g \in get_thread_fp(reclaim_dead_records(out, first)) :
           \/ out' = g.o /\ lines' = lines
           \/ lines < MaxLines /\ out' \in AppendLine(g.o, cells) /\ lines' = lines + 1
  BY DEF Event
<1> HIDE DEF d, cells
<1>4. PICK g \in get_thread_fp(reclaim_dead_records(out, first)) :
           \/ out' = g.o /\ lines' = lines
           \/ lines < MaxLines /\ out' \in AppendLine(g.o, cells) /\ lines' = lines + 1
  BY <1>3
<1>5. g.o \in Outs
  BY <1>1, ReclaimType, OpenProperty
<1>6. lines \in 0..MaxLines /\ trusted' \subseteq 1..MaxLines /\ runs' \in 1..MaxRuns
  BY <1>3 DEF TypeInv, TypeOK
<1>7. records' \in Seq(Records) /\ Len(records') = first - 1 /\ first - 1 \in 0..Len(records)
  BY <1>1, <1>3, KeptRecords
<1>8. DepthInv' /\ Len(records') <= MaxRecords
  <2>1. DepthInv'
    BY <1>1, <1>3, DepthAfterPop
  <2>2. Len(records) <= MaxRecords
    BY DEF TypeInv
  <2> QED
    BY <1>1, <1>7, <2>1, <2>2
<1>9. out' \in Outs /\ lines' \in 0..MaxLines
  <2>1. CASE out' = g.o /\ lines' = lines
    BY <1>5, <1>6, <2>1
  <2>2. CASE lines < MaxLines /\ out' \in AppendLine(g.o, cells) /\ lines' = lines + 1
    <3>1. t \in Nat /\ lines + 1 \in Nat /\ lines' \in 0..MaxLines
      BY <1>1, <2>2, LayoutAssumption
    <3>2. /\ cells \in Seq(Byte)
          /\ \A i \in 1..Len(cells) : cells[i] = [line |-> lines + 1, part |-> "event", patch |-> Unpatched]
      BY <1>2, <3>1, EventLine DEF cells
    <3>3. \A i \in 1..Len(cells) : cells[i].line = lines + 1 /\ cells[i].patch = Unpatched
      BY <3>2
    <3>4. out' \in AppendLine(g.o, cells) /\ cells \in Seq(Byte) /\ lines + 1 \in Nat
      BY <2>2, <3>1, <3>2
    <3>5. out' \in Outs
      BY <1>5, <3>3, <3>4, AppendProperty DEF Appended
    <3> QED
      BY <3>1, <3>5
  <2> QED
    BY <1>4, <2>1, <2>2
<1> QED
  BY <1>2, <1>3, <1>6, <1>7, <1>8, <1>9, TypesKept

\* The states an exit takes the file through.
Above(index) == reclaim_dead_records(out, index + 1)
Timed(index) == PatchField(Above(index), records[index])

LEMMA ExitTypes ==
    ASSUME TypeInv, NEW index \in DOMAIN records, NEW e \in BOOLEAN, Exit(index, e)
    PROVE  /\ TypeInv'
           /\ Above(index) \in Outs /\ SameButBytes(Above(index), out)
           /\ Timed(index) \in Outs /\ SameButBytes(Timed(index), out)
           /\ SameButBytes(out', out)
<1>1. /\ out \in Outs /\ records \in Seq(Records) /\ Len(records) \in Nat /\ DepthInv
      /\ index \in 1..Len(records) /\ records[index] \in Records
  BY Typed
<1>2. index \in 1..Len(records) + 1 /\ index + 1 \in 1..Len(records) + 1
  BY <1>1
<1>3. Above(index) \in Outs /\ SameButBytes(Above(index), out)
  BY <1>1, <1>2, ReclaimType DEF Above
<1>4. Timed(index) \in Outs /\ SameButBytes(Timed(index), out)
  <2>1. Timed(index) \in Outs /\ SameButBytes(Timed(index), Above(index))
    BY <1>1, <1>3, PatchType DEF Timed
  <2> QED
    BY <1>3, <2>1 DEF SameButBytes
<1>5. /\ out' = IF ~records[index].logged THEN Above(index)
                ELSE IF LogExceptions /\ e THEN PatchGlyph(Timed(index), records[index])
                ELSE Timed(index)
      /\ records' = Truncated(index)
      /\ depth' = DepthBelow(index)
      /\ UNCHANGED <<lines, trusted, runs>>
  BY DEF Exit, Above, Timed
<1>6. out' \in Outs /\ SameButBytes(out', out)
  <2>1. /\ PatchGlyph(Timed(index), records[index]) \in Outs
        /\ SameButBytes(PatchGlyph(Timed(index), records[index]), Timed(index))
    BY <1>1, <1>4, PatchType
  <2> QED
    BY <1>3, <1>4, <1>5, <2>1 DEF SameButBytes
<1>7. records' \in Seq(Records) /\ Len(records') = index - 1 /\ index - 1 \in 0..Len(records)
  BY <1>1, <1>2, <1>5, KeptRecords
<1>8. DepthInv' /\ Len(records') <= MaxRecords
  <2>1. DepthInv'
    BY <1>1, <1>2, <1>5, DepthAfterPop
  <2>2. Len(records) <= MaxRecords /\ MaxRecords \in Nat
    BY LayoutAssumption DEF TypeInv
  <2> QED
    BY <1>1, <1>7, <2>1, <2>2
<1>9. depth' \in Int /\ lines' \in 0..MaxLines /\ trusted' \subseteq 1..MaxLines /\ runs' \in 1..MaxRuns
  BY <1>2, <1>5, LineDepth DEF TypeInv, TypeOK
<1> QED
  BY <1>3, <1>4, <1>6, <1>7, <1>8, <1>9, TypesKept

LEMMA NextRunTypes ==
    ASSUME TypeInv, NextRun
    PROVE  TypeInv'
<1>1. out.file \in Seq(Byte) /\ <<>> \in Seq(Records) /\ MaxRuns \in Nat /\ MaxRecords \in Nat
  BY EmptySeq, LayoutAssumption DEF TypeInv, TypeOK
<1>2. records' \in Seq(Records) /\ Len(records') = 0 /\ depth' = -1
  BY <1>1, EmptySeq DEF NextRun
<1>3. DepthInv'
  <2>1. {i \in 1..Len(records') : records'[i].logged} = {}
    BY <1>2
  <2> QED
    BY <1>2, <2>1, FS_EmptySet DEF DepthInv
<1>4. out' \in Outs
  BY <1>1 DEF NextRun, Fresh, Outs
<1>5. runs' \in 1..MaxRuns /\ lines' \in 0..MaxLines /\ trusted' \subseteq 1..MaxLines
  BY <1>1 DEF NextRun, TypeInv, TypeOK
<1>6. Len(records') <= MaxRecords /\ depth' \in Int
  BY <1>1, <1>2
<1> QED
  BY <1>2, <1>3, <1>4, <1>5, <1>6, TypesKept

LEMMA NextTypes == TypeInv /\ [Next]_vars => TypeInv'
<1> SUFFICES ASSUME TypeInv, [Next]_vars PROVE TypeInv'
  OBVIOUS
<1>1. CASE UNCHANGED vars
  BY <1>1 DEF TypeInv, TypeOK, DepthInv, vars
<1>2. ASSUME NEW first \in 1..Len(records) + 1, NEW t \in TextSizes, NEW filtered \in BOOLEAN,
             Enter(first, filtered, t)
      PROVE  TypeInv'
  BY <1>2, EnterTypes
<1>3. ASSUME NEW first \in 1..Len(records) + 1, NEW t \in TextSizes, Event(first, t)
      PROVE  TypeInv'
  BY <1>3, EventTypes
<1>4. ASSUME NEW index \in DOMAIN records, NEW e \in BOOLEAN, Exit(index, e)
      PROVE  TypeInv'
  BY <1>4, ExitTypes
<1>5. CASE NextRun
  BY <1>5, NextRunTypes
<1> QED
  BY <1>1, <1>2, <1>3, <1>4, <1>5 DEF Next

\* The file, the offsets and the depth keep their types whatever is popped,
\* torn, rerun or lost to memory: the depth never goes below -1, so that
\* every line has a layout.
THEOREM TypeCorrect == Spec => []TypeOK
<1>1. TypeInv => TypeOK
  BY DEF TypeInv
<1> QED
  BY <1>1, InitTypes, NextTypes, PTL DEF Spec
-------------------------------------------------------------------------------
(***************************************************************************)
(* Patches stay on their own line.  The theorems from here on are about    *)
(* layouts in which the tree of every line fits the line buffer (TreesFit) *)
(* and processes whose allocations succeed (~MayRunOut).                   *)
(***************************************************************************)
TreesFit == \A d \in 0 .. MaxRecords - 1 : SegmentsWritten(d) = d

\* The bytes a record's patches go to are the field and the glyph of its own
\* line, and no other byte is its field.
OwnLine(r, file) ==
    /\ FieldBytes(r) \cup GlyphBytes(r) \subseteq 1..Len(file)
    /\ \A i \in FieldBytes(r) : file[i].line = r.line /\ file[i].part = "field"
    /\ \A i \in GlyphBytes(r) : file[i].line = r.line /\ file[i].part = "glyph"
    /\ \A i \in 1..Len(file) :
         file[i].line = r.line /\ file[i].part = "field" => i \in FieldBytes(r)

RecordInv(r, o, k) ==
    /\ r.logged => r.line \in 1..k
    /\ ~r.logged => r.line = NoLine /\ r.start < 0
    /\ r.start >= 0 => o.patchFd /\ OwnLine(r, o.file)

LinesBelow(file, k) == \A i \in 1..Len(file) : file[i].line <= k

Clean(file) ==
    \A i \in 1..Len(file) :
      file[i].patch # Unpatched => file[i].patch = [line |-> file[i].line, part |-> file[i].part]

\* The state of the file with k lines written, for records rs.
Lines(o, rs, k) ==
    /\ FileInv(o)
    /\ LinesBelow(o.file, k)
    /\ Clean(o.file)
    /\ \A n \in 1..Len(rs) : RecordInv(rs[n], o, k)

DistinctLines(rs) ==
    \A m, n \in 1..Len(rs) :
      m # n /\ rs[m].logged /\ rs[n].logged => rs[m].line # rs[n].line

\* f is `file' with the bytes B patched as what they are.
Rewritten(f, file, B) ==
    /\ Len(f) = Len(file)
    /\ \A i \in 1..Len(file) :
         /\ f[i].line = file[i].line /\ f[i].part = file[i].part
         /\ f[i].patch = IF i \in B THEN [line |-> file[i].line, part |-> file[i].part]
                         ELSE file[i].patch

LEMMA RewrittenTwice ==
    ASSUME NEW f, NEW g, NEW h, NEW A, NEW B, Rewritten(g, f, A), Rewritten(h, g, B)
    PROVE  Rewritten(h, f, A \cup B)
BY DEF Rewritten

LEMMA RewrittenNowhere ==
    ASSUME NEW f
    PROVE  Rewritten(f, f, {})
BY DEF Rewritten

LEMMA RewrittenLine ==
    ASSUME NEW f, NEW file, NEW B, Rewritten(f, file, B), NEW r, OwnLine(r, file)
    PROVE  OwnLine(r, f)
<1> DEFINE fields == FieldBytes(r)
           glyphs == GlyphBytes(r)
<1>1. /\ fields \cup glyphs \subseteq 1..Len(file)
      /\ \A i \in fields : file[i].line = r.line /\ file[i].part = "field"
      /\ \A i \in glyphs : file[i].line = r.line /\ file[i].part = "glyph"
      /\ \A i \in 1..Len(file) : file[i].line = r.line /\ file[i].part = "field" => i \in fields
  BY DEF OwnLine
<1>2. Len(f) = Len(file) /\ \A i \in 1..Len(file) : f[i].line = file[i].line /\ f[i].part = file[i].part
  BY DEF Rewritten
<1> HIDE DEF fields, glyphs
<1>3. /\ fields \cup glyphs \subseteq 1..Len(f)
      /\ \A i \in fields : f[i].line = r.line /\ f[i].part = "field"
      /\ \A i \in glyphs : f[i].line = r.line /\ f[i].part = "glyph"
      /\ \A i \in 1..Len(f) : f[i].line = r.line /\ f[i].part = "field" => i \in fields
  BY <1>1, <1>2
<1> QED
  BY <1>3 DEF OwnLine, fields, glyphs

LEMMA RewrittenLines ==
    ASSUME NEW o, NEW w, NEW rs, NEW k, NEW B, Lines(o, rs, k), SameButBytes(w, o),
           Rewritten(w.file, o.file, B)
    PROVE  Lines(w, rs, k)
<1>1. Len(w.file) = Len(o.file)
  BY DEF Rewritten
<1>2. FileInv(w)
  BY <1>1 DEF Lines, FileInv, SameButBytes
<1>3. LinesBelow(w.file, k)
  BY <1>1 DEF Lines, LinesBelow, Rewritten
<1>4. Clean(w.file)
  BY <1>1 DEF Lines, Clean, Rewritten
<1>5. ASSUME NEW n \in 1..Len(rs)
      PROVE  RecordInv(rs[n], w, k)
  <2>1. RecordInv(rs[n], o, k)
    BY DEF Lines
  <2> QED
    BY <2>1, RewrittenLine DEF RecordInv, SameButBytes
<1> QED
  BY <1>2, <1>3, <1>4, <1>5 DEF Lines

LEMMA ProlongedLine ==
    ASSUME NEW file \in Seq(Byte), NEW f, NEW line, Prolongs(f, file, line), NEW r, r.line # line,
           OwnLine(r, file)
    PROVE  OwnLine(r, f)
<1> DEFINE fields == FieldBytes(r)
           glyphs == GlyphBytes(r)
<1>1. /\ fields \cup glyphs \subseteq 1..Len(file)
      /\ \A i \in fields : file[i].line = r.line /\ file[i].part = "field"
      /\ \A i \in glyphs : file[i].line = r.line /\ file[i].part = "glyph"
      /\ \A i \in 1..Len(file) : file[i].line = r.line /\ file[i].part = "field" => i \in fields
  BY DEF OwnLine
<1>2. Len(file) \in Nat /\ Len(f) \in Nat
  BY LenProperties DEF Prolongs
<1>3. /\ Len(file) <= Len(f) /\ \A i \in 1..Len(file) : f[i] = file[i]
      /\ \A i \in Len(file) + 1..Len(f) : f[i].line = line
  BY DEF Prolongs
<1> HIDE DEF fields, glyphs
<1>4. /\ fields \cup glyphs \subseteq 1..Len(f)
      /\ \A i \in fields : f[i].line = r.line /\ f[i].part = "field"
      /\ \A i \in glyphs : f[i].line = r.line /\ f[i].part = "glyph"
  BY <1>1, <1>2, <1>3
<1>5. ASSUME NEW i \in 1..Len(f), f[i].line = r.line, f[i].part = "field"
      PROVE  i \in fields
  <2>1. i \in 1..Len(file) \/ i \in Len(file) + 1..Len(f)
    BY <1>2
  <2>2. i \in 1..Len(file)
    BY <1>3, <1>5, <2>1
  <2> QED
    BY <1>1, <1>3, <1>5, <2>2
<1> QED
  BY <1>4, <1>5 DEF OwnLine, fields, glyphs

LEMMA ProlongedLines ==
    ASSUME NEW o \in Outs, NEW w, NEW rs \in Seq(Records), NEW k \in Nat, NEW line \in Nat, NEW m \in Nat,
           Lines(o, rs, k), Prolongs(w.file, o.file, line), FileInv(w), o.patchFd => w.patchFd,
           k <= m, line <= m, line = NoLine \/ line > k
    PROVE  Lines(w, rs, m)
<1>1. /\ o.file \in Seq(Byte) /\ Len(o.file) \in Nat /\ Len(w.file) \in Nat
      /\ \A i \in 1..Len(o.file) : o.file[i] \in Byte
  BY LenProperties, ElementOfSeq DEF Outs, Prolongs
<1>2. /\ Len(o.file) <= Len(w.file) /\ \A i \in 1..Len(o.file) : w.file[i] = o.file[i]
      /\ \A i \in Len(o.file) + 1..Len(w.file) : w.file[i].line = line /\ w.file[i].patch = Unpatched
  BY DEF Prolongs
<1>3. \A i \in 1..Len(w.file) : i \in 1..Len(o.file) \/ i \in Len(o.file) + 1..Len(w.file)
  BY <1>1
<1>4. LinesBelow(w.file, m)
  <2>1. \A i \in 1..Len(o.file) : o.file[i].line <= k /\ o.file[i].line \in Nat
    BY <1>1 DEF Lines, LinesBelow, Byte
  <2>2. ASSUME NEW i \in 1..Len(w.file)
        PROVE  w.file[i].line <= m
    <3>1. CASE i \in 1..Len(o.file)
      <4>1. w.file[i] = o.file[i]
        BY <1>2, <3>1
      <4>2. o.file[i].line <= k /\ o.file[i].line \in Nat
        BY <2>1, <3>1
      <4> QED
        BY <4>1, <4>2
    <3>2. CASE i \in Len(o.file) + 1..Len(w.file)
      BY <1>2, <3>2
    <3> QED
      BY <1>3, <3>1, <3>2
  <2> QED
    BY <2>2 DEF LinesBelow
<1>5. Clean(w.file)
  <2>1. Clean(o.file)
    BY DEF Lines
  <2> QED
    BY <1>2, <1>3, <2>1 DEF Clean
<1>6. ASSUME NEW n \in 1..Len(rs)
      PROVE  RecordInv(rs[n], w, m)
  <2>1. RecordInv(rs[n], o, k) /\ rs[n] \in Records
    BY ElementOfSeq DEF Lines
  <2>2. rs[n].logged => rs[n].line \in 1..k /\ rs[n].line \in 1..m /\ rs[n].line # line
    BY <2>1 DEF RecordInv, NoLine
  <2>3. rs[n].start >= 0 => rs[n].logged
    BY <2>1 DEF RecordInv, Records
  <2>4. rs[n].start >= 0 => o.patchFd /\ OwnLine(rs[n], o.file)
    BY <2>1 DEF RecordInv
  <2>5. rs[n].start >= 0 => w.patchFd /\ OwnLine(rs[n], w.file)
    BY <1>1, <2>2, <2>3, <2>4, ProlongedLine
  <2> QED
    BY <2>1, <2>2, <2>5 DEF RecordInv
<1> QED
  BY <1>4, <1>5, <1>6 DEF Lines
-------------------------------------------------------------------------------
(***************************************************************************)
(* What the patches of one hook rewrite.                                   *)
(***************************************************************************)
\* The bytes a record's end marks, and as what.
LEMMA MarkedCells ==
    ASSUME NEW o, NEW r, NEW k, RecordInv(r, o, k)
    PROVE  /\ DOMAIN mark_frame_end(o, r) \in SUBSET (1..Len(o.file))
           /\ \A i \in DOMAIN mark_frame_end(o, r) :
                /\ mark_frame_end(o, r)[i] = [line |-> o.file[i].line, part |-> o.file[i].part]
                /\ o.file[i].line = r.line /\ r.logged
           /\ r.logged /\ r.start >= 0 => FieldBytes(r) \subseteq DOMAIN mark_frame_end(o, r)
<1> DEFINE fields == FieldBytes(r)
           glyphs == GlyphBytes(r)
           marks == mark_frame_end(o, r)
<1>1. marks = [i \in IF r.logged /\ CanPatch(o, r) THEN fields \cup glyphs ELSE {} |->
                 [line |-> r.line, part |-> IF i \in glyphs THEN "glyph" ELSE "field"]]
  BY DEF mark_frame_end, As
<1>2. r.start >= 0 =>
        /\ o.patchFd
        /\ fields \cup glyphs \subseteq 1..Len(o.file)
        /\ \A i \in fields : o.file[i].line = r.line /\ o.file[i].part = "field"
        /\ \A i \in glyphs : o.file[i].line = r.line /\ o.file[i].part = "glyph"
  BY DEF RecordInv, OwnLine
<1> HIDE DEF fields, glyphs, marks
<1>3. CASE ~(r.logged /\ CanPatch(o, r))
  <2>1. DOMAIN marks = {}
    BY <1>1, <1>3
  <2>2. ~(r.logged /\ r.start >= 0)
    BY <1>2, <1>3 DEF CanPatch
  <2> QED
    BY <2>1, <2>2 DEF marks
<1>4. CASE r.logged /\ CanPatch(o, r)
  <2>1. r.start >= 0
    BY <1>4 DEF CanPatch
  <2>2. DOMAIN marks = fields \cup glyphs
    BY <1>1, <1>4
  <2>3. \A i \in DOMAIN marks :
          marks[i] = [line |-> r.line, part |-> IF i \in glyphs THEN "glyph" ELSE "field"]
    BY <1>1, <1>4
  <2>4. \A i \in DOMAIN marks :
          /\ marks[i] = [line |-> o.file[i].line, part |-> o.file[i].part]
          /\ o.file[i].line = r.line
    BY <1>2, <2>1, <2>2, <2>3
  <2> QED
    BY <1>2, <1>4, <2>1, <2>2, <2>4 DEF marks, fields
<1> QED
  BY <1>3, <1>4

\* The bytes the reclaim of the records from `first' up rewrites.
Reclaimed(o, first) == IF LogExceptions THEN MarkedBytes(o, first) ELSE {}

LEMMA ReclaimRewrites ==
    ASSUME records \in Seq(Records), NEW o \in Outs, NEW first \in 1..Len(records) + 1,
           NEW k, Lines(o, records, k)
    PROVE  /\ Rewritten(reclaim_dead_records(o, first).file, o.file, Reclaimed(o, first))
           /\ \A i \in Reclaimed(o, first) :
                /\ i \in 1..Len(o.file)
                /\ \E n \in first..Len(records) : records[n].logged /\ o.file[i].line = records[n].line
           /\ LogExceptions => \A n \in first..Len(records) :
                records[n].logged /\ records[n].start >= 0 => FieldBytes(records[n]) \subseteq Reclaimed(o, first)
<1> DEFINE B == MarkedBytes(o, first)
           marked == Marked(o, first)
           file == o.file
           marks(n) == mark_frame_end(o, records[n])
<1>1. /\ Len(records) \in Nat /\ file \in Seq(Byte) /\ Len(file) \in Nat
      /\ \A i \in 1..Len(file) : file[i] \in Byte
  BY LenProperties, ElementOfSeq DEF Outs
<1>2. \A n \in first..Len(records) : RecordInv(records[n], o, k)
  BY <1>1 DEF Lines
<1>3. \A n \in first..Len(records) :
        /\ DOMAIN marks(n) \in SUBSET (1..Len(file))
        /\ \A i \in DOMAIN marks(n) :
             /\ marks(n)[i] = [line |-> file[i].line, part |-> file[i].part]
             /\ file[i].line = records[n].line /\ records[n].logged
        /\ records[n].logged /\ records[n].start >= 0 => FieldBytes(records[n]) \subseteq DOMAIN marks(n)
  BY <1>2, MarkedCells
<1>4. /\ DOMAIN marked = B
      /\ \A i \in B : \E n \in first..Len(records) : i \in DOMAIN marks(n) /\ marked[i] = marks(n)[i]
      /\ \A n \in first..Len(records) : DOMAIN marks(n) \subseteq B
  BY MarkedProperty
<1>5. reclaim_dead_records(o, first) =
        IF LogExceptions THEN [o EXCEPT !.file = PWrite(@, marked)] ELSE o
  BY ReclaimIsMarked
<1> HIDE DEF B, marked, marks
<1>6. \A i \in B : /\ i \in 1..Len(file)
                   /\ marked[i] = [line |-> file[i].line, part |-> file[i].part]
                   /\ \E n \in first..Len(records) : records[n].logged /\ file[i].line = records[n].line
  <2> TAKE i \in B
  <2>1. PICK n \in first..Len(records) : i \in DOMAIN marks(n) /\ marked[i] = marks(n)[i]
    BY <1>4
  <2> QED
    BY <1>3, <2>1
<1>7. CASE LogExceptions
  <2>1. /\ DOMAIN marked \in SUBSET (1..Len(file))
        /\ \A i \in DOMAIN marked : marked[i] \in Patches
    <3>1. ASSUME NEW i \in DOMAIN marked
          PROVE  i \in 1..Len(file) /\ marked[i] \in Patches
      <4>1. PICK n \in first..Len(records) : i \in DOMAIN marks(n) /\ marked[i] = marks(n)[i]
        BY <1>4
      <4>2. records[n] \in Records
        BY <1>1, ElementOfSeq
      <4>3. marks(n)[i] \in Patches
        BY <4>1, <4>2, MarksType DEF marks
      <4> QED
        BY <1>4, <1>6, <4>1, <4>3
    <3> QED
      BY <3>1
  <2>2. /\ Len(PWrite(file, marked)) = Len(file)
        /\ \A i \in 1..Len(file) :
             /\ PWrite(file, marked)[i].line = file[i].line
             /\ PWrite(file, marked)[i].part = file[i].part
             /\ PWrite(file, marked)[i].patch = IF i \in DOMAIN marked THEN marked[i] ELSE file[i].patch
    BY <1>1, <2>1, PWriteInside
  <2>3. reclaim_dead_records(o, first).file = PWrite(file, marked)
    BY <1>5, <1>7 DEF Outs
  <2>4. Rewritten(PWrite(file, marked), file, B)
    BY <1>4, <1>6, <2>2 DEF Rewritten
  <2>5. Reclaimed(o, first) = B
    BY <1>7 DEF Reclaimed, B
  <2> QED
    BY <1>3, <1>4, <1>6, <2>3, <2>4, <2>5
<1>8. CASE ~LogExceptions
  <2>1. Reclaimed(o, first) = {} /\ reclaim_dead_records(o, first) = o
    BY <1>5, <1>8 DEF Reclaimed
  <2> QED
    BY <1>8, <2>1, RewrittenNowhere
<1> QED
  BY <1>7, <1>8

LEMMA PatchRewrites ==
    ASSUME NEW o \in Outs, NEW r \in Records, NEW k, RecordInv(r, o, k)
    PROVE  /\ \E B \in {{}, FieldBytes(r)} :
                /\ Rewritten(PatchField(o, r).file, o.file, B)
                /\ IF r.start >= 0 THEN B = FieldBytes(r) ELSE B = {}
           /\ \E B \in {{}, GlyphBytes(r)} :
                /\ Rewritten(PatchGlyph(o, r).file, o.file, B)
                /\ r.start < 0 => B = {}
<1> DEFINE file == o.file
<1>1. file \in Seq(Byte)
  BY DEF Outs
<1>2. ASSUME NEW part \in {"field", "glyph"}, NEW bytes \in SUBSET (1..Len(file)),
             \A i \in bytes : file[i].line = r.line /\ file[i].part = part, CanPatch(o, r)
      PROVE  Rewritten(patch_line_bytes(o, r, part, bytes).file, file, bytes)
  <2> DEFINE patches == [i \in bytes |-> As(r, part)]
  <2>1. /\ DOMAIN patches = bytes
        /\ \A i \in bytes : patches[i] = [line |-> r.line, part |-> part]
    BY DEF As
  <2> HIDE DEF patches
  <2>2. \A i \in DOMAIN patches : patches[i] \in Patches
    <3>1. [line |-> r.line, part |-> part] \in Patches
      BY DEF Patches, Records
    <3> QED
      BY <2>1, <3>1
  <2>3. /\ Len(PWrite(file, patches)) = Len(file)
        /\ \A i \in 1..Len(file) :
             /\ PWrite(file, patches)[i].line = file[i].line
             /\ PWrite(file, patches)[i].part = file[i].part
             /\ PWrite(file, patches)[i].patch = IF i \in DOMAIN patches THEN patches[i] ELSE file[i].patch
    BY <1>1, <1>2, <2>1, <2>2, PWriteInside
  <2>4. patch_line_bytes(o, r, part, bytes).file = PWrite(file, patches)
    BY <1>2 DEF patch_line_bytes, patches, Outs
  <2> QED
    BY <1>2, <2>1, <2>3, <2>4 DEF Rewritten
<1>3. CASE r.start >= 0
  <2>1. CanPatch(o, r) /\ OwnLine(r, file)
    BY <1>3 DEF RecordInv, CanPatch
  <2>2. Rewritten(PatchField(o, r).file, file, FieldBytes(r))
    BY <1>2, <2>1 DEF PatchField, OwnLine
  <2>3. Rewritten(PatchGlyph(o, r).file, file, GlyphBytes(r))
    BY <1>2, <2>1 DEF PatchGlyph, OwnLine
  <2> QED
    BY <1>3, <2>2, <2>3 DEF Records
<1>4. CASE ~(r.start >= 0)
  <2>1. PatchField(o, r) = o /\ PatchGlyph(o, r) = o
    BY <1>4 DEF PatchField, PatchGlyph, patch_line_bytes, CanPatch
  <2> QED
    BY <1>4, <2>1, RewrittenNowhere
<1> QED
  BY <1>3, <1>4
-------------------------------------------------------------------------------
(***************************************************************************)
(* What is shown as pending.                                               *)
(***************************************************************************)
\* A patchable line of T whose record is on the stack has an unpatched field,
\* and one whose record is not has a patched one.
Pending(o, rs, T) ==
    \A line \in T :
      /\ \A n \in 1..Len(rs) : rs[n].line = line =>
           /\ rs[n].start >= 0
           /\ \A i \in FieldBytes(rs[n]) : o.file[i].patch = Unpatched
      /\ (\A n \in 1..Len(rs) : rs[n].line # line) =>
           \A i \in 1..Len(o.file) :
             o.file[i].line = line /\ o.file[i].part = "field" => o.file[i].patch # Unpatched

\* The state of the file o with k lines, those in T patchable, for records rs.
Good(o, rs, k, T) ==
    /\ Lines(o, rs, k)
    /\ DistinctLines(rs)
    /\ T \subseteq 1..k
    /\ LogElapsed /\ LogExceptions => Pending(o, rs, T)

\* Popping the records from `first' up, their bytes rewritten.
LEMMA PopGood ==
    ASSUME records \in Seq(Records), NEW o \in Outs, NEW w, NEW B, NEW k \in Nat, NEW T,
           NEW first \in 1..Len(records) + 1, Good(o, records, k, T), SameButBytes(w, o),
           Rewritten(w.file, o.file, B),
           \A i \in B : \E n \in first..Len(records) :
             records[n].logged /\ o.file[i].line = records[n].line,
           LogElapsed /\ LogExceptions => \A n \in first..Len(records) :
             records[n].logged /\ records[n].start >= 0 => FieldBytes(records[n]) \subseteq B
    PROVE  Good(w, Truncated(first), k, T)
<1> DEFINE rs == Truncated(first)
<1>1. /\ rs \in Seq(Records) /\ Len(rs) = first - 1 /\ Len(records) \in Nat /\ first \in Nat
      /\ \A i \in 1..first - 1 : rs[i] = records[i] /\ i \in 1..Len(records)
  <2>1. Len(records) \in Nat /\ first \in Nat
    BY LenProperties
  <2> QED
    BY <2>1, KeptRecords
<1> HIDE DEF rs
<1>2. Lines(w, records, k)
  BY RewrittenLines DEF Good
<1>3. Lines(w, rs, k)
  BY <1>1, <1>2 DEF Lines
<1>4. DistinctLines(rs)
  BY <1>1 DEF Good, DistinctLines
<1>5. ASSUME LogElapsed, LogExceptions
      PROVE  Pending(w, rs, T)
  <2> SUFFICES ASSUME NEW line \in T
               PROVE  /\ \A n \in 1..Len(rs) : rs[n].line = line =>
                           /\ rs[n].start >= 0
                           /\ \A i \in FieldBytes(rs[n]) : w.file[i].patch = Unpatched
                      /\ (\A n \in 1..Len(rs) : rs[n].line # line) =>
                           \A i \in 1..Len(w.file) :
                             w.file[i].line = line /\ w.file[i].part = "field" => w.file[i].patch # Unpatched
    BY DEF Pending
  <2>1. /\ \A n \in 1..Len(records) : records[n].line = line =>
             /\ records[n].start >= 0
             /\ \A i \in FieldBytes(records[n]) : o.file[i].patch = Unpatched
        /\ (\A n \in 1..Len(records) : records[n].line # line) =>
             \A i \in 1..Len(o.file) :
               o.file[i].line = line /\ o.file[i].part = "field" => o.file[i].patch # Unpatched
    BY <1>5 DEF Good, Pending
  <2>2. \A n \in 1..Len(records) : /\ records[n] \in Records /\ RecordInv(records[n], o, k)
                                   /\ records[n].start >= 0 => records[n].logged
    <3> TAKE n \in 1..Len(records)
    <3>1. records[n] \in Records /\ RecordInv(records[n], o, k)
      BY ElementOfSeq DEF Good, Lines
    <3> QED
      BY <3>1 DEF RecordInv, Records
  <2>3. ASSUME NEW n \in 1..Len(rs), rs[n].line = line
        PROVE  rs[n].start >= 0 /\ \A i \in FieldBytes(rs[n]) : w.file[i].patch = Unpatched
    <3>1. n \in 1..first - 1 /\ n \in 1..Len(records) /\ rs[n] = records[n]
      BY <1>1
    <3>2. /\ records[n].line = line /\ records[n].start >= 0 /\ records[n].logged
          /\ \A i \in FieldBytes(records[n]) : o.file[i].patch = Unpatched
      BY <2>1, <2>2, <2>3, <3>1
    <3>3. OwnLine(records[n], o.file)
      BY <2>2, <3>1, <3>2 DEF RecordInv
    <3>4. ASSUME NEW i \in FieldBytes(records[n])
          PROVE  w.file[i].patch = Unpatched
      <4>1. i \in 1..Len(o.file) /\ o.file[i].line = line
        BY <3>2, <3>3 DEF OwnLine
      <4>2. i \notin B
        <5> SUFFICES ASSUME i \in B PROVE FALSE
          OBVIOUS
        <5>1. PICK m \in first..Len(records) : records[m].logged /\ o.file[i].line = records[m].line
          OBVIOUS
        <5>2. m \in 1..Len(records) /\ m # n
          BY <1>1, <3>1
        <5> QED
          BY <3>1, <3>2, <4>1, <5>1, <5>2 DEF Good, DistinctLines
      <4> QED
        BY <3>2, <4>1, <4>2 DEF Rewritten
    <3> QED
      BY <3>1, <3>2, <3>4
  <2>4. ASSUME \A n \in 1..Len(rs) : rs[n].line # line,
               NEW i \in 1..Len(w.file), w.file[i].line = line, w.file[i].part = "field"
        PROVE  w.file[i].patch # Unpatched
    <3>1. i \in 1..Len(o.file) /\ o.file[i].line = line /\ o.file[i].part = "field"
      BY <2>4 DEF Rewritten
    <3>2. [line |-> o.file[i].line, part |-> o.file[i].part] # Unpatched
      BY <3>1 DEF Unpatched
    <3>3. CASE \A n \in 1..Len(records) : records[n].line # line
      BY <2>1, <3>1, <3>2, <3>3 DEF Rewritten
    <3>4. CASE \E n \in 1..Len(records) : records[n].line = line
      <4>1. PICK n \in 1..Len(records) : records[n].line = line
        BY <3>4
      <4>2. n \in first..Len(records)
        <5>1. n \notin 1..Len(rs)
          BY <1>1, <2>4, <4>1
        <5> QED
          BY <1>1, <5>1
      <4>3. records[n].start >= 0 /\ records[n].logged
        BY <2>1, <2>2, <4>1
      <4>4. OwnLine(records[n], o.file)
        BY <2>2, <4>3 DEF RecordInv
      <4>5. i \in FieldBytes(records[n])
        BY <3>1, <4>1, <4>4 DEF OwnLine
      <4>6. i \in B
        BY <1>5, <4>2, <4>3, <4>5
      <4> QED
        BY <3>1, <3>2, <4>6 DEF Rewritten
    <3> QED
      BY <3>3, <3>4
  <2> QED
    BY <2>3, <2>4
<1> QED
  BY <1>3, <1>4, <1>5 DEF Good, rs

\* Bytes appended for a line that no record or patchable line is.
LEMMA ProlongGood ==
    ASSUME NEW o \in Outs, NEW w, NEW rs \in Seq(Records), NEW k \in Nat, NEW line \in Nat, NEW m \in Nat,
           NEW T, Good(o, rs, k, T), Prolongs(w.file, o.file, line), FileInv(w), o.patchFd => w.patchFd,
           k <= m, line <= m, line = NoLine \/ line > k
    PROVE  Good(w, rs, m, T)
<1>1. Lines(w, rs, m)
  BY ProlongedLines DEF Good
<1>2. DistinctLines(rs) /\ T \subseteq 1..m /\ T \subseteq 1..k
  BY DEF Good
<1>3. /\ Len(o.file) \in Nat /\ Len(w.file) \in Nat
      /\ Len(o.file) <= Len(w.file) /\ \A i \in 1..Len(o.file) : w.file[i] = o.file[i]
      /\ \A i \in Len(o.file) + 1..Len(w.file) : w.file[i].line = line
  BY LenProperties DEF Outs, Prolongs
<1>4. ASSUME LogElapsed, LogExceptions
      PROVE  Pending(w, rs, T)
  <2>1. Pending(o, rs, T)
    BY <1>4 DEF Good
  <2>2. ASSUME NEW l \in T, NEW n \in 1..Len(rs), rs[n].line = l
        PROVE  rs[n].start >= 0 /\ \A i \in FieldBytes(rs[n]) : w.file[i].patch = Unpatched
    <3>1. rs[n].start >= 0 /\ \A i \in FieldBytes(rs[n]) : o.file[i].patch = Unpatched
      BY <2>1, <2>2 DEF Pending
    <3>2. RecordInv(rs[n], o, k)
      BY DEF Good, Lines
    <3>3. FieldBytes(rs[n]) \subseteq 1..Len(o.file)
      BY <3>1, <3>2 DEF RecordInv, OwnLine
    <3> QED
      BY <1>3, <3>1, <3>3
  <2>3. ASSUME NEW l \in T, \A n \in 1..Len(rs) : rs[n].line # l,
               NEW i \in 1..Len(w.file), w.file[i].line = l, w.file[i].part = "field"
        PROVE  w.file[i].patch # Unpatched
    <3>1. l # line
      BY <1>2 DEF NoLine
    <3>2. i \in 1..Len(o.file)
      BY <1>3, <2>3, <3>1
    <3> QED
      BY <1>3, <2>1, <2>3, <3>2 DEF Pending
  <2> QED
    BY <2>2, <2>3 DEF Pending
<1> QED
  BY <1>1, <1>2, <1>4 DEF Good

\* Pushing a record of a line no other record has.
LEMMA PushGood ==
    ASSUME NEW w \in Outs, NEW rs \in Seq(Records), NEW k \in Nat, NEW T, Good(w, rs, k, T),
           NEW e \in Records, RecordInv(e, w, k),
           e.logged => e.line \notin T /\ \A n \in 1..Len(rs) : rs[n].line # e.line,
           NEW S,
           \/ S = T
           \/ /\ S = T \cup {e.line} /\ e.logged /\ e.start >= 0
              /\ \A i \in FieldBytes(e) : w.file[i].patch = Unpatched
    PROVE  Good(w, Append(rs, e), k, S)
<1> DEFINE more == Append(rs, e)
           top == Len(rs) + 1
<1>1. /\ Len(rs) \in Nat /\ top \in Nat /\ Len(more) = top /\ more[top] = e
      /\ \A n \in 1..Len(rs) : more[n] = rs[n]
      /\ \A n \in 1..Len(more) : n \in 1..Len(rs) \/ n = top
  BY LenProperties, AppendProperties
<1> HIDE DEF more, top
<1>2. Lines(w, more, k)
  BY <1>1 DEF Good, Lines
<1>3. DistinctLines(more)
  BY <1>1 DEF Good, DistinctLines
<1>4. S \subseteq 1..k
  BY DEF Good, RecordInv
<1>5. e.line \notin T
  BY DEF Good, RecordInv, NoLine, Records
<1>6. ASSUME LogElapsed, LogExceptions
      PROVE  Pending(w, more, S)
  <2>1. Pending(w, rs, T)
    BY <1>6 DEF Good
  <2>2. ASSUME NEW l \in S, NEW n \in 1..Len(more), more[n].line = l
        PROVE  more[n].start >= 0 /\ \A i \in FieldBytes(more[n]) : w.file[i].patch = Unpatched
    <3>1. CASE l \in T
      <4>1. n \in 1..Len(rs) /\ more[n] = rs[n]
        BY <1>1, <1>5, <2>2, <3>1
      <4> QED
        BY <2>1, <2>2, <3>1, <4>1 DEF Pending
    <3>2. CASE l \notin T
      <4>1. l = e.line /\ e.start >= 0 /\ e.logged
            /\ \A i \in FieldBytes(e) : w.file[i].patch = Unpatched
        BY <3>2
      <4>2. more[n] = e
        BY <1>1, <2>2, <4>1
      <4> QED
        BY <4>1, <4>2
    <3> QED
      BY <3>1, <3>2
  <2>3. ASSUME NEW l \in S, \A n \in 1..Len(more) : more[n].line # l,
               NEW i \in 1..Len(w.file), w.file[i].line = l, w.file[i].part = "field"
        PROVE  w.file[i].patch # Unpatched
    <3>1. top \in 1..Len(more)
      BY <1>1 DEF top
    <3>2. l \in T
      BY <1>1, <2>3, <3>1
    <3>3. \A n \in 1..Len(rs) : rs[n].line # l
      <4>1. \A n \in 1..Len(rs) : n \in 1..Len(more)
        BY <1>1 DEF top
      <4> QED
        BY <1>1, <2>3, <4>1
    <3> QED
      BY <2>1, <2>3, <3>2, <3>3 DEF Pending
  <2> QED
    BY <2>2, <2>3 DEF Pending
<1> QED
  BY <1>2, <1>3, <1>4, <1>6 DEF Good, more

\* The cells of the next line.
LEMMA NextLine ==
    ASSUME lines \in Nat, NEW d \in Nat, NEW text \in Nat
    PROVE  /\ format_into(lines + 1, d, text) \in Seq(Byte)
           /\ Len(format_into(lines + 1, d, text)) = LineSize(d, text)
           /\ LineSize(d, text) \in Nat
           /\ \A i \in 1..LineSize(d, text) :
                format_into(lines + 1, d, text)[i] =
                  [line |-> lines + 1, part |-> PartAt(i - 1, d), patch |-> Unpatched]
<1> DEFINE line == lines + 1
<1>1. line \in Nat
  OBVIOUS
<1> HIDE DEF line
<1>2. /\ format_into(line, d, text) \in Seq(Byte)
      /\ Len(format_into(line, d, text)) = LineSize(d, text)
      /\ \A i \in 1..LineSize(d, text) :
           format_into(line, d, text)[i] = [line |-> line, part |-> PartAt(i - 1, d), patch |-> Unpatched]
  BY <1>1, CallLine
<1> QED
  BY <1>2, LineSizeProperty DEF line

\* The record of a line just written from o, leaving w.
LEMMA NewRecord ==
    ASSUME TreesFit, lines \in Nat, NEW o \in Outs, FileInv(o), o.fp, LinesBelow(o.file, lines),
           NEW d \in 0..MaxRecords - 1, NEW text \in Nat,
           NEW w \in AppendLine(o, format_into(lines + 1, d, text))
    PROVE  /\ w \in Outs /\ FileInv(w) /\ Prolongs(w.file, o.file, lines + 1)
           /\ w.patchFd = o.patchFd
           /\ LineRecord(o, w, d) \in Records /\ LineRecord(o, w, d).logged
           /\ LineRecord(o, w, d).line = lines + 1
           /\ RecordInv(LineRecord(o, w, d), w, lines + 1)
           /\ w.cursorValid => /\ LineRecord(o, w, d).start >= 0
                               /\ \A i \in FieldBytes(LineRecord(o, w, d)) : w.file[i].patch = Unpatched
<1> DEFINE cells == format_into(lines + 1, d, text)
           size == LineSize(d, text)
           e == LineRecord(o, w, d)
           end == Len(o.file)
<1>1. /\ d \in Nat /\ lines + 1 \in Nat /\ lines + 1 \in 1..lines + 1 /\ SegmentsWritten(d) = d
      /\ end \in Nat
  <2>1. MaxRecords \in Nat
    BY LayoutAssumption
  <2>2. d \in Nat /\ lines + 1 \in Nat /\ lines + 1 \in 1..lines + 1
    BY <2>1
  <2>3. SegmentsWritten(d) = d
    BY DEF TreesFit
  <2>4. end \in Nat
    BY LenProperties DEF Outs
  <2> QED
    BY <2>2, <2>3, <2>4
<1>2. /\ cells \in Seq(Byte) /\ Len(cells) = size /\ size \in Nat
      /\ \A i \in 1..size :
           cells[i] = [line |-> lines + 1, part |-> PartAt(i - 1, d), patch |-> Unpatched]
  BY <1>1, NextLine DEF size
<1>3. w \in AppendLine(o, cells)
  OBVIOUS
<1> HIDE DEF cells, size, end
<1>4. \A i \in 1..Len(cells) : cells[i].line = lines + 1 /\ cells[i].patch = Unpatched
  BY <1>2
<1>5. /\ w \in Outs
      /\ Prolongs(w.file, o.file, lines + 1)
      /\ w.fp = o.fp /\ w.patchFd = o.patchFd /\ w.attempted = o.attempted
      /\ \/ /\ Len(w.file) = Len(o.file) + Len(cells)
            /\ \A i \in 1..Len(cells) : w.file[Len(o.file) + i] = cells[i]
            /\ w.cursor = o.cursor + Len(cells)
            /\ w.cursorValid = o.cursorValid
            /\ w.torn = o.torn
         \/ /\ ~w.cursorValid
            /\ w.torn
  <2> DEFINE line == lines + 1
  <2>1. w \in AppendLine(o, cells) /\ cells \in Seq(Byte) /\ line \in Nat /\ o \in Outs
    BY <1>1, <1>2, <1>3
  <2>2. \A i \in 1..Len(cells) : cells[i].line = line /\ cells[i].patch = Unpatched
    BY <1>4
  <2> HIDE DEF line
  <2>3. Appended(w, o, cells, line)
    BY <2>1, <2>2, AppendProperty
  <2> QED
    BY <2>3 DEF line, Appended
<1>6. FileInv(w)
  BY <1>5 DEF FileInv
<1>7. /\ e \in Records /\ e.logged /\ e.line = lines + 1
      /\ w.cursorValid => e.start = o.cursor /\ e.depth = d
      /\ ~w.cursorValid => e.start = -1
  <2>1. o.cursor \in Nat
    BY DEF Outs
  <2> QED
    BY <1>1, <2>1 DEF LineRecord, Records
<1> HIDE DEF e
<1>8. CASE ~w.cursorValid
  <2>1. RecordInv(e, w, lines + 1)
    BY <1>1, <1>7, <1>8 DEF RecordInv
  <2> QED
    BY <1>5, <1>6, <1>7, <1>8, <2>1 DEF e
<1>9. CASE w.cursorValid
  <2>1. /\ Len(w.file) = end + size
        /\ \A i \in 1..size : w.file[end + i] = cells[i]
        /\ o.cursorValid
    BY <1>2, <1>5, <1>9 DEF end
  <2>2. o.patchFd /\ e.start = end /\ e.depth = d
    BY <1>5, <1>7, <1>9, <2>1 DEF FileInv, end
  <2>3. \A i \in 1..size : /\ w.file[end + i].line = lines + 1
                           /\ w.file[end + i].part = PartAt(i - 1, d)
                           /\ w.file[end + i].patch = Unpatched
    BY <1>2, <2>1
  <2>4. ASSUME NEW i \in FieldBytes(e)
        PROVE  /\ i \in 1..Len(w.file)
               /\ w.file[i].line = lines + 1 /\ w.file[i].part = "field" /\ w.file[i].patch = Unpatched
    <3>1. LogElapsed /\ i \in end + StampWidth + 1 .. end + StampWidth + FieldWidth
      BY <2>2, <2>4 DEF FieldBytes
    <3>2. StampWidth \in Nat /\ FieldWidth \in Nat
      BY Widths
    <3> DEFINE j == i - end
    <3>3. j \in StampWidth + 1 .. StampWidth + FieldWidth /\ i = end + j
      BY <1>1, <3>1, <3>2
    <3> HIDE DEF j
    <3>4. j \in 1..size /\ PartAt(j - 1, d) = "field"
      BY <1>1, <3>1, <3>3, FieldPlace DEF size
    <3>5. i \in 1..Len(w.file)
      BY <1>1, <1>2, <2>1, <3>3, <3>4
    <3> QED
      BY <2>3, <3>3, <3>4, <3>5
  <2>5. ASSUME NEW i \in GlyphBytes(e)
        PROVE  i \in 1..Len(w.file) /\ w.file[i].line = lines + 1 /\ w.file[i].part = "glyph"
    <3>1. d >= 1 /\ i = end + GlyphOffset(d) + 1
      BY <2>2, <2>5 DEF GlyphBytes
    <3> DEFINE offset == GlyphOffset(d)
               j == offset + 1
    <3>2. offset \in Nat /\ j \in 1..size /\ PartAt(offset, d) = "glyph"
      BY <1>1, <3>1, GlyphPlace DEF size
    <3>3. i = end + offset + 1
      BY <3>1
    <3> HIDE DEF offset
    <3>4. i = end + j /\ j - 1 = offset
      <4>1. offset \in Nat /\ end \in Nat
        BY <1>1, <3>2
      <4> QED
        BY <3>3, <4>1
    <3> HIDE DEF j
    <3>5. i \in 1..Len(w.file)
      BY <1>1, <1>2, <2>1, <3>2, <3>4
    <3> QED
      BY <2>3, <3>2, <3>4, <3>5
  <2>6. ASSUME NEW i \in 1..Len(w.file), w.file[i].line = lines + 1, w.file[i].part = "field"
        PROVE  i \in FieldBytes(e)
    <3>1. i \notin 1..end
      <4> SUFFICES ASSUME i \in 1..end PROVE FALSE
        OBVIOUS
      <4>1. w.file[i] = o.file[i] /\ o.file[i] \in Byte
        BY <1>5, ElementOfSeq DEF Prolongs, Outs, end
      <4>2. o.file[i].line <= lines /\ o.file[i].line \in Nat
        BY <4>1 DEF LinesBelow, Byte, end
      <4> QED
        BY <2>6, <4>1, <4>2
    <3> DEFINE j == i - end
    <3>2. j \in 1..size /\ i = end + j
      BY <1>1, <1>2, <2>1, <3>1
    <3> HIDE DEF j
    <3>3. PartAt(j - 1, d) = "field"
      BY <2>3, <2>6, <3>2
    <3>4. LogElapsed
      BY <3>3, ZenonT(30) DEF PartAt
    <3>5. j \in StampWidth + 1 .. StampWidth + FieldWidth
      BY <1>1, <3>2, <3>3, <3>4, FieldPlace DEF size
    <3>6. StampWidth \in Nat /\ FieldWidth \in Nat
      BY Widths
    <3>7. i \in end + StampWidth + 1 .. end + StampWidth + FieldWidth
      BY <1>1, <3>2, <3>5, <3>6
    <3> QED
      BY <2>2, <3>4, <3>7 DEF FieldBytes
  <2>7. OwnLine(e, w.file)
    BY <1>7, <2>4, <2>5, <2>6 DEF OwnLine
  <2>8. RecordInv(e, w, lines + 1)
    BY <1>1, <1>5, <1>7, <2>2, <2>7 DEF RecordInv
  <2> QED
    BY <1>1, <1>5, <1>6, <1>7, <2>2, <2>4, <2>8 DEF e
<1> QED
  BY <1>8, <1>9
-------------------------------------------------------------------------------
(***************************************************************************)
(* The invariant of the trace file, step by step.                          *)
(***************************************************************************)
IInv == TypeInv /\ Good(out, records, lines, trusted)

LEMMA InitGood == Init => IInv
<1> SUFFICES ASSUME Init PROVE IInv
  OBVIOUS
<1>1. out.file = <<>> /\ Len(out.file) = 0 /\ Len(records) = 0
  BY EmptySeq DEF Init, Fresh
<1>2. FileInv(out)
  BY DEF Init, Fresh, FileInv
<1>3. trusted = {}
  BY DEF Init
<1> QED
  BY <1>1, <1>2, <1>3, InitTypes DEF IInv, Good, Lines, LinesBelow, Clean, DistinctLines, Pending

\* The reclaim a hook starts with.
LEMMA ReclaimGood ==
    ASSUME IInv, NEW first \in 1..Len(records) + 1
    PROVE  /\ reclaim_dead_records(out, first) \in Outs
           /\ Good(reclaim_dead_records(out, first), Truncated(first), lines, trusted)
<1> DEFINE w == reclaim_dead_records(out, first)
           B == Reclaimed(out, first)
<1>1. out \in Outs /\ records \in Seq(Records) /\ lines \in Nat /\ Lines(out, records, lines)
  BY Typed DEF IInv, Good
<1>2. w \in Outs /\ SameButBytes(w, out)
  BY <1>1, ReclaimType
<1>3. /\ Rewritten(w.file, out.file, B)
      /\ \A i \in B : /\ i \in 1..Len(out.file)
                      /\ \E n \in first..Len(records) : records[n].logged /\ out.file[i].line = records[n].line
      /\ LogExceptions => \A n \in first..Len(records) :
           records[n].logged /\ records[n].start >= 0 => FieldBytes(records[n]) \subseteq B
  BY <1>1, ReclaimRewrites
<1> HIDE DEF w, B
<1>4. Good(out, records, lines, trusted)
  BY DEF IInv
<1>5. Good(w, Truncated(first), lines, trusted)
  BY <1>1, <1>2, <1>3, <1>4, PopGood
<1> QED
  BY <1>2, <1>5 DEF w

LEMMA OpenGood ==
    ASSUME ~MayRunOut, NEW o \in Outs, NEW rs \in Seq(Records), NEW k \in Nat, NEW T,
           Good(o, rs, k, T), NEW g \in get_thread_fp(o)
    PROVE  g.o \in Outs /\ Good(g.o, rs, k, T)
<1>1. /\ g.o \in Outs /\ Prolongs(g.o.file, o.file, NoLine)
      /\ o.attempted => g.o = o
  BY OpenProperty
<1>2. FileInv(o)
  BY DEF Good, Lines
<1>3. FileInv(g.o)
  BY <1>2, OpenProperty
<1>4. CASE o.attempted
  BY <1>1, <1>4
<1>5. CASE ~o.attempted
  <2>1. ~o.patchFd
    BY <1>2, <1>5 DEF FileInv
  <2>2. NoLine \in Nat /\ NoLine <= k /\ k <= k
    BY DEF NoLine
  <2>3. o.patchFd => g.o.patchFd
    BY <2>1
  <2> DEFINE w == g.o
  <2>4. Prolongs(w.file, o.file, NoLine) /\ FileInv(w) /\ (o.patchFd => w.patchFd)
    BY <1>1, <1>3, <2>3
  <2> HIDE DEF w
  <2>5. Good(w, rs, k, T)
    BY <2>2, <2>4, ProlongGood
  <2> QED
    BY <1>1, <2>5 DEF w
<1> QED
  BY <1>4, <1>5

LEMMA EnterGood ==
    ASSUME TreesFit, ~MayRunOut, IInv, NEW first \in 1..Len(records) + 1, NEW t \in TextSizes,
           NEW filtered \in BOOLEAN, Enter(first, filtered, t)
    PROVE  IInv'
<1> DEFINE d == DepthBelow(first) + 1
           cells == format_into(lines + 1, d, t)
           before == reclaim_dead_records(out, first)
           rs == Truncated(first)
<1>1. TypeInv /\ TypeInv'
  BY EnterTypes DEF IInv
<1>2. /\ lines \in Nat /\ first \in Nat /\ first <= MaxRecords /\ MaxRecords \in Nat
      /\ rs \in Seq(Records) /\ Len(rs) = first - 1
  BY <1>1, Typed, LineDepth, KeptRecords DEF Enter
<1>3. d \in 0..MaxRecords - 1 /\ t \in Nat
  <2>1. d \in 0..first - 1
    BY <1>1, LineDepth
  <2> QED
    BY <1>2, <2>1, LayoutAssumption
<1>4. before \in Outs /\ Good(before, rs, lines, trusted)
  BY ReclaimGood
<1>5. \E g \in get_thread_fp(before) :
        \/ /\ out' = g.o
           /\ records' = Append(rs, Unlogged)
           /\ UNCHANGED <<lines, trusted>>
        \/ /\ g.o.fp
           /\ out' \in AppendLine(g.o, cells)
           /\ records' = Append(rs, LineRecord(g.o, out', d))
           /\ lines' = lines + 1
           /\ trusted' = IF Patchable(out') THEN trusted \cup {lines + 1} ELSE trusted
  BY DEF Enter
<1> HIDE DEF before, rs, cells, d
<1>6. PICK g \in get_thread_fp(before) :
        \/ /\ out' = g.o
           /\ records' = Append(rs, Unlogged)
           /\ UNCHANGED <<lines, trusted>>
        \/ /\ g.o.fp
           /\ out' \in AppendLine(g.o, cells)
           /\ records' = Append(rs, LineRecord(g.o, out', d))
           /\ lines' = lines + 1
           /\ trusted' = IF Patchable(out') THEN trusted \cup {lines + 1} ELSE trusted
  BY <1>5
<1>7. g.o \in Outs /\ Good(g.o, rs, lines, trusted)
  BY <1>2, <1>4, OpenGood
<1>8. CASE /\ out' = g.o
           /\ records' = Append(rs, Unlogged)
           /\ UNCHANGED <<lines, trusted>>
  <2> DEFINE w == g.o
             T == trusted
  <2>1. RecordInv(Unlogged, w, lines) /\ Unlogged \in Records /\ ~Unlogged.logged
    BY UnloggedType DEF RecordInv
  <2>2. w \in Outs /\ Good(w, rs, lines, T)
    BY <1>7
  <2> HIDE DEF w, T
  <2>3. Good(w, Append(rs, Unlogged), lines, T)
    BY <1>2, <2>1, <2>2, PushGood
  <2> QED
    BY <1>1, <1>8, <2>3 DEF IInv, w, T
<1>9. CASE /\ g.o.fp
           /\ out' \in AppendLine(g.o, cells)
           /\ records' = Append(rs, LineRecord(g.o, out', d))
           /\ lines' = lines + 1
           /\ trusted' = IF Patchable(out') THEN trusted \cup {lines + 1} ELSE trusted
  <2> DEFINE o == g.o
             w == out'
             e == LineRecord(o, w, d)
             line == lines + 1
             T == trusted
             S == IF Patchable(w) THEN T \cup {line} ELSE T
  <2>1. o \in Outs /\ Good(o, rs, lines, T) /\ o.fp /\ FileInv(o) /\ LinesBelow(o.file, lines)
    BY <1>7, <1>9 DEF Good, Lines
  <2>2. w \in AppendLine(o, format_into(lines + 1, d, t))
    BY <1>9 DEF cells
  <2> HIDE DEF o, w
  <2>3. /\ w \in Outs /\ FileInv(w) /\ Prolongs(w.file, o.file, lines + 1)
        /\ w.patchFd = o.patchFd
        /\ LineRecord(o, w, d) \in Records /\ LineRecord(o, w, d).logged
        /\ LineRecord(o, w, d).line = lines + 1
        /\ RecordInv(LineRecord(o, w, d), w, lines + 1)
        /\ w.cursorValid => /\ LineRecord(o, w, d).start >= 0
                            /\ \A i \in FieldBytes(LineRecord(o, w, d)) : w.file[i].patch = Unpatched
    BY <1>2, <1>3, <2>1, <2>2, NewRecord
  <2>4. /\ w \in Outs /\ FileInv(w) /\ Prolongs(w.file, o.file, line) /\ (o.patchFd => w.patchFd)
        /\ e \in Records /\ e.logged /\ e.line = line /\ RecordInv(e, w, line)
        /\ w.cursorValid => e.start >= 0 /\ \A i \in FieldBytes(e) : w.file[i].patch = Unpatched
    BY <2>3
  <2>5. line \in Nat /\ lines <= line /\ line <= line /\ line > lines /\ lines \in Nat
    BY <1>2
  <2>6. Patchable(w) => w.cursorValid
    <3>1. Patchable(w) => w.fp
      BY <2>4 DEF FileInv, Patchable
    <3> QED
      BY <2>4, <3>1 DEF FileInv, Patchable
  <2>7. T \subseteq 1..lines /\ \A n \in 1..Len(rs) : rs[n] \in Records /\ RecordInv(rs[n], o, lines)
    BY <1>2, <2>1, ElementOfSeq DEF Good, Lines
  <2> HIDE DEF e, line, T
  <2>8. Good(w, rs, line, T)
    BY <1>2, <2>1, <2>4, <2>5, ProlongGood
  <2>9. e.line \notin T /\ \A n \in 1..Len(rs) : rs[n].line # e.line
    <3>1. line \notin T
      BY <2>5, <2>7
    <3>2. ASSUME NEW n \in 1..Len(rs) PROVE rs[n].line # line
      <4>1. rs[n].line = NoLine \/ rs[n].line \in 1..lines
        BY <2>7 DEF RecordInv, Records
      <4> QED
        BY <2>5, <4>1 DEF NoLine
    <3> QED
      BY <2>4, <3>1, <3>2
  <2>10. \/ S = T
         \/ /\ S = T \cup {e.line} /\ e.logged /\ e.start >= 0
            /\ \A i \in FieldBytes(e) : w.file[i].patch = Unpatched
    BY <2>4, <2>6
  <2> HIDE DEF S
  <2>11. Good(w, Append(rs, e), line, S)
    BY <1>2, <2>4, <2>5, <2>8, <2>9, <2>10, PushGood
  <2>12. records' = Append(rs, e) /\ lines' = line /\ trusted' = S /\ out' = w
    BY <1>9 DEF e, o, w, line, S, T
  <2> QED
    BY <1>1, <2>11, <2>12 DEF IInv
<1> QED
  BY <1>6, <1>8, <1>9

LEMMA EventGood ==
    ASSUME ~MayRunOut, IInv, NEW first \in 1..Len(records) + 1, NEW t \in TextSizes, Event(first, t)
    PROVE  IInv'
<1> DEFINE d == DepthBelow(first) + 1
           cells == format_event_into(lines + 1, d, t)
           before == reclaim_dead_records(out, first)
           rs == Truncated(first)
<1>1. TypeInv /\ TypeInv'
  BY EventTypes DEF IInv
<1>2. lines \in Nat /\ rs \in Seq(Records)
  BY <1>1, Typed, KeptRecords
<1>3. d \in Nat /\ t \in Nat
  BY <1>1, LineDepth, LayoutAssumption
<1>4. before \in Outs /\ Good(before, rs, lines, trusted)
  BY ReclaimGood
<1>5. /\ records' = rs /\ trusted' = trusted
      /\ \E g \in get_thread_fp(before) :
           \/ out' = g.o /\ lines' = lines
           \/ g.o.fp /\ out' \in AppendLine(g.o, cells) /\ lines' = lines + 1
  BY DEF Event
<1>6. /\ cells \in Seq(Byte)
      /\ \A i \in 1..Len(cells) : cells[i].line = lines + 1 /\ cells[i].patch = Unpatched
  <2> DEFINE line == lines + 1
  <2>1. line \in Nat
    BY <1>2
  <2> HIDE DEF line, d
  <2>2. /\ format_event_into(line, d, t) \in Seq(Byte)
        /\ \A i \in 1..Len(format_event_into(line, d, t)) :
             format_event_into(line, d, t)[i] = [line |-> line, part |-> "event", patch |-> Unpatched]
    BY <1>3, <2>1, EventLine
  <2> QED
    BY <2>2 DEF line
<1> HIDE DEF before, rs, cells, d
<1>7. PICK g \in get_thread_fp(before) :
        \/ out' = g.o /\ lines' = lines
        \/ g.o.fp /\ out' \in AppendLine(g.o, cells) /\ lines' = lines + 1
  BY <1>5
<1>8. g.o \in Outs /\ Good(g.o, rs, lines, trusted)
  BY <1>2, <1>4, OpenGood
<1>9. CASE out' = g.o /\ lines' = lines
  BY <1>1, <1>5, <1>8, <1>9 DEF IInv
<1>10. CASE g.o.fp /\ out' \in AppendLine(g.o, cells) /\ lines' = lines + 1
  <2> DEFINE o == g.o
             w == out'
             line == lines + 1
             T == trusted
  <2>1. o \in Outs /\ Good(o, rs, lines, T) /\ FileInv(o) /\ o.fp /\ w \in AppendLine(o, cells)
    BY <1>8, <1>10 DEF Good, Lines
  <2>2. line \in Nat /\ lines <= line /\ line <= line /\ line > lines /\ lines \in Nat
    BY <1>2
  <2>3. \A i \in 1..Len(cells) : cells[i].line = line /\ cells[i].patch = Unpatched
    BY <1>6
  <2> HIDE DEF o, w, line, T
  <2>4. Appended(w, o, cells, line)
    BY <1>6, <2>1, <2>2, <2>3, AppendProperty
  <2>5. FileInv(w) /\ Prolongs(w.file, o.file, line) /\ (o.patchFd => w.patchFd)
    BY <2>1, <2>4 DEF FileInv, Appended
  <2>6. Good(w, rs, line, T)
    BY <1>2, <2>1, <2>2, <2>5, ProlongGood
  <2>7. out' = w /\ lines' = line /\ trusted' = T /\ records' = rs
    BY <1>5, <1>10 DEF w, line, T
  <2> QED
    BY <1>1, <2>6, <2>7 DEF IInv
<1> QED
  BY <1>7, <1>9, <1>10

LEMMA ExitGood ==
    ASSUME IInv, NEW index \in DOMAIN records, NEW e \in BOOLEAN, Exit(index, e)
    PROVE  IInv'
<1> DEFINE own == records[index]
           first == index + 1
           A == Reclaimed(out, first)
<1>1. TypeInv /\ TypeInv'
  BY ExitTypes DEF IInv
<1>2. /\ out \in Outs /\ records \in Seq(Records) /\ Len(records) \in Nat /\ lines \in Nat
      /\ index \in 1..Len(records) /\ own \in Records
  BY <1>1, Typed
<1>3. /\ index \in 1..Len(records) + 1 /\ first \in 1..Len(records) + 1
      /\ \A n \in index..Len(records) : n = index \/ n \in first..Len(records)
      /\ \A n \in first..Len(records) : n \in index..Len(records)
      /\ index \in index..Len(records)
  BY <1>2
<1>4. /\ Above(index) \in Outs /\ SameButBytes(Above(index), out)
      /\ Timed(index) \in Outs /\ SameButBytes(out', out)
  BY <1>1, ExitTypes
<1>5. Good(out, records, lines, trusted) /\ Lines(out, records, lines)
  BY DEF IInv, Good
<1>6. /\ Rewritten(Above(index).file, out.file, A)
      /\ \A i \in A : \E n \in first..Len(records) :
           records[n].logged /\ out.file[i].line = records[n].line
      /\ LogExceptions => \A n \in first..Len(records) :
           records[n].logged /\ records[n].start >= 0 => FieldBytes(records[n]) \subseteq A
  BY <1>2, <1>3, <1>5, ReclaimRewrites DEF Above
<1>7. RecordInv(own, out, lines) /\ RecordInv(own, Above(index), lines)
  <2>1. Lines(Above(index), records, lines)
    BY <1>4, <1>5, <1>6, RewrittenLines
  <2> QED
    BY <1>2, <1>5, <2>1 DEF Lines
<1>8. PICK F \in {{}, FieldBytes(own)} :
        /\ Rewritten(Timed(index).file, Above(index).file, F)
        /\ IF own.start >= 0 THEN F = FieldBytes(own) ELSE F = {}
  BY <1>2, <1>4, <1>7, PatchRewrites DEF Timed
<1>9. RecordInv(own, Timed(index), lines)
  <2>1. Timed(index).patchFd = Above(index).patchFd
    BY <1>1, ExitTypes DEF SameButBytes
  <2> QED
    BY <1>7, <1>8, <2>1, RewrittenLine DEF RecordInv
<1>10. PICK G \in {{}, GlyphBytes(own)} :
         /\ Rewritten(PatchGlyph(Timed(index), own).file, Timed(index).file, G)
         /\ own.start < 0 => G = {}
  BY <1>2, <1>4, <1>9, PatchRewrites
<1>11. /\ out' = IF ~own.logged THEN Above(index)
                 ELSE IF LogExceptions /\ e THEN PatchGlyph(Timed(index), own)
                 ELSE Timed(index)
       /\ records' = Truncated(index)
       /\ UNCHANGED <<lines, trusted>>
  BY DEF Exit, Above, Timed
<1> HIDE DEF A, own, first
<1>12. ASSUME NEW i \in FieldBytes(own) \cup GlyphBytes(own), own.start >= 0
       PROVE  out.file[i].line = own.line /\ own.logged
  <2>1. OwnLine(own, out.file)
    BY <1>7, <1>12 DEF RecordInv
  <2>2. own.logged
    BY <1>2, <1>7, <1>12 DEF RecordInv, Records
  <2> QED
    BY <2>1, <2>2 DEF OwnLine
<1>13. PICK B : /\ Rewritten(out'.file, out.file, B)
                /\ A \subseteq B
                /\ \A i \in B : i \in A \/ (own.logged /\ out.file[i].line = own.line)
                /\ own.logged /\ own.start >= 0 => FieldBytes(own) \subseteq B
  <2>1. CASE ~own.logged
    BY <1>6, <1>11, <2>1
  <2>2. CASE own.logged
    <3>1. \A i \in F \cup G : out.file[i].line = own.line
      <4>1. CASE own.start >= 0
        BY <1>8, <1>10, <1>12, <4>1
      <4>2. CASE ~(own.start >= 0)
        <5>1. own.start \in Int
          BY <1>2 DEF Records
        <5>2. F = {} /\ G = {}
          BY <1>8, <1>10, <4>2, <5>1
        <5> QED
          BY <5>2
      <4> QED
        BY <4>1, <4>2
    <3>2. Rewritten(Timed(index).file, out.file, A \cup F)
      BY <1>6, <1>8, RewrittenTwice
    <3>3. Rewritten(PatchGlyph(Timed(index), own).file, out.file, (A \cup F) \cup G)
      BY <1>10, <3>2, RewrittenTwice
    <3>4. CASE LogExceptions /\ e
      <4> WITNESS (A \cup F) \cup G
      <4> QED
        BY <1>8, <1>11, <2>2, <3>1, <3>3, <3>4
    <3>5. CASE ~(LogExceptions /\ e)
      <4> WITNESS A \cup F
      <4> QED
        BY <1>8, <1>11, <2>2, <3>1, <3>2, <3>5
    <3> QED
      BY <3>4, <3>5
  <2> QED
    BY <2>1, <2>2
<1>14. \A i \in B : \E n \in index..Len(records) :
         records[n].logged /\ out.file[i].line = records[n].line
  BY <1>3, <1>6, <1>13 DEF own
<1>15. LogElapsed /\ LogExceptions => \A n \in index..Len(records) :
         records[n].logged /\ records[n].start >= 0 => FieldBytes(records[n]) \subseteq B
  BY <1>3, <1>6, <1>13 DEF own
<1> DEFINE w == out'
           T == trusted
<1>16. /\ SameButBytes(w, out) /\ Rewritten(w.file, out.file, B) /\ Good(out, records, lines, T)
  BY <1>4, <1>5, <1>13
<1> HIDE DEF w, T
<1>17. Good(w, Truncated(index), lines, T)
  BY <1>2, <1>3, <1>14, <1>15, <1>16, PopGood
<1> QED
  BY <1>1, <1>11, <1>17 DEF IInv, w, T

LEMMA NextRunGood ==
    ASSUME IInv, NextRun
    PROVE  IInv'
<1>1. TypeInv'
  BY NextRunTypes DEF IInv
<1>2. LinesBelow(out.file, lines) /\ Clean(out.file)
  BY DEF IInv, Good, Lines
<1>3. /\ out' = Fresh(out.file) /\ records' = <<>> /\ Len(records') = 0 /\ trusted' = {} /\ lines' = lines
  BY EmptySeq DEF NextRun
<1>4. out'.file = out.file /\ FileInv(out')
  BY <1>3 DEF Fresh, FileInv
<1>5. Lines(out', records', lines')
  BY <1>2, <1>3, <1>4 DEF Lines
<1>6. DistinctLines(records') /\ Pending(out', records', trusted')
  BY <1>3 DEF DistinctLines, Pending
<1> QED
  BY <1>1, <1>3, <1>5, <1>6 DEF IInv, Good

LEMMA NextGood ==
    ASSUME TreesFit, ~MayRunOut
    PROVE  IInv /\ [Next]_vars => IInv'
<1> SUFFICES ASSUME IInv, [Next]_vars PROVE IInv'
  OBVIOUS
<1>1. CASE UNCHANGED vars
  <2>1. /\ out' = out /\ records' = records /\ lines' = lines /\ trusted' = trusted
    BY <1>1 DEF vars
  <2>2. TypeInv'
    BY NextTypes DEF IInv
  <2> QED
    BY <2>1, <2>2 DEF IInv
<1>2. ASSUME NEW first \in 1..Len(records) + 1, NEW t \in TextSizes, NEW filtered \in BOOLEAN,
             Enter(first, filtered, t)
      PROVE  IInv'
  BY <1>2, EnterGood
<1>3. ASSUME NEW first \in 1..Len(records) + 1, NEW t \in TextSizes, Event(first, t)
      PROVE  IInv'
  BY <1>3, EventGood
<1>4. ASSUME NEW index \in DOMAIN records, NEW e \in BOOLEAN, Exit(index, e)
      PROVE  IInv'
  BY <1>4, ExitGood
<1>5. CASE NextRun
  BY <1>5, NextRunGood
<1> QED
  BY <1>1, <1>2, <1>3, <1>4, <1>5 DEF Next
-------------------------------------------------------------------------------
(***************************************************************************)
(* Theorems.                                                               *)
(***************************************************************************)
\* The cursor the hooks keep instead of asking the file system is the end of
\* the file as long as it counts as valid, over failing opens, torn lines,
\* event lines, patches and any number of earlier runs.
THEOREM CursorIsExact ==
    ASSUME TreesFit, ~MayRunOut
    PROVE  Spec => []CursorIsEndOfFile
<1>1. IInv => CursorIsEndOfFile
  BY DEF IInv, Good, Lines, FileInv, CursorIsEndOfFile
<1> QED
  BY <1>1, InitGood, NextGood, PTL DEF Spec

\* Every patch lands on the duration field or the glyph of the line it was
\* made for, whichever hook makes it and however late: none reaches another
\* line, a header, an earlier run, or past the end of the file.
THEOREM PatchesStayOnTheirLine ==
    ASSUME TreesFit, ~MayRunOut
    PROVE  Spec => []PatchesHitTheirOwnLine
<1>1. IInv => PatchesHitTheirOwnLine
  <2> SUFFICES ASSUME IInv PROVE PatchesHitTheirOwnLine
    OBVIOUS
  <2>1. DOMAIN out.file = 1..Len(out.file)
    BY Typed, LenProperties DEF IInv, Outs
  <2>2. Clean(out.file)
    BY DEF IInv, Good, Lines
  <2> QED
    BY <2>1, <2>2 DEF Clean, PatchesHitTheirOwnLine
<1> QED
  BY <1>1, InitGood, NextGood, PTL DEF Spec

\* The lines of a run that still show "[  pending ]" are those of the frames
\* on the stack, so that what a crashed run leaves pending is its active call
\* chain: no frame that is gone stays pending, and no active one is settled.
THEOREM PendingIsTheCallChain ==
    ASSUME TreesFit, ~MayRunOut
    PROVE  Spec => []PendingWhileOnStack
<1>1. IInv => PendingWhileOnStack
  <2> SUFFICES ASSUME IInv, LogElapsed, LogExceptions, NEW line \in trusted
               PROVE  FieldPatched(line) <=> ~OnStack(line)
    BY DEF PendingWhileOnStack
  <2>1. /\ DOMAIN out.file = 1..Len(out.file) /\ DOMAIN records = 1..Len(records)
        /\ \A n \in 1..Len(records) : records[n] \in Records
    BY Typed, LenProperties DEF IInv, Outs
  <2>2. Pending(out, records, trusted) /\ Lines(out, records, lines)
    BY DEF IInv, Good
  <2>3. ~OnStack(line) => FieldPatched(line)
    BY <2>1, <2>2 DEF OnStack, FieldPatched, Pending
  <2>4. ASSUME NEW n \in 1..Len(records), records[n].line = line
        PROVE  ~FieldPatched(line)
    <3>1. records[n].start >= 0 /\ \A i \in FieldBytes(records[n]) : out.file[i].patch = Unpatched
      BY <2>2, <2>4 DEF Pending
    <3>2. OwnLine(records[n], out.file)
      BY <2>2, <3>1 DEF Lines, RecordInv
    <3>3. PICK i : i \in FieldBytes(records[n])
      <4>1. StampWidth \in Nat /\ FieldWidth \in Nat \ {0} /\ records[n].start \in Int
        BY <2>1, Widths DEF Records
      <4>2. records[n].start + StampWidth + 1 \in FieldBytes(records[n])
        BY <4>1 DEF FieldBytes
      <4> QED
        BY <4>2
    <3>4. /\ i \in DOMAIN out.file /\ out.file[i].line = line /\ out.file[i].part = "field"
          /\ out.file[i].patch = Unpatched
      BY <2>1, <2>4, <3>1, <3>2, <3>3 DEF OwnLine
    <3> QED
      BY <3>4 DEF FieldPatched
  <2> QED
    BY <2>1, <2>3, <2>4 DEF OnStack
<1> QED
  BY <1>1, InitGood, NextGood, PTL DEF Spec
===============================================================================
