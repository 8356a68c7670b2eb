------------------------------ MODULE TraceLines ------------------------------
(***************************************************************************)
(* The trace file of one thread, byte by byte: the lines the hooks of      *)
(* src/trace.cpp append through `fp', the byte cursor they keep, and the   *)
(* in-place patches (duration field, tree glyph) they later make through   *)
(* `patch_fd' at offsets derived from it.                                  *)
(*                                                                         *)
(* A byte is a cell that remembers which line and which part of the line   *)
(* it was written as, and which part of which line it was last patched as. *)
(* Which records a hook pops is FrameStack's business: here a hook pops    *)
(* any number of records from the top.  Widths are constants, so a small   *)
(* instance keeps the arithmetic of the real ones.                         *)
(***************************************************************************)
EXTENDS Integers, Sequences, FiniteSetsExt

CONSTANTS
    LogElapsed,     \* LOG_ELAPSED: lines carry a duration field
    LogExceptions,  \* LOG_EXCEPTIONS: lines of frames cut short are marked
    Capacity,       \* FORMAT_BUF_SIZE
    StampWidth,     \* TIMESTAMP_PREFIX_WIDTH
    FieldWidth,     \* DURATION_FIELD_WIDTH
    SegmentWidth,   \* TREE_SEGMENT_WIDTH
    TextSizes,      \* possible lengths of name and location of a line
    HeaderSize,     \* length of the run separator header
    Seekable,       \* lseek works on the trace file
    MayFail,        \* opens and line writes may fail
    TornSizes,      \* bytes of a failing write that may reach the file
    MayRunOut,      \* allocations may throw bad_alloc
    MaxRuns,        \* runs of the program appending to the same file
    MaxLines,       \* lines written
    MaxRecords      \* records on the frame stack

ASSUME LayoutAssumption ==
    /\ {LogElapsed, LogExceptions, Seekable, MayFail, MayRunOut} \subseteq BOOLEAN
    /\ {StampWidth, FieldWidth, SegmentWidth, HeaderSize} \subseteq Nat \ {0}
    /\ TextSizes \subseteq Nat /\ TornSizes \subseteq Nat
    /\ Capacity \in Nat /\ Capacity > StampWidth + FieldWidth + 1
    /\ MaxRuns \in Nat \ {0} /\ MaxLines \in Nat /\ MaxRecords \in Nat

VARIABLES
    out,        \* the thread's trace file and what t_state knows of it
    records,    \* t_state.frames: [logged, start, depth] and the line's number
    depth,      \* t_state.current_stack_depth
    lines,      \* lines written so far, all runs
    trusted,    \* history: call lines of this run that can be patched
    runs        \* runs started

vars == <<out, records, depth, lines, trusted, runs>>

NoLine == 0
Unpatched == [line |-> NoLine, part |-> "none"]
Parts == {"stamp", "field", "tree", "glyph", "text", "event", "header", "hole"}
Byte == [line : Nat, part : Parts,
         patch : [line : Nat, part : {"none", "field", "glyph"}]]

TypeOK ==
    /\ out \in [file : Seq(Byte), fp : BOOLEAN, patchFd : BOOLEAN,
                attempted : BOOLEAN, cursor : Nat, cursorValid : BOOLEAN,
                torn : BOOLEAN]
    /\ records \in Seq([logged : BOOLEAN, line : Nat, start : Int, depth : Nat])
    /\ depth \in Int
    /\ lines \in 0..MaxLines /\ trusted \subseteq 1..MaxLines
    /\ runs \in 1..MaxRuns

\* A fresh process: no file open yet, the cursor zero and valid.  `torn' is
\* history: some line of this run did not reach the file in full.
Fresh(file) == [file |-> file, fp |-> FALSE, patchFd |-> FALSE,
                attempted |-> FALSE, cursor |-> 0, cursorValid |-> TRUE,
                torn |-> FALSE]

Init ==
    /\ out = Fresh(<<>>)
    /\ records = <<>> /\ depth = -1
    /\ lines = 0 /\ trusted = {} /\ runs = 1
-------------------------------------------------------------------------------
(***************************************************************************)
(* The layout of a line: format_into and format_event_into.                *)
(***************************************************************************)
PrefixWidth == StampWidth + (IF LogElapsed THEN FieldWidth + 1 ELSE 0)

\* The tree segments that still fit (a segment needs a byte left after it).
SegmentsWritten(wanted) ==
    Min({wanted, (Capacity - PrefixWidth - 1) \div SegmentWidth})

\* The length of a line with `segments' tree segments, newline included: the
\* text is clamped to what is left of the buffer.
LineSize(segments, text) ==
    LET start == PrefixWidth + SegmentsWritten(segments) * SegmentWidth
    IN  start + Min({text, Capacity - start - 1}) + 1

\* tree_glyph_offset: where the glyph of a line at depth d >= 1 is patched.
OffsetAfterGlyph(d) == PrefixWidth + SegmentWidth * d
GlyphOffset(d) == PrefixWidth + SegmentWidth * (d - 1)

\* The glyph is the first byte of the last segment, when it still fits.
PartAt(i, d) ==
    IF i < StampWidth THEN "stamp"
    ELSE IF LogElapsed /\ i < StampWidth + FieldWidth THEN "field"
    ELSE IF d >= 1 /\ SegmentsWritten(d) = d /\ i = PrefixWidth + (d - 1) * SegmentWidth
         THEN "glyph"
    ELSE IF i < PrefixWidth + SegmentsWritten(d) * SegmentWidth THEN "tree"
    ELSE "text"

\* A call line at depth d, at most Capacity bytes.
format_into(line, d, text) ==
    [i \in 1 .. LineSize(d, text) |->
       [line |-> line, part |-> PartAt(i - 1, d), patch |-> Unpatched]]

\* An event line at depth d: the tree always ends in the "!! " segment.
format_event_into(line, d, text) ==
    [i \in 1 .. LineSize(Max({d, 1}), text) |->
       [line |-> line, part |-> "event", patch |-> Unpatched]]

Filler(size, part) ==
    [i \in 1..size |-> [line |-> NoLine, part |-> part, patch |-> Unpatched]]
-------------------------------------------------------------------------------
(***************************************************************************)
(* Patches.  `patches' maps bytes to what pwrite writes there last; past   *)
(* the end of the file it leaves a hole.                                   *)
(***************************************************************************)
PWrite(file, patches) ==
    LET end == Max({Len(file)} \cup DOMAIN patches)
        longer == file \o Filler(end - Len(file), "hole")
    IN  [i \in DOMAIN longer |->
           IF i \in DOMAIN patches THEN [longer[i] EXCEPT !.patch = patches[i]]
           ELSE longer[i]]

\* The bytes the patches of a record's line go to.
FieldBytes(record) ==
    IF LogElapsed
    THEN record.start + StampWidth + 1 .. record.start + StampWidth + FieldWidth
    ELSE {}
GlyphBytes(record) ==
    IF record.depth >= 1 THEN {record.start + GlyphOffset(record.depth) + 1} ELSE {}

\* patch_line_bytes, the record's own line being what it means to patch.
As(record, part) == [line |-> record.line, part |-> part]
CanPatch(o, record) == o.patchFd /\ record.start >= 0
patch_line_bytes(o, record, part, bytes) ==
    IF CanPatch(o, record)
    THEN [o EXCEPT !.file = PWrite(@, [i \in bytes |-> As(record, part)])]
    ELSE o

PatchField(o, record) == patch_line_bytes(o, record, "field", FieldBytes(record))
PatchGlyph(o, record) == patch_line_bytes(o, record, "glyph", GlyphBytes(record))

\* mark_frame_end of a frame whose exit hook never ran: the field, then the
\* glyph.
MarkGlyphOnly(o, record) ==
    [i \in IF record.logged /\ CanPatch(o, record) THEN GlyphBytes(record) ELSE {} |->
       As(record, "glyph")]
mark_frame_end(o, record) ==
    [i \in IF record.logged /\ CanPatch(o, record)
           THEN FieldBytes(record) \cup GlyphBytes(record) ELSE {} |->
       As(record, IF i \in GlyphBytes(record) THEN "glyph" ELSE "field")]

\* reclaim_dead_records: the records from position `first' up, top first, so
\* that the lowest record marking a byte is the last to do so.
reclaim_dead_records(o, first) ==
    LET marks == [n \in first .. Len(records) |-> mark_frame_end(o, records[n])]
        bytes == UNION {DOMAIN marks[n] : n \in DOMAIN marks}
        lowest(i) == Min({n \in DOMAIN marks : i \in DOMAIN marks[n]})
    IN  IF LogExceptions
        THEN [o EXCEPT !.file = PWrite(@, [i \in bytes |-> marks[lowest(i)][i]])]
        ELSE o

DepthBelow(first) ==
    depth - Cardinality({i \in first .. Len(records) : records[i].logged})
-------------------------------------------------------------------------------
(***************************************************************************)
(* get_thread_fp and open_this_thread_file: the possible states of `out'   *)
(* after it, with `threw' when bad_alloc left it.                          *)
(***************************************************************************)
\* What an appending write of `cells' may leave: all of it, or a part.
Written(file, cells) ==
    {file \o cells} \cup
    {file \o SubSeq(cells, 1, k) :
       k \in IF MayFail THEN {n \in TornSizes : n < Len(cells)} ELSE {}}

\* The cursor starts at the end of the file, whatever the header left there.
SeededFromFailedSeek(o) ==
    [o EXCEPT !.cursor = IF o.patchFd /\ Seekable THEN Len(o.file) ELSE -1]
SeededCursor(o) ==
    IF o.patchFd /\ Seekable
    THEN [o EXCEPT !.cursor = Len(o.file)]
    ELSE [o EXCEPT !.cursorValid = FALSE]

\* The path string, open() or fdopen() can fail; then no descriptor is kept.
\* Building the header string can throw when both descriptors are stored.
open_this_thread_file(before) ==
    LET tried == [before EXCEPT !.attempted = TRUE]
        descriptors == {[tried EXCEPT !.fp = TRUE, !.patchFd = p] :
                          p \in IF MayFail THEN BOOLEAN ELSE {TRUE}}
        opened == {SeededCursor([d EXCEPT !.file = f]) :
                     d \in descriptors,
                     f \in Written(before.file, Filler(HeaderSize, "header"))}
    IN  {[o |-> o, threw |-> FALSE] :
           o \in opened \cup (IF MayFail THEN {tried} ELSE {})}
        \cup (IF MayRunOut
              THEN {[o |-> o, threw |-> TRUE] : o \in descriptors \cup {tried}}
              ELSE {})

get_thread_fp(before) ==
    IF before.attempted THEN {[o |-> before, threw |-> FALSE]}
    ELSE open_this_thread_file(before)

\* fwrite of a line and the cursor bookkeeping that follows it.
AppendLineUnchecked(o, cells) ==
    {[o EXCEPT !.file = f, !.cursor = @ + Len(cells),
               !.torn = @ \/ f # o.file \o cells] : f \in Written(o.file, cells)}
AppendLine(o, cells) ==
    {IF f = o.file \o cells
     THEN [o EXCEPT !.file = f, !.cursor = @ + Len(cells)]
     ELSE [o EXCEPT !.file = f, !.cursorValid = FALSE, !.torn = TRUE] :
       f \in Written(o.file, cells)}
-------------------------------------------------------------------------------
(***************************************************************************)
(* The hooks.                                                              *)
(***************************************************************************)
Truncated(first) == SubSeq(records, 1, first - 1)

Unlogged == [logged |-> FALSE, line |-> NoLine, start |-> -1, depth |-> 0]

\* The record of the line written from o, leaving w.
LineRecord(o, w, d) ==
    [logged |-> TRUE, line |-> lines + 1,
     start |-> IF w.cursorValid THEN o.cursor ELSE -1,
     depth |-> IF w.cursorValid THEN d ELSE 0]

\* Patches of a line in this state of the file can be, and so must be, made.
Patchable(o) == o.patchFd /\ Seekable /\ ~o.torn

\* __cyg_profile_func_enter: reclaim the records from `first' up, get the file,
\* and unless the frame is filtered or something threw write its line.
Enter(first, filtered, text) ==
    LET d == DepthBelow(first) + 1
        cells == format_into(lines + 1, d, text)
    IN  /\ first <= MaxRecords
        /\ \E g \in get_thread_fp(reclaim_dead_records(out, first)) :
             \/ /\ filtered \/ g.threw \/ ~g.o.fp
                /\ out' = g.o
                /\ records' = Append(Truncated(first), Unlogged)
                /\ depth' = d - 1
                /\ UNCHANGED <<lines, trusted>>
             \/ /\ ~filtered /\ ~g.threw /\ g.o.fp
                /\ lines < MaxLines
                /\ out' \in AppendLine(g.o, cells)
                /\ records' = Append(Truncated(first), LineRecord(g.o, out', d))
                /\ depth' = d
                /\ lines' = lines + 1
                /\ trusted' = IF Patchable(out') THEN trusted \cup {lines + 1}
                              ELSE trusted
        /\ UNCHANGED runs

\* __cyg_profile_func_exit: the record at `index' is taken for the frame's own,
\* the ones above it are reclaimed.  The duration is patched in, and with
\* LOG_EXCEPTIONS the glyph too when an exception leaves the frame.
Exit(index, byException) ==
    LET own == records[index]
        above == reclaim_dead_records(out, index + 1)
        timed == PatchField(above, own)
    IN  /\ out' = IF ~own.logged THEN above
                  ELSE IF LogExceptions /\ byException THEN PatchGlyph(timed, own)
                  ELSE timed
        /\ records' = Truncated(index)
        /\ depth' = DepthBelow(index)
        /\ UNCHANGED <<lines, trusted, runs>>

\* on_throw, on_catch and on_terminate: a catch reclaims the records from
\* `first' up; then the event line is written below the innermost frame.
Event(first, text) ==
    LET cells == format_event_into(lines + 1, DepthBelow(first) + 1, text)
    IN  /\ LogExceptions
        /\ \E g \in get_thread_fp(reclaim_dead_records(out, first)) :
             \/ /\ g.threw \/ ~g.o.fp
                /\ out' = g.o
                /\ UNCHANGED lines
             \/ /\ ~g.threw /\ g.o.fp
                /\ lines < MaxLines
                /\ out' \in AppendLine(g.o, cells)
                /\ lines' = lines + 1
        /\ records' = Truncated(first)
        /\ depth' = DepthBelow(first)
        /\ UNCHANGED <<trusted, runs>>

\* The process ends, in any way and at any point, and the program is run again
\* with the same trace file.
NextRun ==
    /\ runs < MaxRuns
    /\ runs' = runs + 1
    /\ out' = Fresh(out.file)
    /\ records' = <<>> /\ depth' = -1
    /\ trusted' = {}
    /\ UNCHANGED lines

Next ==
    \/ \E first \in 1 .. Len(records) + 1, t \in TextSizes :
         \/ \E filtered \in BOOLEAN : Enter(first, filtered, t)
         \/ Event(first, t)
    \/ \E index \in DOMAIN records, e \in BOOLEAN : Exit(index, e)
    \/ NextRun

Spec == Init /\ [][Next]_vars
-------------------------------------------------------------------------------
(***************************************************************************)
(* Properties.                                                             *)
(***************************************************************************)
\* While the cursor counts as valid it is the real end of the file, over short
\* writes, event lines and earlier runs (trace.cpp: "True while `cursor'
\* provably matches the file's real end position").
CursorIsEndOfFile ==
    out.patchFd /\ out.cursorValid => out.cursor = Len(out.file)

\* Every byte patched so far was the field or the glyph of the very line the
\* patch was meant for: no other line, header or earlier run is ever touched
\* and the file never grows a hole (trace.cpp: "pfd only rewrites EXISTING
\* placeholder bytes").
PatchesHitTheirOwnLine ==
    \A i \in DOMAIN out.file :
      LET cell == out.file[i]
      IN  cell.patch # Unpatched =>
            cell.patch = [line |-> cell.line, part |-> cell.part]

OnStack(line) == \E i \in DOMAIN records : records[i].line = line

FieldPatched(line) ==
    \A i \in DOMAIN out.file :
      LET cell == out.file[i]
      IN  cell.line = line /\ cell.part = "field" => cell.patch # Unpatched

\* A line whose offset is known shows "[  pending ]" exactly as long as its
\* frame has a record: what a crashed run leaves pending is its active call
\* chain.  A failed write stops only the patching of later lines.  (Frames
\* without an exit hook are settled only in LOG_EXCEPTIONS builds.)
PendingWhileOnStack ==
    LogElapsed /\ LogExceptions =>
      \A line \in trusted : FieldPatched(line) <=> ~OnStack(line)
===============================================================================
