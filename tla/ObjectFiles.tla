----------------------------- MODULE ObjectFiles -----------------------------
(***************************************************************************)
(* src/src/backtraceExtension.c: how an object file, its separate debug    *)
(* files and their dwz alt files come to be read.  cslg_backtrace_add_file *)
(* opens the object and hands it to libbacktrace's elf_add (external),     *)
(* which opens further files through cslg_open_checked.  A file is opened  *)
(* only when cslg_elf_layout_fits_file has found every range elf_add will  *)
(* map inside it.                                                          *)
(*                                                                         *)
(* What a file says is chosen where the code reads it.  Numbers are the    *)
(* unsigned words of the code, with fewer bits: they wrap at Word.         *)
(***************************************************************************)
EXTENDS Integers, Sequences, SequencesExt

CONSTANTS
    Word,           \* 2^64: words wrap here
    HeaderSize,     \* sizeof(b_elf_ehdr)
    EntrySize,      \* sizeof(b_elf_shdr)
    MaxHeaders,     \* CSLG_MAX_SECTION_HEADERS
    XIndex,         \* SHN_XINDEX: the index is in section header 0
    OldXIndexes,    \* [index old binutils wrote 0x100 too high -> the index meant]
    NoteHeader,     \* CSLG_NOTE_HEADER_SIZE
    NameSize,       \* strlen(CSLG_MINIDEBUGINFO_SECTION) + 1
    FileSizes,      \* inputs: sizes of files
    Words,          \* inputs: offsets and sizes a file may state
    Counts,         \* inputs: numbers and indexes of sections it may state
    NoteSizes,      \* inputs: namesz and descsz of notes
    MaxOpens        \* bound: files opened by elf_add for one object

\* The types of sections, but SHT_NOBITS and SHT_NULL.
SectionTypes == {"progbits", "symtab", "dynsym", "note"}
SymbolTables == {"symtab", "dynsym"}

ASSUME ObjectFilesAssumption ==
    /\ {Word, HeaderSize, EntrySize, MaxHeaders, XIndex, NoteHeader, NameSize,
        MaxOpens} \subseteq Nat \ {0}
    /\ MaxHeaders * EntrySize < Word
    /\ FileSizes \cup Words \cup Counts \cup NoteSizes \subseteq 0 .. Word - 1
    /\ \A n, d \in NoteSizes : NoteHeader + n + d + 16 < Word
    /\ \A n \in DOMAIN OldXIndexes : OldXIndexes[n] \in Nat

VARIABLES
    pc,         \* where cslg_backtrace_add_file is
    asking,     \* the file to be opened: its kind, and whether by a relative name
    held,       \* the files elf_add is registering, innermost last, and whether
                \* the alt file each names is done with
    opens,      \* bound: files elf_add asked for
    last,       \* cslg_last_open
    elf,        \* what the layout check has read of the file
    read,       \* the bytes read last: from, length, the limit they should lie below,
                \* and the type of the section they are of
    state,      \* the lookup functions of the libbacktrace state
    result      \* what cslg_backtrace_add_file reports

ofVars == <<pc, asking, held, opens, last, elf, read, state, result>>

\* An object, debug files found by build ID and by .gnu_debuglink, an alt file:
\* the directories each may be known to be in, after symbolic links or before.
Directories ==
    [object |-> {"bin"}, by_build_id |-> {"debug", ".build-id"},
     by_link |-> {".debug"}, alt |-> {".dwz"}]
Kinds == DOMAIN Directories
NoDirectory == ""

NoNames == [type |-> "nobits", at |-> 0, size |-> 0]
Unread == [size |-> 0, shoff |-> 0, shnum |-> 0, shstrndx |-> 0, i |-> 0,
           own |-> FALSE, names |-> NoNames, len |-> 0, align |-> 4, offset |-> 0]
NothingAsked == [kind |-> "object", relative |-> FALSE]
NothingRead == [type |-> "headers", from |-> 0, length |-> 0, limit |-> 0]
NoResult == [ok |-> FALSE, symtab |-> FALSE, dwarf |-> FALSE, own |-> FALSE]
EmptyState == [syminfo |-> "nosyms", fileline |-> "nodebug"]

OFInit ==
    /\ pc = "idle" /\ asking = NothingAsked /\ held = <<>> /\ opens = 0
    /\ last = [directory |-> NoDirectory, own |-> FALSE]
    /\ elf = Unread /\ read = NothingRead
    /\ state = EmptyState /\ result = NoResult
-------------------------------------------------------------------------------
(***************************************************************************)
(* Opening.                                                                *)
(***************************************************************************)
\* cslg_backtrace_create_state, and cslg_backtrace_add_file up to its open.
AddFile ==
    /\ pc = "idle"
    /\ state' = EmptyState /\ result' = NoResult
    /\ last' = [last EXCEPT !.directory = NoDirectory]
    /\ asking' = NothingAsked /\ opens' = 0
    /\ pc' = "open"
    /\ UNCHANGED <<held, elf, read>>

\* A refused file counts as missing: for elf_add, or for the whole object.
Refuse ==
    /\ pc' = IF held = <<>> THEN "idle" ELSE "adding"
    /\ elf' = Unread
    /\ UNCHANGED <<asking, held, opens, state, result>>

\* cslg_open_checked: a relative name needs the directory of the file opened
\* last; the file has to exist and to be a regular one.
Open ==
    /\ pc = "open"
    /\ \/ /\ asking.relative => last.directory # NoDirectory
          /\ \E size \in FileSizes : elf' = [Unread EXCEPT !.size = size]
          /\ pc' = "header"
          /\ UNCHANGED <<asking, held, opens, state, result>>
       \/ Refuse
    /\ UNCHANGED <<last, read>>

\* cslg_remember_directory, and whether the file has symbols of its own.
Remembered(kind, own) == {[directory |-> d, own |-> own] : d \in Directories[kind]}

\* Mutant of KeptOnRefusal: the directory is taken before the check.
RememberedAnyway(kind) == Remembered(kind, FALSE)

\* What a refused file leaves in cslg_last_open.
KeptOnRefusal(kind) == {last}

RefuseChecked ==
    /\ Refuse
    /\ last' \in KeptOnRefusal(asking.kind)

Accept(own) ==
    /\ last' \in Remembered(asking.kind, own)
    /\ held' = Append(held, [kind |-> asking.kind, alt |-> FALSE])
    /\ result' = IF held = <<>> THEN [result EXCEPT !.own = own] ELSE result
    /\ elf' = Unread
    /\ pc' = "adding"
    /\ UNCHANGED <<asking, opens, state>>
-------------------------------------------------------------------------------
(***************************************************************************)
(* cslg_elf_layout_fits_file.                                              *)
(***************************************************************************)
\* Mutant of Fits: compares the end, which may wrap.
FitsWrapping(from, length, limit) == (from + length) % Word <= limit

\* The range lies below the limit, without computing its end.
Fits(from, length, limit) == from <= limit /\ length <= limit - from

Read(type, from, length, limit) ==
    read' = [type |-> type, from |-> from, length |-> length, limit |-> limit]

\* The ELF header.  Without section headers elf_add has nothing to map.
ReadHeader ==
    /\ pc = "header"
    /\ \/ /\ elf.size >= HeaderSize
          /\ Read("headers", 0, HeaderSize, elf.size)
          /\ \E shoff \in Words, shnum, shstrndx \in Counts, shentsize \in {EntrySize, EntrySize + 1} :
               IF shoff = 0 THEN Accept(FALSE)
               ELSE IF shentsize = EntrySize /\ Fits(shoff, EntrySize, elf.size)
               THEN /\ elf' = [elf EXCEPT !.shoff = shoff, !.shnum = shnum,
                                          !.shstrndx = shstrndx]
                    /\ pc' = IF shnum = 0 \/ shstrndx = XIndex THEN "header0" ELSE "table"
                    /\ UNCHANGED <<asking, held, opens, last, state, result>>
               ELSE RefuseChecked
       \/ /\ elf.size < HeaderSize
          /\ RefuseChecked /\ UNCHANGED read

\* elf_add's correction of an index old binutils wrote.
Corrected(index, shnum) ==
    IF index >= shnum /\ index \in DOMAIN OldXIndexes THEN OldXIndexes[index] ELSE index

\* Section header 0 holds what does not fit the ELF header.
ReadHeader0 ==
    /\ pc = "header0"
    /\ Read("headers", elf.shoff, EntrySize, elf.size)
    /\ \E sh_size, sh_link \in Counts :
         LET shnum == IF elf.shnum = 0 THEN sh_size ELSE elf.shnum
         IN  elf' = [elf EXCEPT
               !.shnum = shnum,
               !.shstrndx = IF @ = XIndex THEN Corrected(sh_link, shnum) ELSE @]
    /\ pc' = "table"
    /\ UNCHANGED <<asking, held, opens, last, state, result>>

\* The cap keeps the product from wrapping.
TableFits(shoff, shnum, size) ==
    shnum <= MaxHeaders /\ Fits(shoff, (shnum * EntrySize) % Word, size)

CheckTable ==
    /\ pc = "table"
    /\ IF /\ TableFits(elf.shoff, elf.shnum, elf.size)
          /\ elf.shstrndx # 0 /\ elf.shstrndx < elf.shnum
       THEN /\ Read("headers", elf.shoff, elf.shnum * EntrySize, elf.size)
            /\ pc' = "sections"
            /\ UNCHANGED <<asking, held, opens, last, elf, state, result>>
       ELSE RefuseChecked /\ UNCHANGED read

\* A section taken to have no bytes in the file: SHT_NOBITS or SHT_NULL.  Whatever
\* its header states, its range is not looked at; cslg_has_section_named finds
\* names in a name table of the second type.
SkipSection ==
    /\ \E names \in IF elf.i = elf.shstrndx
                    THEN {NoNames} \cup [type : {"null"}, at : Words, size : Words]
                    ELSE {elf.names} :
         elf' = [elf EXCEPT !.i = @ + 1, !.names = names]
    /\ UNCHANGED <<pc, asking, held, opens, last, read, state, result>>

\* Section i.
CheckSection ==
    /\ pc = "sections" /\ elf.i < elf.shnum
    /\ \/ SkipSection
       \/ \E type \in SectionTypes, sh_offset, sh_size \in Words :
            \E sh_link \in IF type \in SymbolTables THEN Counts ELSE {0},
               align \in IF type = "note" THEN {4, 8} ELSE {4} :
              IF \/ type \in SymbolTables /\ (sh_link = 0 \/ sh_link >= elf.shnum)
                 \/ ~Fits(sh_offset, sh_size, elf.size)
              THEN RefuseChecked /\ UNCHANGED read
              ELSE /\ Read(type, sh_offset, sh_size, elf.size)
                   /\ elf' = [elf EXCEPT
                        !.i = @ + 1, !.own = @ \/ type = "symtab",
                        !.names = IF elf.i = elf.shstrndx
                                  THEN [type |-> type, at |-> sh_offset, size |-> sh_size]
                                  ELSE @,
                        !.len = IF type = "note" THEN sh_size ELSE 0,
                        !.align = align, !.offset = 0]
                   /\ pc' = IF type = "note" /\ sh_size # 0 THEN "notes" ELSE pc
                   /\ UNCHANGED <<asking, held, opens, last, state, result>>

RoundedUp(n, align) == ((n + align - 1) \div align) * align

\* The descriptor ends within what is left of the section.
NoteFits(desc_offset, descsz) ==
    /\ desc_offset <= elf.len - elf.offset
    /\ descsz <= elf.len - elf.offset - desc_offset

\* cslg_notes_fit_section: one note, or the end of them.
CheckNote ==
    /\ pc = "notes"
    /\ IF elf.len < NoteHeader THEN RefuseChecked /\ UNCHANGED read
       ELSE IF elf.len - elf.offset < NoteHeader
       THEN /\ pc' = "sections"
            /\ UNCHANGED <<asking, held, opens, last, elf, read, state, result>>
       ELSE \E namesz, descsz \in NoteSizes :
              LET desc_offset == RoundedUp(NoteHeader + namesz, elf.align)
                  end == RoundedUp(desc_offset + descsz, elf.align)
              IN  IF ~NoteFits(desc_offset, descsz)
                  THEN RefuseChecked /\ UNCHANGED read
                  ELSE /\ Read("note", elf.offset + desc_offset, descsz, elf.len)
                       /\ IF end >= elf.len - elf.offset
                          THEN pc' = "sections" /\ UNCHANGED elf
                          ELSE elf' = [elf EXCEPT !.offset = @ + end] /\ UNCHANGED pc
                       /\ UNCHANGED <<asking, held, opens, last, state, result>>

\* The table is mapped as its header states it; a name in it should lie in the
\* table and in the file.
NamesLimit(names, size) == IF names.at + names.size <= size THEN names.at + names.size ELSE size

\* cslg_has_section_named, for MiniDebugInfo: a name is compared where it fits
\* the table, unless there is no table or it could not be mapped.
CheckNames ==
    /\ pc = "sections" /\ elf.i = elf.shnum
    /\ \/ Accept(elf.own) /\ UNCHANGED read
       \/ /\ ~elf.own /\ elf.names.type # "nobits"
          /\ \E offset \in Words :
               /\ offset < elf.names.size /\ elf.names.size - offset >= NameSize
               /\ Read(elf.names.type, elf.names.at + offset, NameSize,
                       NamesLimit(elf.names, elf.size))
          /\ \E found \in BOOLEAN : Accept(found)
-------------------------------------------------------------------------------
(***************************************************************************)
(* elf_add, as far as the code in src/ describes it, and its caller.       *)
(***************************************************************************)
\* A debug file of the object, by an absolute name; an alt file named in the
\* object, by an absolute name too, or in a debug file, which is registered
\* under the name "", by a relative one.  Several names are tried for an alt
\* file until one opens.
ElfAddOpens(kind) ==
    /\ pc = "adding" /\ opens < MaxOpens
    /\ \/ kind \in {"by_build_id", "by_link"} /\ Last(held).kind = "object"
       \/ kind = "alt" /\ Last(held).kind # "alt" /\ ~Last(held).alt
    /\ asking' = [kind |-> kind, relative |-> Last(held).kind # "object"]
    /\ opens' = opens + 1
    /\ pc' = "open"
    /\ UNCHANGED <<held, last, elf, read, state, result>>

\* A debug or alt file is registered, or found not to belong to the object.
ElfAddGoesOn ==
    /\ pc = "adding" /\ Len(held) > 1
    /\ held' = LET outer == Front(held)
               IN  IF Last(held).kind = "alt"
                   THEN [outer EXCEPT ![Len(outer)].alt = TRUE] ELSE outer
    /\ UNCHANGED <<pc, asking, opens, last, elf, read, state, result>>

\* Symbols are registered before the DWARF data is turned to: when that part
\* fails the file stays as a symbols-only module.
ElfAddReturns ==
    /\ pc = "adding" /\ Len(held) = 1
    /\ \E ok, symtab, dwarf \in BOOLEAN :
         LET found_dwarf == dwarf /\ ok
         IN  IF ~ok /\ ~symtab
             THEN UNCHANGED <<state, result>>
             ELSE /\ state' = [syminfo |-> IF symtab THEN "elf" ELSE state.syminfo,
                               fileline |-> IF found_dwarf THEN "dwarf" ELSE state.fileline]
                  /\ result' = [result EXCEPT !.ok = TRUE, !.symtab = symtab,
                                              !.dwarf = found_dwarf]
    /\ held' = <<>> /\ pc' = "idle"
    /\ UNCHANGED <<asking, opens, last, elf, read>>

OFNext ==
    \/ AddFile \/ Open
    \/ ReadHeader \/ ReadHeader0 \/ CheckTable \/ CheckSection \/ CheckNote \/ CheckNames
    \/ \E kind \in Kinds \ {"object"} : ElfAddOpens(kind)
    \/ ElfAddGoesOn \/ ElfAddReturns

OFSpec == OFInit /\ [][OFNext]_ofVars
-------------------------------------------------------------------------------
\* Nothing is read beyond the end of the file, of a note's section or of the name
\* table, whatever the file's words say; sums and products of them may wrap.  A
\* name table typed SHT_NULL is left out: its range is never compared.
ReadsStayInside == read.type # "null" => read.from + read.length <= read.limit

\* "every file elf.c opens is checked", so that what lies beyond the end of a
\* truncated file is refused "instead of a crash in the hook": no exception.
EveryReadStaysInside == read.from + read.length <= read.limit

\* A relative .gnu_debugaltlink is looked up in the directory of the file that
\* holds it: not of an object registered before, nor of a candidate that was
\* refused in between.  cslg_last_open is one static shared by nested opens.
AltLinksAreReadBesideTheirFile ==
    pc = "open" /\ asking.relative => last.directory \in Directories[Last(held).kind]
===============================================================================
