--------------------------- MODULE ObjectFilesProofs ---------------------------
(***************************************************************************)
(* Theorems about ObjectFiles, for every size of a word, of the ELF        *)
(* structures and of the files, and for whatever the files' words say: the *)
(* layout check reads nothing beyond what it has found to be there, but    *)
(* for a name table typed SHT_NULL, and a relative alt link is looked up   *)
(* beside the debug file that holds it.                                    *)
(***************************************************************************)
EXTENDS ObjectFiles, SequenceTheorems, TLAPS

(***************************************************************************)
(* The inductive invariant: types first.                                   *)
(***************************************************************************)
Types == {"headers", "nobits", "null"} \cup SectionTypes
NameTable == [type : Types, at : Nat, size : Nat]
Elf == [size : Nat, shoff : Nat, shnum : Nat, shstrndx : Nat, i : Nat,
        own : BOOLEAN, names : NameTable, len : Nat, align : {4, 8}, offset : Nat]
Span == [type : Types, from : Nat, length : Nat, limit : Nat]
Held == [kind : {"object", "by_build_id", "by_link", "alt"}, alt : BOOLEAN]
DebugKinds == {"by_build_id", "by_link"}
Checking == {"open", "header", "header0", "table", "sections", "notes"}

TypeInv ==
    /\ pc \in Checking \cup {"idle", "adding"}
    /\ asking \in [kind : {"object", "by_build_id", "by_link", "alt"}, relative : BOOLEAN]
    /\ held \in Seq(Held)
    /\ elf \in Elf
    /\ read \in Span

\* The name table, unless it is typed SHT_NULL, has been found inside the file.
NamesInv == elf.names.type # "null" => elf.names.at + elf.names.size <= elf.size

\* Section header 0 is read from a place that the ELF header's check has found
\* inside the file.
LayoutInv ==
    /\ ReadsStayInside /\ NamesInv
    /\ pc = "header0" => elf.shoff + EntrySize <= elf.size

(***************************************************************************)
(* elf_add nests: an object, at most one debug file of it, an alt file of  *)
(* the one or the other.                                                   *)
(***************************************************************************)
NestingInv ==
    /\ pc = "idle" => held = <<>>
    /\ \A k \in 2..Len(held) : held[k].kind \in DebugKinds => held[k - 1].kind = "object"
    /\ \A k \in 2..Len(held) : held[k].kind # "object"
    /\ pc = "adding" => held # <<>>

\* What is asked for belongs to the file that elf_add is registering.
AskingInv ==
    pc \in Checking =>
      /\ asking.kind = "object" <=> held = <<>>
      /\ asking.kind \in DebugKinds => Last(held).kind = "object"
      /\ asking.relative =>
           asking.kind = "alt" /\ Last(held).kind \in DebugKinds /\ ~Last(held).alt

\* While the alt file of a debug file is still to be looked for, cslg_last_open
\* tells where that debug file is.
DirectoryInv ==
    held # <<>> /\ Last(held).kind \in DebugKinds /\ ~Last(held).alt =>
      last.directory \in Directories[Last(held).kind]

IInv == TypeInv /\ LayoutInv /\ NestingInv /\ AskingInv /\ DirectoryInv
-------------------------------------------------------------------------------
(***************************************************************************)
(* Sequences: one element more, one element less.                          *)
(***************************************************************************)
LEMMA Pushed ==
    ASSUME NEW S, NEW s \in Seq(S), NEW e \in S
    PROVE  /\ Append(s, e) \in Seq(S) /\ Append(s, e) # <<>>
           /\ Len(s) \in Nat
           /\ Len(Append(s, e)) = Len(s) + 1
           /\ \A i \in 1..Len(s) : Append(s, e)[i] = s[i]
           /\ Append(s, e)[Len(s) + 1] = e
           /\ Last(Append(s, e)) = e
<1>1. /\ Append(s, e) \in Seq(S)
      /\ Len(Append(s, e)) = Len(s) + 1
      /\ \A i \in 1..Len(s) : Append(s, e)[i] = s[i]
      /\ Append(s, e)[Len(s) + 1] = e
  BY AppendProperties
<1>2. Len(s) \in Nat
  BY LenProperties
<1>3. Append(s, e) # <<>>
  BY <1>1, <1>2, EmptySeq
<1> QED
  BY <1>1, <1>2, <1>3 DEF Last

LEMMA Popped ==
    ASSUME NEW S, NEW s \in Seq(S), s # <<>>
    PROVE  /\ Front(s) \in Seq(S)
           /\ Len(s) \in Nat \ {0}
           /\ Len(Front(s)) = Len(s) - 1
           /\ \A i \in 1..(Len(s) - 1) : Front(s)[i] = s[i]
           /\ Last(s) = s[Len(s)] /\ Last(s) \in S
           /\ Len(s) > 1 => Front(s) # <<>> /\ Last(Front(s)) = s[Len(s) - 1]
<1>1. Len(s) \in Nat \ {0}
  BY EmptySeq, LenProperties
<1>2. \A i \in 1..(Len(s) - 1) : s[i] \in S
  BY <1>1, ElementOfSeq
<1>3. 1 \in Int /\ Len(s) - 1 \in Int
  BY <1>1
<1>4. /\ SubSeq(s, 1, Len(s) - 1) \in Seq(S)
      /\ Len(SubSeq(s, 1, Len(s) - 1)) = IF 1 <= Len(s) - 1 THEN Len(s) - 1 - 1 + 1 ELSE 0
      /\ \A i \in 1 .. Len(s) - 1 - 1 + 1 : SubSeq(s, 1, Len(s) - 1)[i] = s[1 + i - 1]
  BY <1>2, <1>3, SubSeqProperties
<1>5. \A i \in 1..(Len(s) - 1) : 1 + i - 1 = i /\ i \in 1 .. Len(s) - 1 - 1 + 1
  BY <1>1
<1>6. Front(s) \in Seq(S) /\ Len(Front(s)) = Len(s) - 1
  <2>1. \A n \in Nat \ {0} : (IF 1 <= n - 1 THEN n - 1 - 1 + 1 ELSE 0) = n - 1
    OBVIOUS
  <2> QED
    BY <1>1, <1>4, <2>1 DEF Front
<1>7. \A i \in 1..(Len(s) - 1) : Front(s)[i] = s[i]
  BY <1>4, <1>5 DEF Front
<1>8. Last(s) = s[Len(s)] /\ s[Len(s)] \in S
  BY <1>1, ElementOfSeq DEF Last
<1>9. ASSUME Len(s) > 1
      PROVE  Front(s) # <<>> /\ Last(Front(s)) = s[Len(s) - 1]
  <2>1. Len(s) - 1 \in 1..(Len(s) - 1) /\ Len(Front(s)) # 0
    BY <1>1, <1>6, <1>9
  <2>2. Last(Front(s)) = Front(s)[Len(s) - 1]
    BY <1>6 DEF Last
  <2> QED
    BY <1>6, <1>7, <2>1, <2>2, EmptySeq
<1> QED
  BY <1>1, <1>6, <1>7, <1>8, <1>9

(***************************************************************************)
(* The arithmetic of the check.                                            *)
(***************************************************************************)
LEMMA Sizes ==
    /\ Word \in Nat \ {0} /\ HeaderSize \in Nat /\ EntrySize \in Nat /\ MaxHeaders \in Nat
    /\ NoteHeader \in Nat /\ NameSize \in Nat
    /\ FileSizes \subseteq Nat /\ Words \subseteq Nat /\ Counts \subseteq Nat
    /\ NoteSizes \subseteq Nat
<1>1. FileSizes \cup Words \cup Counts \cup NoteSizes \subseteq 0 .. Word - 1 /\ Word \in Nat \ {0}
  BY ObjectFilesAssumption
<1>2. 0 .. Word - 1 \subseteq Nat
  BY <1>1
<1> QED
  BY <1>1, <1>2, ObjectFilesAssumption

\* A range that fits ends below the limit.
LEMMA FitsProperty ==
    ASSUME NEW from \in Nat, NEW length \in Nat, NEW limit \in Nat, Fits(from, length, limit)
    PROVE  from + length <= limit
BY DEF Fits

LEMMA ProductMonotone ==
    ASSUME NEW a \in Nat, NEW b \in Nat, NEW c \in Nat, a <= b
    PROVE  a * c <= b * c /\ a * c \in Nat
<1>1. PICK d \in Nat : b = a + d
  <2>1. b - a \in Nat /\ b = a + (b - a)
    OBVIOUS
  <2> QED
    BY <2>1
<1>2. (a + d) * c = a * c + d * c /\ a * c \in Nat /\ d * c \in Nat
  OBVIOUS
<1>3. \A x, y \in Nat : x <= x + y
  OBVIOUS
<1> QED
  BY <1>1, <1>2, <1>3

\* Under the cap the table's size is its true size: the product does not wrap.
LEMMA TableProperty ==
    ASSUME NEW shoff \in Nat, NEW shnum \in Nat, NEW size \in Nat, TableFits(shoff, shnum, size)
    PROVE  shnum * EntrySize \in Nat /\ shoff + shnum * EntrySize <= size
<1>1. shnum <= MaxHeaders /\ Fits(shoff, (shnum * EntrySize) % Word, size)
  BY DEF TableFits
<1>2. /\ shnum * EntrySize <= MaxHeaders * EntrySize /\ shnum * EntrySize \in Nat
      /\ MaxHeaders * EntrySize \in Nat
  BY <1>1, Sizes, ProductMonotone
<1>3. MaxHeaders * EntrySize < Word
  BY ObjectFilesAssumption
<1> DEFINE p == shnum * EntrySize
           q == MaxHeaders * EntrySize
<1>4. p \in Nat /\ p < Word
  <2>1. p \in Nat /\ q \in Nat /\ p <= q /\ q < Word
    BY <1>2, <1>3
  <2> HIDE DEF p, q
  <2> QED
    BY <2>1, Sizes
<1>5. Fits(shoff, p % Word, size)
  BY <1>1
<1> HIDE DEF p
<1>6. p % Word = p
  BY <1>4, Sizes
<1>7. shoff + p <= size
  BY <1>4, <1>5, <1>6, FitsProperty
<1> QED
  BY <1>4, <1>7 DEF p

LEMMA RoundedUpType ==
    ASSUME NEW n \in Nat, NEW align \in {4, 8}
    PROVE  RoundedUp(n, align) \in Nat
BY DEF RoundedUp
-------------------------------------------------------------------------------
(***************************************************************************)
(* The ends of a check.  A read that stays inside is the only one allowed. *)
(***************************************************************************)
ReadOK == read \in Span /\ ReadsStayInside

LEMMA ReadProperty ==
    ASSUME NEW type \in Types, NEW from \in Nat, NEW length \in Nat, NEW limit \in Nat,
           type # "null" => from + length <= limit, Read(type, from, length, limit)
    PROVE  ReadOK'
BY DEF Read, ReadOK, ReadsStayInside, Span

LEMMA SameRead ==
    ASSUME IInv, UNCHANGED read
    PROVE  ReadOK'
BY DEF IInv, TypeInv, LayoutInv, ReadsStayInside, ReadOK

LEMMA SameNames ==
    ASSUME IInv, elf'.names = elf.names, elf'.size = elf.size
    PROVE  NamesInv'
BY DEF IInv, LayoutInv, NamesInv

\* The check goes on.
LEMMA ChecksOn ==
    ASSUME IInv, pc \in Checking, pc' \in Checking, UNCHANGED <<asking, held, last>>,
           elf' \in Elf, NamesInv', ReadOK',
           pc' = "header0" => elf'.shoff + EntrySize <= elf'.size
    PROVE  IInv'
<1>1. TypeInv'
  BY DEF IInv, TypeInv, ReadOK
<1>2. LayoutInv'
  BY DEF LayoutInv, ReadOK
<1>3. NestingInv'
  BY DEF IInv, NestingInv, Checking
<1>4. AskingInv' /\ DirectoryInv'
  BY DEF IInv, AskingInv, DirectoryInv
<1> QED
  BY <1>1, <1>2, <1>3, <1>4 DEF IInv

LEMMA UnreadType ==
    /\ Unread \in Elf
    /\ Unread.names.type = "nobits" /\ Unread.names.at = 0 /\ Unread.names.size = 0
BY DEF Unread, NoNames, Elf, NameTable, Types

LEMMA ForgottenNames ==
    ASSUME elf' \in Elf, elf'.names = Unread.names
    PROVE  NamesInv'
BY UnreadType DEF NamesInv, Elf

LEMMA RefuseInv ==
    ASSUME IInv, pc \in Checking, Refuse, last' = last, ReadOK'
    PROVE  IInv'
<1>1. /\ pc' = IF held = <<>> THEN "idle" ELSE "adding"
      /\ elf' \in Elf /\ NamesInv' /\ UNCHANGED <<asking, held>>
  BY UnreadType, ForgottenNames DEF Refuse
<1>2. TypeInv'
  BY <1>1 DEF IInv, TypeInv, ReadOK
<1>3. LayoutInv'
  BY <1>1 DEF LayoutInv, ReadOK
<1>4. NestingInv'
  BY <1>1 DEF IInv, NestingInv
<1>5. AskingInv' /\ DirectoryInv'
  BY <1>1 DEF IInv, AskingInv, DirectoryInv, Checking
<1> QED
  BY <1>2, <1>3, <1>4, <1>5 DEF IInv

LEMMA RefuseCheckedInv ==
    ASSUME IInv, pc \in Checking, RefuseChecked, ReadOK'
    PROVE  IInv'
BY RefuseInv DEF RefuseChecked, KeptOnRefusal

LEMMA AcceptInv ==
    ASSUME IInv, pc \in Checking, NEW own, Accept(own), ReadOK'
    PROVE  IInv'
<1> DEFINE h == [kind |-> asking.kind, alt |-> FALSE]
<1>1. /\ last' \in Remembered(asking.kind, own)
      /\ held' = Append(held, h) /\ elf' \in Elf /\ pc' = "adding" /\ asking' = asking
      /\ NamesInv'
  BY UnreadType, ForgottenNames DEF Accept
<1>2. h \in Held /\ h.kind = asking.kind /\ ~h.alt /\ held \in Seq(Held)
  BY DEF IInv, TypeInv, Held
<1>3. last'.directory \in Directories[h.kind]
  BY <1>1, <1>2 DEF Remembered
<1> HIDE DEF h
<1>4. /\ held' \in Seq(Held) /\ held' # <<>> /\ Len(held) \in Nat
      /\ Len(held') = Len(held) + 1
      /\ \A i \in 1..Len(held) : held'[i] = held[i]
      /\ held'[Len(held) + 1] = h /\ Last(held') = h
  BY <1>1, <1>2, Pushed
<1>5. TypeInv'
  BY <1>1, <1>4 DEF IInv, TypeInv, ReadOK
<1>6. LayoutInv' /\ AskingInv'
  BY <1>1 DEF LayoutInv, AskingInv, ReadOK, Checking
<1>7. NestingInv'
  <2>1. ASSUME NEW k \in 2..Len(held')
        PROVE  /\ held'[k].kind \in DebugKinds => held'[k - 1].kind = "object"
               /\ held'[k].kind # "object"
    <3>1. CASE k \in 2..Len(held)
      <4>1. held'[k] = held[k] /\ held'[k - 1] = held[k - 1]
        <5>1. k \in 1..Len(held) /\ k - 1 \in 1..Len(held)
          BY <1>4, <3>1
        <5> QED
          BY <1>4, <5>1
      <4> QED
        BY <3>1, <4>1 DEF IInv, NestingInv
    <3>2. CASE k = Len(held) + 1
      <4>1. /\ k - 1 = Len(held) /\ Len(held) \in 1..Len(held) /\ Len(held) # 0
            /\ held'[Len(held)] = Last(held)
        <5>1. k - 1 = Len(held) /\ Len(held) \in 1..Len(held) /\ Len(held) # 0
          BY <1>4, <3>2
        <5> QED
          BY <1>4, <5>1 DEF Last
      <4>2. held # <<>>
        BY <1>2, <4>1, EmptySeq
      <4>3. /\ asking.kind # "object"
            /\ asking.kind \in DebugKinds => Last(held).kind = "object"
        BY <4>2 DEF IInv, AskingInv
      <4> QED
        BY <1>2, <1>4, <3>2, <4>1, <4>3
    <3> QED
      BY <1>4, <3>1, <3>2
  <2> QED
    BY <1>1, <1>4, <2>1 DEF NestingInv
<1>8. DirectoryInv'
  BY <1>3, <1>4 DEF DirectoryInv
<1> QED
  BY <1>5, <1>6, <1>7, <1>8 DEF IInv
-------------------------------------------------------------------------------
(***************************************************************************)
(* One lemma per action: opening and checking.                             *)
(***************************************************************************)
LEMMA InitInv == OFInit => IInv
<1> SUFFICES ASSUME OFInit PROVE IInv
  OBVIOUS
<1>1. held = <<>> /\ held \in Seq(Held) /\ Len(held) = 0
  BY EmptySeq DEF OFInit
<1>2. TypeInv /\ LayoutInv
  BY <1>1, UnreadType DEF OFInit, TypeInv, LayoutInv, ReadsStayInside, NamesInv, NothingAsked,
                          NothingRead, Span, Types, Elf
<1>3. NestingInv
  BY <1>1 DEF OFInit, NestingInv
<1> QED
  BY <1>1, <1>2, <1>3 DEF OFInit, IInv, AskingInv, DirectoryInv, Checking

LEMMA AddFileInv ==
    ASSUME IInv, AddFile
    PROVE  IInv'
<1>1. held = <<>> /\ held' = <<>> /\ pc' = "open" /\ asking' = NothingAsked
  BY DEF AddFile, IInv, NestingInv
<1>2. UNCHANGED <<elf, read>>
  BY DEF AddFile
<1>3. TypeInv' /\ LayoutInv'
  BY <1>1, <1>2 DEF IInv, TypeInv, LayoutInv, ReadsStayInside, NamesInv, NothingAsked, Checking
<1>4. NestingInv'
  BY <1>1, EmptySeq DEF NestingInv
<1> QED
  BY <1>1, <1>3, <1>4 DEF IInv, AskingInv, DirectoryInv, NothingAsked, DebugKinds

LEMMA OpenInv ==
    ASSUME IInv, Open
    PROVE  IInv'
<1>1. pc \in Checking /\ last' = last /\ ReadOK'
  BY SameRead DEF Open, Checking
<1>2. CASE Refuse
  BY <1>1, <1>2, RefuseInv
<1>3. CASE ~Refuse
  <2>1. PICK size \in FileSizes : elf' = [Unread EXCEPT !.size = size]
    BY <1>3 DEF Open
  <2>2. elf' \in Elf /\ elf'.names = Unread.names
    BY <2>1, UnreadType, Sizes DEF Elf
  <2>4. NamesInv'
    BY <2>2, ForgottenNames
  <2>3. pc' = "header" /\ UNCHANGED <<asking, held>>
    BY <1>3 DEF Open
  <2> QED
    BY <1>1, <2>2, <2>3, <2>4, ChecksOn DEF Checking
<1> QED
  BY <1>2, <1>3

LEMMA ReadHeaderInv ==
    ASSUME IInv, ReadHeader
    PROVE  IInv'
<1>1. pc \in Checking /\ elf \in Elf /\ elf.size \in Nat
  BY DEF ReadHeader, Checking, IInv, TypeInv, Elf
<1>0. elf.size < HeaderSize <=> ~(elf.size >= HeaderSize)
  BY <1>1, Sizes
<1>2. CASE elf.size < HeaderSize
  <2>1. RefuseChecked /\ UNCHANGED read
    BY <1>0, <1>2 DEF ReadHeader
  <2> QED
    BY <1>1, <2>1, SameRead, RefuseCheckedInv
<1>3. CASE elf.size >= HeaderSize
  <2>1. Read("headers", 0, HeaderSize, elf.size) /\ "headers" \in Types
    BY <1>0, <1>3 DEF ReadHeader, Types
  <2>2. ReadOK'
    BY <1>1, <1>3, <2>1, Sizes, ReadProperty
  <2>3. PICK shoff \in Words, shnum \in Counts, shstrndx \in Counts,
             shentsize \in {EntrySize, EntrySize + 1} :
          IF shoff = 0 THEN Accept(FALSE)
          ELSE IF shentsize = EntrySize /\ Fits(shoff, EntrySize, elf.size)
          THEN /\ elf' = [elf EXCEPT !.shoff = shoff, !.shnum = shnum,
                                     !.shstrndx = shstrndx]
               /\ pc' = IF shnum = 0 \/ shstrndx = XIndex THEN "header0" ELSE "table"
               /\ UNCHANGED <<asking, held, opens, last, state, result>>
          ELSE RefuseChecked
    BY <1>0, <1>3 DEF ReadHeader
  <2>4. CASE shoff = 0
    BY <1>1, <2>2, <2>3, <2>4, AcceptInv
  <2>5. CASE shoff # 0 /\ shentsize = EntrySize /\ Fits(shoff, EntrySize, elf.size)
    <3>1. /\ elf' = [elf EXCEPT !.shoff = shoff, !.shnum = shnum, !.shstrndx = shstrndx]
          /\ pc' \in {"header0", "table"} /\ UNCHANGED <<asking, held, last>>
      BY <2>3, <2>5
    <3>2. /\ elf' \in Elf /\ elf'.shoff = shoff /\ elf'.size = elf.size
          /\ elf'.names = elf.names
      BY <1>1, <3>1, Sizes DEF Elf
    <3>4. NamesInv'
      BY <3>2, SameNames
    <3>3. shoff + EntrySize <= elf.size
      BY <1>1, <2>5, Sizes, FitsProperty
    <3> QED
      BY <1>1, <2>2, <3>1, <3>2, <3>3, <3>4, ChecksOn DEF Checking
  <2>6. CASE shoff # 0 /\ ~(shentsize = EntrySize /\ Fits(shoff, EntrySize, elf.size))
    <3>1. RefuseChecked
      BY <2>3, <2>6
    <3> QED
      BY <1>1, <2>2, <3>1, RefuseCheckedInv
  <2> QED
    BY <2>4, <2>5, <2>6
<1> QED
  BY <1>0, <1>2, <1>3

LEMMA ReadHeader0Inv ==
    ASSUME IInv, ReadHeader0
    PROVE  IInv'
<1>1. /\ pc \in Checking /\ elf \in Elf /\ elf.size \in Nat /\ elf.shoff \in Nat
      /\ elf.shnum \in Nat /\ elf.shstrndx \in Nat
      /\ elf.shoff + EntrySize <= elf.size
  BY DEF ReadHeader0, Checking, IInv, TypeInv, LayoutInv, Elf
<1>0. Read("headers", elf.shoff, EntrySize, elf.size) /\ "headers" \in Types
  BY DEF ReadHeader0, Types
<1>2. ReadOK'
  BY <1>0, <1>1, Sizes, ReadProperty
<1>3. PICK sh_size \in Counts, sh_link \in Counts :
        LET shnum == IF elf.shnum = 0 THEN sh_size ELSE elf.shnum
        IN  elf' = [elf EXCEPT
              !.shnum = shnum,
              !.shstrndx = IF elf.shstrndx = XIndex THEN Corrected(sh_link, shnum)
                           ELSE elf.shstrndx]
  BY DEF ReadHeader0
<1> DEFINE shnum == IF elf.shnum = 0 THEN sh_size ELSE elf.shnum
           shstrndx == IF elf.shstrndx = XIndex THEN Corrected(sh_link, shnum) ELSE elf.shstrndx
<1>4. elf' = [elf EXCEPT !.shnum = shnum, !.shstrndx = shstrndx]
  BY <1>3
<1>5. shnum \in Nat
  BY <1>1, Sizes
<1>6. shstrndx \in Nat
  BY <1>1, Sizes, ObjectFilesAssumption DEF Corrected
<1> HIDE DEF shnum, shstrndx
<1>7. elf' \in Elf /\ elf'.names = elf.names /\ elf'.size = elf.size
  BY <1>1, <1>4, <1>5, <1>6 DEF Elf
<1>9. NamesInv'
  BY <1>7, SameNames
<1>8. pc' = "table" /\ UNCHANGED <<asking, held, last>>
  BY DEF ReadHeader0
<1> QED
  BY <1>1, <1>2, <1>7, <1>8, <1>9, ChecksOn DEF Checking

LEMMA CheckTableInv ==
    ASSUME IInv, CheckTable
    PROVE  IInv'
<1>1. /\ pc \in Checking /\ elf \in Elf /\ elf.size \in Nat /\ elf.shoff \in Nat
      /\ elf.shnum \in Nat
  BY DEF CheckTable, Checking, IInv, TypeInv, Elf
<1> DEFINE fits == /\ TableFits(elf.shoff, elf.shnum, elf.size)
                   /\ elf.shstrndx # 0 /\ elf.shstrndx < elf.shnum
<1>2. CASE fits
  <2>1. Read("headers", elf.shoff, elf.shnum * EntrySize, elf.size) /\ "headers" \in Types
    BY <1>2 DEF CheckTable, Types
  <2>2. elf.shnum * EntrySize \in Nat /\ elf.shoff + elf.shnum * EntrySize <= elf.size
    BY <1>1, <1>2, TableProperty
  <2>3. ReadOK'
    BY <1>1, <2>1, <2>2, ReadProperty
  <2>4. pc' = "sections" /\ UNCHANGED <<asking, held, last, elf>>
    BY <1>2 DEF CheckTable
  <2> QED
    BY <1>1, <2>3, <2>4, SameNames, ChecksOn DEF Checking
<1>3. CASE ~fits
  <2>1. RefuseChecked /\ UNCHANGED read
    BY <1>3 DEF CheckTable
  <2> QED
    BY <1>1, <2>1, SameRead, RefuseCheckedInv
<1> QED
  BY <1>2, <1>3

LEMMA CheckSectionInv ==
    ASSUME IInv, CheckSection
    PROVE  IInv'
<1>1. pc = "sections" /\ pc \in Checking /\ elf \in Elf
  BY DEF CheckSection, Checking, IInv, TypeInv
<1>2. /\ elf.size \in Nat /\ elf.i \in Nat /\ elf.own \in BOOLEAN
      /\ elf.names \in NameTable
  BY <1>1 DEF Elf
<1>3. CASE SkipSection
  <2>1. PICK names : /\ \/ names = NoNames
                        \/ names \in [type : {"null"}, at : Words, size : Words]
                        \/ names = elf.names
                     /\ elf' = [elf EXCEPT !.i = elf.i + 1, !.names = names]
    BY <1>3 DEF SkipSection
  <2>2. names \in NameTable
    BY <1>2, <2>1, Sizes DEF NameTable, NoNames, Types
  <2>3. elf' \in Elf /\ elf'.names = names /\ elf'.size = elf.size
    <3>1. elf' = [elf EXCEPT !.i = elf.i + 1, !.names = names] /\ elf.i + 1 \in Nat
      BY <1>2, <2>1
    <3> QED
      BY <1>1, <2>2, <3>1 DEF Elf
  <2>4. NamesInv'
    <3>1. CASE names = NoNames
      BY <1>2, <2>3, <3>1 DEF NamesInv, NoNames
    <3>2. CASE names \in [type : {"null"}, at : Words, size : Words]
      BY <2>3, <3>2 DEF NamesInv
    <3>3. CASE names = elf.names
      BY <2>3, <3>3, SameNames
    <3> QED
      BY <2>1, <3>1, <3>2, <3>3
  <2>5. UNCHANGED <<pc, asking, held, last, read>>
    BY <1>3 DEF SkipSection
  <2> QED
    BY <1>1, <2>3, <2>4, <2>5, SameRead, ChecksOn
<1>4. CASE ~SkipSection
  <2>1. PICK type \in SectionTypes, sh_offset \in Words, sh_size \in Words :
          \E sh_link \in IF type \in SymbolTables THEN Counts ELSE {0},
             align \in IF type = "note" THEN {4, 8} ELSE {4} :
            IF \/ type \in SymbolTables /\ (sh_link = 0 \/ sh_link >= elf.shnum)
               \/ ~Fits(sh_offset, sh_size, elf.size)
            THEN RefuseChecked /\ UNCHANGED read
            ELSE /\ Read(type, sh_offset, sh_size, elf.size)
                 /\ elf' = [elf EXCEPT
                      !.i = elf.i + 1, !.own = elf.own \/ type = "symtab",
                      !.names = IF elf.i = elf.shstrndx
                                THEN [type |-> type, at |-> sh_offset, size |-> sh_size]
                                ELSE elf.names,
                      !.len = IF type = "note" THEN sh_size ELSE 0,
                      !.align = align, !.offset = 0]
                 /\ pc' = IF type = "note" /\ sh_size # 0 THEN "notes" ELSE pc
                 /\ UNCHANGED <<asking, held, opens, last, state, result>>
    BY <1>4 DEF CheckSection
  <2>2. CASE RefuseChecked /\ UNCHANGED read
    BY <1>1, <2>2, SameRead, RefuseCheckedInv
  <2>3. CASE ~(RefuseChecked /\ UNCHANGED read)
    <3>1. PICK align \in {4, 8} :
            /\ Fits(sh_offset, sh_size, elf.size)
            /\ Read(type, sh_offset, sh_size, elf.size)
            /\ elf' = [elf EXCEPT
                 !.i = elf.i + 1, !.own = elf.own \/ type = "symtab",
                 !.names = IF elf.i = elf.shstrndx
                           THEN [type |-> type, at |-> sh_offset, size |-> sh_size]
                           ELSE elf.names,
                 !.len = IF type = "note" THEN sh_size ELSE 0,
                 !.align = align, !.offset = 0]
            /\ pc' = IF type = "note" /\ sh_size # 0 THEN "notes" ELSE pc
            /\ UNCHANGED <<asking, held, last>>
      BY <2>1, <2>3
    <3> DEFINE own == elf.own \/ type = "symtab"
               names == IF elf.i = elf.shstrndx
                        THEN [type |-> type, at |-> sh_offset, size |-> sh_size]
                        ELSE elf.names
               len == IF type = "note" THEN sh_size ELSE 0
    <3>2. /\ elf.i + 1 \in Nat /\ own \in BOOLEAN /\ names \in NameTable /\ len \in Nat
          /\ sh_offset \in Nat /\ sh_size \in Nat /\ type \in Types
      BY <1>2, Sizes DEF NameTable, Types
    <3>6. sh_offset + sh_size <= elf.size
      BY <1>2, <3>1, <3>2, FitsProperty
    <3>7. \/ names = [type |-> type, at |-> sh_offset, size |-> sh_size]
          \/ names = elf.names
      OBVIOUS
    <3>3. elf' = [elf EXCEPT !.i = elf.i + 1, !.own = own, !.names = names, !.len = len,
                             !.align = align, !.offset = 0]
      BY <3>1
    <3> HIDE DEF own, names, len
    <3>4. elf' \in Elf /\ elf'.names = names /\ elf'.size = elf.size
      BY <1>1, <3>2, <3>3 DEF Elf
    <3>5. ReadOK'
      BY <1>2, <3>1, <3>2, <3>6, ReadProperty
    <3>8. NamesInv'
      <4>1. CASE names = elf.names
        BY <3>4, <4>1, SameNames
      <4>2. CASE names = [type |-> type, at |-> sh_offset, size |-> sh_size]
        BY <3>4, <3>6, <4>2 DEF NamesInv
      <4> QED
        BY <3>7, <4>1, <4>2
    <3> QED
      BY <1>1, <3>1, <3>4, <3>5, <3>8, ChecksOn DEF Checking
  <2> QED
    BY <2>2, <2>3
<1> QED
  BY <1>3, <1>4

LEMMA CheckNoteInv ==
    ASSUME IInv, CheckNote
    PROVE  IInv'
<1>1. pc \in Checking /\ elf \in Elf
  BY DEF CheckNote, Checking, IInv, TypeInv
<1>2. elf.len \in Nat /\ elf.offset \in Nat /\ elf.align \in {4, 8}
  BY <1>1 DEF Elf
<1>3. CASE RefuseChecked /\ UNCHANGED read
  BY <1>1, <1>3, SameRead, RefuseCheckedInv
<1>4. CASE pc' = "sections" /\ UNCHANGED <<asking, held, last, elf, read>>
  BY <1>1, <1>4, SameRead, SameNames, ChecksOn DEF Checking
<1>5. CASE /\ ~(RefuseChecked /\ UNCHANGED read)
           /\ ~(pc' = "sections" /\ UNCHANGED <<asking, held, last, elf, read>>)
  <2>1. PICK namesz \in NoteSizes, descsz \in NoteSizes :
          LET desc_offset == RoundedUp(NoteHeader + namesz, elf.align)
              end == RoundedUp(desc_offset + descsz, elf.align)
          IN  /\ NoteFits(desc_offset, descsz)
              /\ Read("note", elf.offset + desc_offset, descsz, elf.len)
              /\ IF end >= elf.len - elf.offset
                 THEN pc' = "sections" /\ UNCHANGED elf
                 ELSE elf' = [elf EXCEPT !.offset = elf.offset + end] /\ UNCHANGED pc
              /\ UNCHANGED <<asking, held, last>>
    BY <1>5 DEF CheckNote
  <2> DEFINE desc_offset == RoundedUp(NoteHeader + namesz, elf.align)
             end == RoundedUp(desc_offset + descsz, elf.align)
  <2>2. NoteHeader + namesz \in Nat /\ descsz \in Nat
    BY Sizes
  <2>3. desc_offset \in Nat
    BY <1>2, <2>2, RoundedUpType
  <2>4. end \in Nat
    <3> HIDE DEF desc_offset
    <3>1. desc_offset + descsz \in Nat
      BY <2>2, <2>3
    <3> QED
      BY <1>2, <3>1, RoundedUpType
  <2>5. /\ NoteFits(desc_offset, descsz)
        /\ Read("note", elf.offset + desc_offset, descsz, elf.len)
        /\ \/ pc' = "sections" /\ UNCHANGED elf
           \/ elf' = [elf EXCEPT !.offset = elf.offset + end] /\ UNCHANGED pc
        /\ UNCHANGED <<asking, held, last>>
    BY <2>1
  <2> HIDE DEF desc_offset, end
  <2>6. ReadOK'
    <3>1. elf.offset + desc_offset \in Nat /\ elf.offset + desc_offset + descsz <= elf.len
      BY <1>2, <2>2, <2>3, <2>5 DEF NoteFits
    <3>2. "note" \in Types
      BY DEF Types, SectionTypes
    <3> QED
      BY <1>2, <2>2, <2>5, <3>1, <3>2, ReadProperty
  <2>7. elf' \in Elf /\ elf'.names = elf.names /\ elf'.size = elf.size
    <3>1. elf.offset + end \in Nat
      BY <1>2, <2>4
    <3> QED
      BY <1>1, <2>5, <3>1 DEF Elf
  <2>8. pc' \in {"sections", "notes"}
    BY <2>5 DEF CheckNote
  <2> QED
    BY <1>1, <2>5, <2>6, <2>7, <2>8, SameNames, ChecksOn DEF Checking
<1> QED
  BY <1>3, <1>4, <1>5

LEMMA CheckNamesInv ==
    ASSUME IInv, CheckNames
    PROVE  IInv'
<1>1. /\ pc \in Checking /\ elf \in Elf /\ elf.size \in Nat
      /\ elf.names \in NameTable
  BY DEF CheckNames, Checking, IInv, TypeInv, Elf
<1> DEFINE names == elf.names
<1>4. names.type \in Types /\ names.at \in Nat /\ names.size \in Nat
  BY <1>1 DEF NameTable
<1>2. CASE \E own : Accept(own) /\ UNCHANGED read
  BY <1>1, <1>2, SameRead, AcceptInv
<1>3. CASE ~\E own : Accept(own) /\ UNCHANGED read
  <2>1. PICK offset \in Words :
          /\ offset < names.size /\ names.size - offset >= NameSize
          /\ Read(names.type, names.at + offset, NameSize, NamesLimit(names, elf.size))
          /\ \E found \in BOOLEAN : Accept(found)
    BY <1>3 DEF CheckNames
  <2>2. offset \in Nat /\ NameSize \in Nat /\ names.at + offset \in Nat
    BY <1>4, Sizes
  <2>3. ReadOK'
    <3>1. names.type # "null" => names.at + names.size <= elf.size
      BY DEF IInv, LayoutInv, NamesInv
    <3>2. /\ NamesLimit(names, elf.size) \in Nat
          /\ names.type # "null" => NamesLimit(names, elf.size) = names.at + names.size
      BY <1>1, <1>4, <3>1 DEF NamesLimit
    <3> DEFINE limit == NamesLimit(names, elf.size)
    <3> HIDE DEF limit, names
    <3>3. names.type # "null" => names.at + offset + NameSize <= limit
      BY <1>4, <2>1, <2>2, <3>2 DEF limit
    <3>4. limit \in Nat /\ Read(names.type, names.at + offset, NameSize, limit)
      BY <2>1, <3>2 DEF limit
    <3> QED
      BY <1>4, <2>2, <3>3, <3>4, ReadProperty
  <2> QED
    BY <1>1, <2>1, <2>3, AcceptInv
<1> QED
  BY <1>2, <1>3
-------------------------------------------------------------------------------
(***************************************************************************)
(* elf_add and its caller.                                                 *)
(***************************************************************************)
LEMMA ElfAddOpensInv ==
    ASSUME IInv, NEW kind \in Kinds \ {"object"}, ElfAddOpens(kind)
    PROVE  IInv'
<1>1. /\ pc = "adding" /\ pc' = "open" /\ UNCHANGED <<held, last, elf, read>>
      /\ \/ kind \in {"by_build_id", "by_link"} /\ Last(held).kind = "object"
         \/ kind = "alt" /\ Last(held).kind # "alt" /\ ~Last(held).alt
      /\ asking' = [kind |-> kind, relative |-> Last(held).kind # "object"]
  BY DEF ElfAddOpens
<1>2. held \in Seq(Held) /\ held # <<>>
  BY <1>1 DEF IInv, TypeInv, NestingInv
<1>3. Last(held) \in Held
  BY <1>2, Popped
<1>4. /\ asking' \in [kind : {"object", "by_build_id", "by_link", "alt"}, relative : BOOLEAN]
      /\ asking'.kind = kind /\ asking'.relative = (Last(held).kind # "object")
      /\ kind # "object"
  BY <1>1
<1>5. TypeInv' /\ LayoutInv'
  BY <1>1, <1>4 DEF IInv, TypeInv, LayoutInv, ReadsStayInside, NamesInv, Checking
<1>6. NestingInv' /\ DirectoryInv'
  BY <1>1, <1>2 DEF IInv, NestingInv, DirectoryInv
<1>7. Last(held).kind \in {"object", "by_build_id", "by_link", "alt"}
  BY <1>3 DEF Held
<1>8. AskingInv'
  BY <1>1, <1>2, <1>4, <1>7 DEF AskingInv, DebugKinds
<1> QED
  BY <1>5, <1>6, <1>8 DEF IInv

LEMMA ElfAddGoesOnInv ==
    ASSUME IInv, ElfAddGoesOn
    PROVE  IInv'
<1> DEFINE outer == Front(held)
           n == Len(held) - 1
<1>1. /\ pc = "adding" /\ pc' = "adding" /\ UNCHANGED <<asking, last, elf, read>>
      /\ Len(held) > 1 /\ held \in Seq(Held) /\ held # <<>>
  BY DEF ElfAddGoesOn, IInv, TypeInv, NestingInv
<1>2. /\ outer \in Seq(Held) /\ Len(held) \in Nat /\ Len(outer) = n
      /\ \A i \in 1..n : outer[i] = held[i]
      /\ Last(held) = held[Len(held)] /\ Last(held) \in Held
      /\ outer # <<>> /\ Last(outer) = held[n]
  BY <1>1, Popped
<1>3. n \in Nat \ {0} /\ n \in 1..n /\ n + 1 = Len(held) /\ n + 1 \in 2..Len(held)
  BY <1>1, <1>2
<1>4. held[n] \in Held
  BY <1>1, <1>2, <1>3, ElementOfSeq
<1> DEFINE h == [held[n] EXCEPT !.alt = TRUE]
<1>5. h \in Held /\ h.kind = held[n].kind /\ h.alt
  BY <1>4 DEF Held
<1> HIDE DEF outer, n
<1>6. /\ held' \in Seq(Held) /\ Len(held') = n
      /\ \A i \in 1..n : held'[i] \in Held /\ held'[i].kind = held[i].kind
      /\ Last(held).kind = "alt" => held'[n].alt
  <2>1. CASE Last(held).kind = "alt"
    <3>1. held' = [outer EXCEPT ![n] = h]
      <4>1. held' = [outer EXCEPT ![Len(outer)].alt = TRUE]
        BY <2>1 DEF ElfAddGoesOn, outer
      <4> QED
        BY <1>2, <1>3, <4>1
    <3> HIDE DEF h
    <3>2. held' \in Seq(Held) /\ Len(held') = n /\ DOMAIN outer = 1..n
      BY <1>2, <1>3, <1>5, <3>1, ExceptSeq, LenProperties
    <3>3. held'[n] = h
      BY <1>3, <3>1, <3>2
    <3>4. \A i \in 1..n : i # n => held'[i] = held[i]
      BY <1>2, <3>1, <3>2
    <3>5. \A i \in 1..n : held[i] \in Held
      BY <1>1, <1>2, <1>3, ElementOfSeq
    <3> QED
      BY <1>5, <3>2, <3>3, <3>4, <3>5
  <2>2. CASE Last(held).kind # "alt"
    <3>1. held' = outer
      BY <2>2 DEF ElfAddGoesOn, outer
    <3>2. \A i \in 1..n : held[i] \in Held
      BY <1>1, <1>2, <1>3, ElementOfSeq
    <3> QED
      BY <1>2, <2>2, <3>1, <3>2
  <2> QED
    BY <2>1, <2>2
<1>7. held' # <<>> /\ Last(held') = held'[n]
  BY <1>3, <1>6, EmptySeq DEF Last
<1>8. TypeInv' /\ LayoutInv' /\ AskingInv'
  BY <1>1, <1>6 DEF IInv, TypeInv, LayoutInv, AskingInv, ReadsStayInside, NamesInv, Checking
<1>9. NestingInv'
  <2>1. ASSUME NEW k \in 2..Len(held')
        PROVE  /\ held'[k].kind \in DebugKinds => held'[k - 1].kind = "object"
               /\ held'[k].kind # "object"
    <3>1. k \in 1..n /\ k - 1 \in 1..n /\ k \in 2..Len(held)
      BY <1>3, <1>6
    <3> QED
      BY <1>6, <3>1 DEF IInv, NestingInv
  <2> QED
    BY <1>1, <1>7, <2>1 DEF NestingInv
<1>10. DirectoryInv'
  <2>1. CASE Last(held).kind = "alt"
    BY <1>6, <1>7, <2>1 DEF DirectoryInv
  <2>2. CASE Last(held).kind \in DebugKinds
    <3>1. held[n + 1 - 1].kind = "object" /\ n + 1 - 1 = n
      BY <1>2, <1>3, <2>2 DEF IInv, NestingInv
    <3> QED
      BY <1>3, <1>6, <1>7, <3>1 DEF DirectoryInv, DebugKinds
  <2>3. Last(held).kind \in DebugKinds \cup {"alt"}
    BY <1>2, <1>3 DEF IInv, NestingInv, Held, DebugKinds
  <2> QED
    BY <2>1, <2>2, <2>3
<1> QED
  BY <1>8, <1>9, <1>10 DEF IInv

LEMMA ElfAddReturnsInv ==
    ASSUME IInv, ElfAddReturns
    PROVE  IInv'
<1>1. held' = <<>> /\ pc' = "idle" /\ UNCHANGED <<asking, elf, read>>
  BY DEF ElfAddReturns
<1>2. held' \in Seq(Held) /\ Len(held') = 0
  BY <1>1, EmptySeq
<1> QED
  BY <1>1, <1>2 DEF IInv, TypeInv, LayoutInv, ReadsStayInside, NamesInv, NestingInv, AskingInv,
                    DirectoryInv, Checking

LEMMA NextInv ==
    ASSUME IInv, [OFNext]_ofVars
    PROVE  IInv'
<1>1. CASE UNCHANGED ofVars
  BY <1>1 DEF ofVars, IInv, TypeInv, LayoutInv, ReadsStayInside, NamesInv, NestingInv, AskingInv,
              DirectoryInv
<1>2. CASE OFNext
  BY <1>2, AddFileInv, OpenInv, ReadHeaderInv, ReadHeader0Inv, CheckTableInv,
     CheckSectionInv, CheckNoteInv, CheckNamesInv, ElfAddOpensInv, ElfAddGoesOnInv,
     ElfAddReturnsInv DEF OFNext
<1> QED
  BY <1>1, <1>2

LEMMA Invariance == OFSpec => []IInv
BY InitInv, NextInv, PTL DEF OFSpec
-------------------------------------------------------------------------------
(***************************************************************************)
(* The theorems.                                                           *)
(***************************************************************************)
\* Whatever an object file, a separate debug file or an alt file says of itself,
\* cslg_elf_layout_fits_file reads no byte beyond the file, the section of notes
\* or the name table, but where that table is typed SHT_NULL: no sum and no product
\* it compares has wrapped.
THEOREM ChecksReadInside == OFSpec => []ReadsStayInside
<1>1. IInv => ReadsStayInside
  BY DEF IInv, LayoutInv
<1> QED
  BY <1>1, Invariance, PTL

\* However opens nest and whichever candidates are refused in between, a relative
\* .gnu_debugaltlink is looked up in the directory of the debug file that elf_add
\* is registering.
THEOREM AltLinksBesideTheirFile == OFSpec => []AltLinksAreReadBesideTheirFile
<1>1. IInv => AltLinksAreReadBesideTheirFile
  <2> SUFFICES ASSUME IInv, pc = "open", asking.relative
               PROVE  last.directory \in Directories[Last(held).kind]
    BY DEF AltLinksAreReadBesideTheirFile
  <2>1. held # <<>> /\ Last(held).kind \in DebugKinds /\ ~Last(held).alt
    BY DEF IInv, AskingInv, Checking
  <2> QED
    BY <2>1 DEF IInv, DirectoryInv
<1> QED
  BY <1>1, Invariance, PTL
===============================================================================
