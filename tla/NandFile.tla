------------------------------ MODULE NandFile ------------------------------
(***************************************************************************)
(* A file of the NAND: its FILE_STRUCT and the pages of its area.           *)
(*                                                                         *)
(* An area is a ring of pages.  A file is replaced by writing the next one *)
(* RegionSize pages after the beginning of it, over whatever is there.     *)
(* fwrite_w and fread_w work page by page and find their place in the      *)
(* FILE_STRUCT: fwritennum and freadnum say how far the writer and the     *)
(* reader are, but the address fcuraddr is one for both.                   *)
(***************************************************************************)
EXTENDS Integers

CONSTANTS
    AreaSize,    \* faddrmax - faddrmin, in pages
    RegionSize,  \* fsizemax, in pages
    BlockSize,   \* pages in a block of the flash, which is erased as a whole
    Data,        \* what can be written to a page
    Erased,      \* what an erased page holds: it can be programmed
    Garbled      \* what a page holds that was programmed twice

ASSUME NandFileAssumption ==
    /\ AreaSize \in Nat /\ RegionSize \in Nat \ {0} /\ BlockSize \in Nat \ {0}
    /\ AreaSize >= 2 * RegionSize /\ AreaSize % BlockSize = 0
    /\ Erased # Garbled /\ {Erased, Garbled} \cap Data = {}

Pages == 0 .. AreaSize - 1
Contents == Data \cup {Erased, Garbled}

\* The fields of FILE_STRUCT, relative to faddrmin.  fnewstartaddr is always
\* RegionSize after fstartaddr (no bad blocks), hence no field.
FileStructs ==
    [fstartaddr : Pages, fcuraddr : 0 .. AreaSize,
     fsize : 1 .. AreaSize, flastsize : 1 .. AreaSize,
     fwritennum : 0 .. AreaSize - 1, freadnum : 0 .. AreaSize - 1]

\* Mutated form: the end of the area counts as a page.
WrapLate(a) == IF a > AreaSize THEN a - AreaSize ELSE a

Wrap(a) == IF a >= AreaSize THEN a - AreaSize ELSE a

\* get_newstartaddr.
NewStart(f) == Wrap(f.fstartaddr + RegionSize)

BlockOf(a) == {p \in Pages : p \div BlockSize = a \div BlockSize}

\* Mutated form: a page is programmed over what it holds and its block never erased.
ProgrammedUnerased(area, a, c) ==
    [area EXCEPT ![a] = IF @ = Erased THEN c ELSE Garbled]

\* The pages after c has been programmed at a: the first page of a block
\* erases the block, and a page that holds something is spoilt.
Programmed(area, a, c) ==
    LET fresh == IF a % BlockSize = 0
                 THEN [p \in Pages |-> IF p \in BlockOf(a) THEN Erased ELSE area[p]]
                 ELSE area
    IN [fresh EXCEPT ![a] = IF @ = Erased THEN c ELSE Garbled]

WriteAddress(f) == IF f.fwritennum = 0 THEN NewStart(f) ELSE Wrap(f.fcuraddr)

ReadAddress(f) == IF f.freadnum = 0 THEN f.fstartaddr ELSE Wrap(f.fcuraddr)

Completes(f) == f.fwritennum + 1 >= f.fsize

\* The last page of a file makes the new region current.
Replaced(f) ==
    [f EXCEPT !.fstartaddr = NewStart(f), !.fcuraddr = NewStart(f),
              !.fwritennum = 0, !.freadnum = 0]

\* fwrite_w of one page, when nobody else touches the FILE_STRUCT.
Written(f) ==
    IF Completes(f)
    THEN Replaced(f)
    ELSE [f EXCEPT !.fcuraddr = WriteAddress(f) + 1, !.fwritennum = @ + 1]

\* fread_w of one page.
PageRead(f) ==
    IF f.freadnum + 1 >= f.fsize
    THEN [f EXCEPT !.fcuraddr = f.fstartaddr, !.freadnum = 0]
    ELSE [f EXCEPT !.fcuraddr = ReadAddress(f) + 1, !.freadnum = @ + 1]

\* What the file table points to.
CurrentFile(f, area) == [i \in 1 .. f.fsize |-> area[Wrap(f.fstartaddr + i - 1)]]
=============================================================================
