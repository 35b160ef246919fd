--------------------------- MODULE NandFileProofs ---------------------------
(***************************************************************************)
(* Lemmas about the files of NandFile: the arithmetic of blocks, and what  *)
(* reading and programming a page of a file changes.                       *)
(***************************************************************************)
EXTENDS NandFile, TLAPS

(* Multiples of BlockSize: their sums and differences, and the distance     *)
(* between two of them.                                                    *)
LEMMA Distributes ==
    ASSUME NEW a \in Int, NEW b \in Int, NEW c \in Int
    PROVE  a * (b + c) = a * b + a * c
OBVIOUS

\* Products of counts are counts.
LEMMA NatProduct == ASSUME NEW m \in Nat, NEW n \in Nat PROVE m * n \in Nat
OBVIOUS

\* A multiple of the block size begins a block,
LEMMA MultipleIsAligned ==
    ASSUME NEW x \in Nat, NEW q \in Nat, x = BlockSize * q
    PROVE  x % BlockSize = 0
BY NandFileAssumption

\* and what begins a block is a multiple.
LEMMA AlignedIsMultiple ==
    ASSUME NEW x \in Nat, x % BlockSize = 0
    PROVE  x = BlockSize * (x \div BlockSize) /\ x \div BlockSize \in Nat
BY NandFileAssumption

\* What begins a block lies in a later one than whatever comes before it.
LEMMA DivIncreases ==
    ASSUME NEW x \in Nat, NEW y \in Nat, x < y, y % BlockSize = 0
    PROVE  x \div BlockSize < y \div BlockSize
BY NandFileAssumption

\* Blocks follow each other as their pages do.
LEMMA DivMonotone ==
    ASSUME NEW x \in Nat, NEW y \in Nat, x <= y
    PROVE  x \div BlockSize <= y \div BlockSize
BY NandFileAssumption

\* Whole blocks added up are whole blocks.
LEMMA AlignedSum ==
    ASSUME NEW x \in Nat, NEW y \in Nat, x % BlockSize = 0, y % BlockSize = 0
    PROVE  (x + y) % BlockSize = 0
<1>. DEFINE i == x \div BlockSize
            j == y \div BlockSize
<1>1. x = BlockSize * i /\ y = BlockSize * j /\ i \in Nat /\ j \in Nat
  BY AlignedIsMultiple
<1>. HIDE DEF i, j
<1>2. x + y = BlockSize * (i + j) /\ i + j \in Nat
  BY <1>1, NandFileAssumption, Distributes
<1>3. QED
  BY <1>2, MultipleIsAligned

\* So are whole blocks taken away.
LEMMA AlignedDifference ==
    ASSUME NEW x \in Nat, NEW y \in Nat, x % BlockSize = 0, y % BlockSize = 0, y <= x
    PROVE  (x - y) % BlockSize = 0
<1>. DEFINE i == x \div BlockSize
            j == y \div BlockSize
<1>1. x = BlockSize * i /\ y = BlockSize * j /\ i \in Nat /\ j \in Nat /\ j <= i
  BY AlignedIsMultiple, DivMonotone
<1>. HIDE DEF i, j
<1>2. x - y = BlockSize * (i - j) /\ i - j \in Nat
  BY <1>1, NandFileAssumption, Distributes
<1>3. QED
  BY <1>2, MultipleIsAligned

\* Two beginnings of blocks are at least a block apart.
LEMMA AlignedApart ==
    ASSUME NEW x \in Nat, NEW y \in Nat, x % BlockSize = 0, y % BlockSize = 0, x < y
    PROVE  x + BlockSize <= y
<1>. DEFINE i == x \div BlockSize
            j == y \div BlockSize
<1>1. x = BlockSize * i /\ y = BlockSize * j /\ i \in Nat /\ j \in Nat
  BY AlignedIsMultiple
<1>2. i < j
  BY DivIncreases
<1>. HIDE DEF i, j
<1>3. BlockSize * (j - i - 1) \in Nat
  BY <1>1, <1>2, NandFileAssumption, NatProduct
<1>4. /\ BlockSize * (j - i - 1) = BlockSize * (j - i) - BlockSize
      /\ BlockSize * (j - i) = BlockSize * j - BlockSize * i
  BY <1>1, NandFileAssumption, Distributes
<1>5. QED
  BY <1>1, <1>3, <1>4, NandFileAssumption

(* The pages of the block that begins at a are a .. a + BlockSize - 1.     *)
LEMMA BlockPages ==
    ASSUME NEW a \in Pages, a % BlockSize = 0, NEW p \in Pages
    PROVE  /\ p \in BlockOf(a) <=> a <= p /\ p < a + BlockSize
           /\ a + BlockSize <= AreaSize
<1>1. a \in Nat /\ p \in Nat /\ a < AreaSize
  BY NandFileAssumption DEF Pages
<1>2. (a + BlockSize) % BlockSize = 0
  <2>1. BlockSize = BlockSize * 1 /\ BlockSize \in Nat
    BY NandFileAssumption
  <2>2. BlockSize % BlockSize = 0
    BY <2>1, MultipleIsAligned
  <2>3. QED
    BY <1>1, <2>1, <2>2, AlignedSum
<1>3. a + BlockSize \in Nat
  BY <1>1, NandFileAssumption
<1>4. a + BlockSize <= AreaSize
  BY <1>1, NandFileAssumption, AlignedApart
<1>. SUFFICES p \in BlockOf(a) <=> a <= p /\ p < a + BlockSize
  BY <1>4
<1>5. CASE p < a
  <2>1. p \div BlockSize < a \div BlockSize
    BY <1>1, <1>5, DivIncreases
  <2>2. p \div BlockSize \in Int /\ a \div BlockSize \in Int
    BY <1>1, NandFileAssumption
  <2>3. p \notin BlockOf(a)
    BY <2>1, <2>2 DEF BlockOf
  <2>4. QED
    BY <1>1, <1>5, <2>3
<1>6. CASE a <= p /\ p < a + BlockSize
  <2>1. a \div BlockSize <= p \div BlockSize
    BY <1>1, <1>6, DivMonotone
  <2>2. p \div BlockSize < (a + BlockSize) \div BlockSize
    BY <1>1, <1>2, <1>3, <1>6, DivIncreases
  <2>3. (a + BlockSize) \div BlockSize = a \div BlockSize + 1
    BY <1>1, NandFileAssumption
  <2>4. QED
    BY <1>1, <1>6, <2>1, <2>2, <2>3, NandFileAssumption DEF BlockOf
<1>7. CASE a + BlockSize <= p
  <2>1. a \div BlockSize < (a + BlockSize) \div BlockSize
    BY <1>1, <1>2, <1>3, DivIncreases, NandFileAssumption
  <2>2. (a + BlockSize) \div BlockSize <= p \div BlockSize
    BY <1>1, <1>3, <1>7, DivMonotone
  <2>3. QED
    BY <1>1, <1>7, <2>1, <2>2, NandFileAssumption DEF BlockOf
<1>8. QED
  BY <1>1, <1>3, <1>5, <1>6, <1>7

(* A page that does not begin a block is in the block of the one before.   *)
LEMMA SameBlock ==
    ASSUME NEW a \in Pages, (a + 1) % BlockSize # 0
    PROVE  (a + 1) \div BlockSize = a \div BlockSize
BY NandFileAssumption DEF Pages

(***************************************************************************)
(* Addresses.                                                              *)
(***************************************************************************)
LEMMA WrapType ==
    ASSUME NEW a \in Nat, a < 2 * AreaSize
    PROVE  Wrap(a) \in Pages
BY NandFileAssumption DEF Wrap, Pages

\* The addresses a file is written to and read from are pages.
LEMMA Addresses ==
    ASSUME NEW g \in FileStructs
    PROVE  NewStart(g) \in Pages /\ WriteAddress(g) \in Pages /\ ReadAddress(g) \in Pages
BY NandFileAssumption DEF FileStructs, NewStart, WriteAddress, ReadAddress, Wrap, Pages

\* The end of a file keeps the FILE_STRUCT within its type,
LEMMA ReplacedType ==
    ASSUME NEW g \in FileStructs
    PROVE  /\ Replaced(g) \in FileStructs
           /\ Replaced(g).fsize = g.fsize /\ Replaced(g).fwritennum = 0
           /\ Replaced(g).fstartaddr = NewStart(g)
<1>1. NewStart(g) \in Pages
  BY Addresses
<1>2. NewStart(g) \in 0 .. AreaSize /\ 0 \in 0 .. AreaSize - 1
  BY <1>1, NandFileAssumption DEF Pages
<1>3. QED
  BY <1>1, <1>2 DEF FileStructs, Replaced

\* and so does fwrite_w.
LEMMA WrittenType ==
    ASSUME NEW g \in FileStructs
    PROVE  Written(g) \in FileStructs
<1>1. WriteAddress(g) \in Pages
  BY Addresses
<1>2. WriteAddress(g) + 1 \in 0 .. AreaSize
  BY <1>1, NandFileAssumption DEF Pages
<1>3. ~Completes(g) => g.fwritennum + 1 \in 0 .. AreaSize - 1
  BY NandFileAssumption DEF FileStructs, Completes
<1>4. CASE Completes(g)
  BY <1>4, ReplacedType DEF Written
<1>5. CASE ~Completes(g)
  BY <1>2, <1>3, <1>5 DEF FileStructs, Written
<1>6. QED
  BY <1>4, <1>5

\* So does fread_w.
LEMMA PageReadType ==
    ASSUME NEW g \in FileStructs
    PROVE  PageRead(g) \in FileStructs
<1>1. ReadAddress(g) \in Pages
  BY Addresses
<1>2. ReadAddress(g) + 1 \in 0 .. AreaSize /\ g.fstartaddr \in 0 .. AreaSize
      /\ 0 \in 0 .. AreaSize - 1
  BY <1>1, NandFileAssumption DEF Pages, FileStructs
<1>3. ~(g.freadnum + 1 >= g.fsize) => g.freadnum + 1 \in 0 .. AreaSize - 1
  BY NandFileAssumption DEF FileStructs
<1>4. QED
  BY <1>2, <1>3 DEF FileStructs, PageRead

(***************************************************************************)
(* What programming page a with c changes.                                 *)
(***************************************************************************)
LEMMA ProgrammedPages ==
    ASSUME NEW ar \in [Pages -> Contents], NEW a \in Pages, NEW c \in Data
    PROVE  /\ Programmed(ar, a, c) \in [Pages -> Contents]
           /\ Programmed(ar, a, c)[a] =
                 IF a % BlockSize = 0 \/ ar[a] = Erased THEN c ELSE Garbled
           /\ \A p \in Pages \ {a} :
                 Programmed(ar, a, c)[p] =
                    IF a % BlockSize = 0 /\ p \in BlockOf(a) THEN Erased ELSE ar[p]
<1>1. a \in BlockOf(a)
  BY DEF BlockOf
<1>2. c \in Contents /\ Erased \in Contents /\ Garbled \in Contents
  BY DEF Contents
<1>3. CASE a % BlockSize = 0
  <2>1. Programmed(ar, a, c) =
          [[p \in Pages |-> IF p \in BlockOf(a) THEN Erased ELSE ar[p]]
             EXCEPT ![a] = IF @ = Erased THEN c ELSE Garbled]
    BY <1>3 DEF Programmed
  <2>2. QED
    BY <1>1, <1>2, <1>3, <2>1
<1>4. CASE a % BlockSize # 0
  <2>1. Programmed(ar, a, c) = [ar EXCEPT ![a] = IF @ = Erased THEN c ELSE Garbled]
    BY <1>4 DEF Programmed
  <2>2. QED
    BY <1>2, <1>4, <2>1
<1>5. QED
  BY <1>3, <1>4
=============================================================================
