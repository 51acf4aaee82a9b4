--------------------------- MODULE PairStoreProofs ---------------------------
(***************************************************************************)
(* Proofs about the bond table for every set of slaves, table size, sector *)
(* size and way a power failure may tear an erase: the boot traps only in  *)
(* a sector that a power failure left unreadable and that was not erased   *)
(* since, and but for such a sector an idle main loop has the same bonds   *)
(* in RAM and in flash, those that were made and not removed.              *)
(***************************************************************************)
EXTENDS PairStore, FiniteSetTheorems, SequenceTheorems, TLAPS

(* RemoveAt moves the later entries up by one.                             *)
LEMMA RemoveAtFacts ==
  ASSUME NEW S, NEW t \in Seq(S), NEW i \in 1 .. Len(t)
  PROVE  /\ RemoveAt(t, i) \in Seq(S)
         /\ Len(RemoveAt(t, i)) = Len(t) - 1
         /\ \A j \in 1 .. (Len(t) - 1) :
              RemoveAt(t, i)[j] = IF j < i THEN t[j] ELSE t[j + 1]
<1> DEFINE a == SubSeq(t, 1, i - 1)
           b == SubSeq(t, i + 1, Len(t))
<1>0. Len(t) \in Nat
  OBVIOUS
<1>1. /\ a \in Seq(S) /\ Len(a) = i - 1
      /\ \A j \in 1 .. (i - 1) : a[j] = t[j]
  BY <1>0, SubSeqProperties
<1>2. /\ b \in Seq(S) /\ Len(b) = Len(t) - i
      /\ \A j \in 1 .. (Len(t) - i) : b[j] = t[j + i]
  BY <1>0, SubSeqProperties
<1>3. RemoveAt(t, i) = a \o b
  BY DEF RemoveAt
<1> HIDE DEF a, b
<1>4. /\ a \o b \in Seq(S)
      /\ Len(a \o b) = Len(a) + Len(b)
      /\ \A j \in 1 .. (Len(a) + Len(b)) :
           (a \o b)[j] = IF j <= Len(a) THEN a[j] ELSE b[j - Len(a)]
  BY <1>1, <1>2, ConcatProperties
<1>5. ASSUME NEW j \in 1 .. (Len(t) - 1)
      PROVE  RemoveAt(t, i)[j] = IF j < i THEN t[j] ELSE t[j + 1]
  <2>1. CASE j < i
    BY <1>0, <1>1, <1>2, <1>3, <1>4, <2>1
  <2>2. CASE ~(j < i)
    <3>1. j - (i - 1) \in 1 .. (Len(t) - i)
      BY <1>0, <2>2
    <3>2. b[j - (i - 1)] = t[j + 1]
      BY <1>2, <3>1
    <3> QED BY <1>0, <1>1, <1>2, <1>3, <1>4, <2>2, <3>2
  <2> QED BY <2>1, <2>2
<1> QED
  BY <1>1, <1>2, <1>3, <1>4, <1>5

(* Cells are numbered from 0, and every set of them is finite.             *)
LEMMA CellFacts == /\ Cell \subseteq Nat
                   /\ \A S \in SUBSET Cell : IsFiniteSet(S) /\ Cardinality(S) \in Nat
<1>1. Slots + AddsPerCycle \in Nat
  BY SizeAssumption
<1>2. IsFiniteSet(Cell)
  BY <1>1, FS_Interval DEF Cell
<1>3. ASSUME NEW S \in SUBSET Cell
      PROVE  IsFiniteSet(S) /\ Cardinality(S) \in Nat
  <2>1. IsFiniteSet(S)
    BY <1>2, FS_Subset
  <2> QED BY <2>1, FS_CardinalityType
<1>4. Cell \subseteq Nat
  BY <1>1 DEF Cell
<1> QED BY <1>3, <1>4

(* No more records than entries: the index of each entry covers them.      *)
LEMMA ImageBound ==
  ASSUME NEW t \in Seq([idx : Cell, adr : Stored]), NEW K \in SUBSET DOMAIN t
  PROVE  Cardinality({t[i].idx : i \in K}) <= Len(t)
<1> DEFINE T == {t[i].idx : i \in K}
           f == [i \in K |-> t[i].idx]
<1>0. DOMAIN t = 1 .. Len(t) /\ Len(t) \in Nat
  OBVIOUS
<1>1. IsFiniteSet(1 .. Len(t)) /\ Cardinality(1 .. Len(t)) = Len(t)
  <2> DEFINE n == Len(t)
  <2>1. n \in Nat
    BY <1>0
  <2> HIDE DEF n
  <2>2. IsFiniteSet(1 .. n) /\ Cardinality(1 .. n) = IF 1 > n THEN 0 ELSE n - 1 + 1
    BY <2>1, FS_Interval
  <2>3. IsFiniteSet(1 .. n) /\ Cardinality(1 .. n) = n
    BY <2>1, <2>2
  <2> QED BY <2>3 DEF n
<1>2. /\ IsFiniteSet(K) /\ Cardinality(K) <= Len(t) /\ Cardinality(K) \in Nat
  BY <1>0, <1>1, FS_Subset, FS_CardinalityType
<1>3. f \in Surjection(K, T)
  BY DEF Surjection
<1>4. IsFiniteSet(T) /\ Cardinality(T) <= Cardinality(K)
  BY <1>2, <1>3, FS_Surjection
<1>5. Cardinality(T) \in Nat
  BY <1>4, FS_CardinalityType
<1> QED BY <1>0, <1>1, <1>2, <1>4, <1>5

(* A program stores bytes of the types the cells hold.                     *)
LEMMA OverType == /\ \A x, y \in Marks : Over(x, y) \subseteq Marks /\ Torn(x, y) \subseteq Marks
                  /\ \A x, y \in Stored : Over(x, y) \subseteq Stored /\ Torn(x, y) \subseteq Stored
<1>1. /\ \A x, y \in Marks : Over(x, y) \subseteq Marks
      /\ \A x, y \in Stored : Over(x, y) \subseteq Stored
  BY AddrAssumption DEF Over, Marks, Stored, Blank, Bond, Erased, Junk
<1>2. Junk \in Marks /\ Junk \in Stored
  BY DEF Marks, Stored
<1> QED BY <1>1, <1>2 DEF Torn

Contents == [Cell -> [mark : Marks, adr : Stored]]

(* Writing a record or a mark keeps the flash well-typed, torn or not.     *)
LEMMA WriteTypes ==
  ASSUME TypeOK, NEW i \in Cell
  PROVE  /\ \A a \in Stored : WriteRecord(i, a) \subseteq Contents /\ TornRecord(i, a) \subseteq Contents
         /\ WriteEraseMark(i) \in Contents /\ TornEraseMark(i) \subseteq Contents
<1>1. /\ flash \in Contents
      /\ flash[i] \in [mark : Marks, adr : Stored] /\ Bond \in Marks /\ Erased \in Marks
  BY DEF TypeOK, Marks, Contents
<1>2. \A r \in [mark : Marks, adr : Stored] : [flash EXCEPT ![i] = r] \in Contents
  BY <1>1 DEF Contents
<1>3. \A m \in Marks : [flash EXCEPT ![i].mark = m] \in Contents
  BY <1>1 DEF Contents
<1>4. ASSUME NEW a \in Stored
      PROVE  /\ [mark : Over(Bond, flash[i].mark), adr : Over(a, flash[i].adr)]
                   \subseteq [mark : Marks, adr : Stored]
             /\ [mark : Torn(Bond, flash[i].mark), adr : Torn(a, flash[i].adr)]
                   \subseteq [mark : Marks, adr : Stored]
  <2>1. /\ Over(Bond, flash[i].mark) \subseteq Marks /\ Torn(Bond, flash[i].mark) \subseteq Marks
        /\ Over(a, flash[i].adr) \subseteq Stored /\ Torn(a, flash[i].adr) \subseteq Stored
    BY <1>1, OverType
  <2> QED BY <2>1
<1>5. Torn(Erased, flash[i].mark) \subseteq Marks
  BY <1>1, OverType
<1> QED BY <1>1, <1>2, <1>3, <1>4, <1>5 DEF WriteRecord, TornRecord, WriteEraseMark, TornEraseMark

(* An interrupted erase leaves bytes of those types.                       *)
LEMMA TornEraseTypes == ASSUME TypeOK PROVE TornErase \subseteq Contents
<1>1. ASSUME NEW r \in [mark : Marks, adr : Stored], NEW l \in EraseLeaves
      PROVE  Left(r, l) \in [mark : Marks, adr : Stored]
  <2>1. l \in [mark : Marks \cup {AsItWas}, adr : {Blank, Junk, AsItWas}]
    BY EraseAssumption
  <2>2. /\ (IF l.mark = AsItWas THEN r.mark ELSE l.mark) \in Marks
        /\ (IF l.adr = AsItWas THEN r.adr ELSE l.adr) \in Stored
    BY <2>1 DEF Stored
  <2> QED BY <2>2 DEF Left
<1>2. ASSUME NEW left \in [0 .. (Slots - 1) -> EraseLeaves]
      PROVE  [i \in Cell |-> IF i < Slots THEN Left(flash[i], left[i]) ELSE flash[i]] \in Contents
  <2>1. ASSUME NEW i \in Cell
        PROVE  (IF i < Slots THEN Left(flash[i], left[i]) ELSE flash[i]) \in [mark : Marks, adr : Stored]
    <3>1. flash[i] \in [mark : Marks, adr : Stored]
      BY DEF TypeOK
    <3>2. i < Slots => i \in 0 .. (Slots - 1)
      BY SizeAssumption DEF Cell
    <3> QED BY <1>1, <3>1, <3>2
  <2> QED BY <2>1 DEF Contents
<1> QED BY <1>2 DEF TornErase

-----------------------------------------------------------------------------
(* A state with a readable sector.                                         *)
Good == TypeOK /\ BoundInv /\ ReadableInv

(* The next slot of the log is a cell of the sector, in every state that   *)
(* is about to write a record.                                             *)
LEMMA NextSlot ==
  ASSUME TypeOK, BoundInv, Room
  PROVE  /\ pc = "add" => cfgIdx + 1 \in Cell /\ cfgIdx + 2 <= Slots
         /\ pc = "rewrite" => cfgIdx + 1 \in Cell /\ cfgIdx + 2 <= Slots
         /\ pc \in Open => cfgIdx + 1 \in 0 .. Slots
<1>1. /\ cfgIdx \in Int /\ k \in Nat /\ adds \in 0 .. AddsPerCycle
      /\ Len(tbl) \in Nat /\ DOMAIN tbl = 1 .. Len(tbl) /\ Len(tbl) <= MaxBonds
  BY DEF TypeOK, BoundInv
<1>2. pc = "rewrite" => k \in 1 .. Len(tbl) /\ cfgIdx + 2 = k
  BY <1>1 DEF BoundInv
<1>3. /\ pc \in Open => cfgIdx >= -1 /\ cfgIdx + 1 <= CleanAt + adds
      /\ pc = "add" => cfgIdx >= -1 /\ cfgIdx + 2 <= CleanAt + adds
  BY DEF BoundInv, Open
<1> QED BY <1>1, <1>2, <1>3, SizeAssumption DEF Cell, Room

(* Every entry of the table has the type of an entry.                      *)
LEMMA EntryType ==
  ASSUME TypeOK
  PROVE  /\ DOMAIN tbl = 1 .. Len(tbl) /\ Len(tbl) \in Nat
         /\ \A i \in DOMAIN tbl : /\ tbl[i] \in [idx : Cell, adr : Stored]
                                 /\ tbl[i].idx \in Cell /\ tbl[i].adr \in Stored
<1>1. tbl \in Seq([idx : Cell, adr : Stored])
  BY DEF TypeOK
<1>2. DOMAIN tbl = 1 .. Len(tbl) /\ Len(tbl) \in Nat
  BY <1>1
<1>3. \A i \in DOMAIN tbl : tbl[i] \in [idx : Cell, adr : Stored]
  BY <1>1, <1>2, ElementOfSeq
<1> QED BY <1>2, <1>3

(* The outcomes of a power failure are well-typed.                         *)
LEMMA CutType == ASSUME TypeOK, BoundInv, Room PROVE AfterCut \subseteq Contents
<1>1. \A i \in DOMAIN tbl : tbl[i].idx \in Cell /\ tbl[i].adr \in Stored
  BY EntryType
<1>2. flash \in Contents /\ pend \in Stored
  BY DEF TypeOK, Contents, Stored
<1>3. pc \in {"unpair", "delete", "rewrite"} => k \in DOMAIN tbl
  BY DEF BoundInv
<1>4. CASE pc = "rewrite"
  BY <1>1, <1>2, <1>3, <1>4, NextSlot, WriteTypes DEF AfterCut
<1>5. CASE pc = "add"
  BY <1>2, <1>5, NextSlot, WriteTypes DEF AfterCut
<1>6. CASE pc = "evict"
  <2>1. 1 \in DOMAIN tbl
    BY <1>6 DEF BoundInv, TypeOK
  <2> QED BY <1>1, <1>2, <1>6, <2>1, WriteTypes DEF AfterCut
<1>7. CASE pc \in {"unpair", "delete"}
  BY <1>1, <1>2, <1>3, <1>7, WriteTypes DEF AfterCut
<1>8. CASE pc = "erase"
  BY <1>2, <1>8, TornEraseTypes DEF AfterCut
<1>9. CASE pc \notin {"rewrite", "add", "evict", "unpair", "delete", "erase"}
  BY <1>2, <1>9 DEF AfterCut
<1> QED BY <1>4, <1>5, <1>6, <1>7, <1>8, <1>9

-----------------------------------------------------------------------------
(* The invariant keeps its types.                                          *)
LEMMA TypeStep == ASSUME TypeOK, BoundInv, Room, Next PROVE TypeOK'
<1> USE SizeAssumption
<1>0. TypeOK /\ BoundInv
  OBVIOUS
<1>1. CASE ScanBond
  <2>1. cfgIdx \in Cell
    BY <1>0, <1>1 DEF BoundInv, ScanBond, Cell, TypeOK
  <2>2. [idx |-> cfgIdx, adr |-> flash[cfgIdx].adr] \in [idx : Cell, adr : Stored]
    BY <1>0, <2>1 DEF TypeOK
  <2>3. tbl' \in Seq([idx : Cell, adr : Stored])
    <3>1. CASE tbl' = tbl
      BY <1>0, <3>1 DEF TypeOK
    <3>2. CASE tbl' = Append(tbl, [idx |-> cfgIdx, adr |-> flash[cfgIdx].adr])
      BY <1>0, <2>2, <3>2, AppendProperties DEF TypeOK
    <3> QED BY <1>1, <3>1, <3>2 DEF ScanBond
  <2> QED BY <1>0, <1>1, <2>3 DEF TypeOK, ScanBond, PCs, history
<1>2. CASE ScanSkip
  BY <1>0, <1>2 DEF TypeOK, ScanSkip, history
<1>3. CASE ScanEnd
  BY <1>0, <1>3 DEF TypeOK, ScanEnd, PCs, history
<1>4. CASE CleanErase
  <2>1. flash' \in [Cell -> [mark : Marks, adr : Stored]]
    BY <1>0, <1>4 DEF TypeOK, CleanErase, Marks, Stored
  <2> QED BY <1>0, <1>4, <2>1 DEF TypeOK, CleanErase, PCs, history
<1>5. CASE CleanRewrite
  <2>1. cfgIdx + 1 \in Cell
    BY <1>5, NextSlot DEF CleanRewrite
  <2>2. k \in DOMAIN tbl
    BY <1>0, <1>5 DEF BoundInv, CleanRewrite
  <2>3. tbl[k] \in [idx : Cell, adr : Stored] /\ tbl[k].adr \in Stored
    BY <1>0, <2>2, EntryType
  <2>4. flash' \in [Cell -> [mark : Marks, adr : Stored]]
    BY <1>0, <1>5, <2>1, <2>3, WriteTypes DEF CleanRewrite, Contents
  <2>5. [tbl[k] EXCEPT !.idx = cfgIdx + 1] \in [idx : Cell, adr : Stored]
    BY <2>1, <2>3
  <2>6. tbl' \in Seq([idx : Cell, adr : Stored])
    BY <1>0, <1>5, <2>2, <2>5, EntryType, ExceptSeq DEF CleanRewrite, TypeOK
  <2>7. /\ cfgIdx' \in Int /\ pend' \in Addr \cup {Blank} /\ k' \in Nat /\ adds' \in 0 .. AddsPerCycle
        /\ owed' \subseteq Addr /\ dropped' \subseteq Stored /\ cleanCut' \in BOOLEAN
        /\ scar' \in {"none", "open", "healed"}
    <3>1. cfgIdx' = cfgIdx + 1 /\ k' = k + 1 /\ UNCHANGED <<pend, adds, owed, dropped, cleanCut, scar>>
      BY <1>5 DEF CleanRewrite, history
    <3> QED BY <1>0, <3>1 DEF TypeOK
  <2>8. pc' \in PCs
    BY <1>5 DEF CleanRewrite, PCs
  <2> QED BY <2>4, <2>6, <2>7, <2>8 DEF TypeOK
<1>6. ASSUME NEW a \in Addr, AddBegin(a) PROVE TypeOK'
  BY <1>0, <1>6 DEF TypeOK, AddBegin, PCs
<1>7. CASE Evict
  <2>1. 1 \in DOMAIN tbl
    BY <1>0, <1>7 DEF BoundInv, Evict, TypeOK
  <2>2. tbl[1].idx \in Cell /\ tbl[1].adr \in Stored
    BY <1>0, <2>1, EntryType
  <2>3. tbl' \in Seq([idx : Cell, adr : Stored])
    BY <1>0, <1>7, <2>1, EntryType, RemoveAtFacts DEF Evict, TypeOK
  <2>4. flash' \in [Cell -> [mark : Marks, adr : Stored]]
    BY <1>0, <1>7, <2>2, WriteTypes DEF Evict, Contents
  <2> QED BY <1>0, <1>7, <2>2, <2>3, <2>4 DEF TypeOK, Evict, PCs
<1>8. CASE Add
  <2>1. cfgIdx + 1 \in Cell /\ pend \in Stored
    BY <1>0, <1>8, NextSlot DEF Add, TypeOK, Stored
  <2>2. flash' \in [Cell -> [mark : Marks, adr : Stored]]
    BY <1>0, <1>8, <2>1, WriteTypes DEF Add, Contents
  <2>3. tbl' \in Seq([idx : Cell, adr : Stored])
    BY <1>0, <1>8, <2>1 DEF Add, TypeOK
  <2>4. pend \in Addr
    BY <1>0, <1>8 DEF Add, BoundInv
  <2> QED BY <1>0, <1>8, <2>2, <2>3, <2>4 DEF TypeOK, Add, PCs
<1>9. CASE UnpairBegin
  BY <1>0, <1>9 DEF TypeOK, UnpairBegin, PCs
<1>10. CASE Unpair
  <2>1. k \in DOMAIN tbl
    BY <1>0, <1>10 DEF BoundInv, Unpair
  <2>2. tbl[k].idx \in Cell
    BY <1>0, <2>1, EntryType
  <2>3. flash' \in [Cell -> [mark : Marks, adr : Stored]]
    BY <1>0, <1>10, <2>2, WriteTypes DEF Unpair, Contents
  <2>4. Addresses(tbl) \subseteq Stored
    BY <1>0, EntryType DEF Addresses
  <2>5. tbl' \in Seq([idx : Cell, adr : Stored])
    <3>1. tbl' = <<>> \/ tbl' = tbl
      BY <1>10 DEF Unpair
    <3> QED BY <1>0, <3>1, EmptySeq DEF TypeOK
  <2>6. dropped' \subseteq Stored /\ pc' \in PCs /\ k' \in Nat
    BY <1>0, <1>10, <2>4 DEF Unpair, TypeOK, PCs
  <2> QED BY <1>0, <1>10, <2>3, <2>5, <2>6 DEF TypeOK, Unpair
<1>11. ASSUME NEW i \in 1 .. MaxBonds, DeleteBegin(i) PROVE TypeOK'
  BY <1>0, <1>11 DEF TypeOK, DeleteBegin, PCs
<1>12. CASE Delete
  <2>1. k \in DOMAIN tbl
    BY <1>0, <1>12 DEF BoundInv, Delete
  <2>2. tbl[k].idx \in Cell /\ tbl[k].adr \in Stored
    BY <1>0, <2>1, EntryType
  <2>3. tbl' \in Seq([idx : Cell, adr : Stored])
    BY <1>0, <1>12, <2>1, EntryType, RemoveAtFacts DEF Delete, TypeOK
  <2>4. flash' \in [Cell -> [mark : Marks, adr : Stored]]
    BY <1>0, <1>12, <2>2, WriteTypes DEF Delete, Contents
  <2> QED BY <1>0, <1>12, <2>2, <2>3, <2>4 DEF TypeOK, Delete, PCs
<1>13. CASE PowerCut
  <2>1. flash' \in [Cell -> [mark : Marks, adr : Stored]]
    BY <1>13, CutType DEF PowerCut, Contents
  <2> QED BY <1>0, <1>13, <2>1 DEF TypeOK, PowerCut, PCs
<1>14. CASE PowerOn
  BY <1>0, <1>14 DEF TypeOK, PowerOn, PCs, history
<1> QED
  BY <1>1, <1>2, <1>3, <1>4, <1>5, <1>6, <1>7, <1>8, <1>9, <1>10, <1>11, <1>12,
     <1>13, <1>14 DEF Next, Boot

-----------------------------------------------------------------------------
(* What bounds the operation in progress, whatever the sector holds. The   *)
(* cells behind the sector stay blank.                                     *)
LEMMA BehindBlank ==
  ASSUME TypeOK, BoundInv, NEW i \in Cell, i < Slots, NEW r,
         flash' = [flash EXCEPT ![i] = r] \/ flash' = [flash EXCEPT ![i].mark = r]
  PROVE  \A s \in Cell : s >= Slots => flash'[s] = [mark |-> Blank, adr |-> Blank]
<1>1. \A s \in Cell : s >= Slots => s # i
  BY CellFacts, SizeAssumption
<1>2. \A s \in Cell : s # i => flash'[s] = flash[s]
  BY DEF TypeOK
<1> QED BY <1>1, <1>2 DEF BoundInv

LEMMA BoundCut ==
  ASSUME TypeOK, BoundInv, Room, NEW f \in AfterCut
  PROVE  \A s \in Cell : s >= Slots => f[s] = [mark |-> Blank, adr |-> Blank]
<1> SUFFICES ASSUME NEW s \in Cell, s >= Slots PROVE f[s] = flash[s]
  BY DEF BoundInv
<1>0. DOMAIN flash = Cell /\ s \in Nat /\ Slots \in Nat
  BY CellFacts, SizeAssumption DEF TypeOK
<1>1. ASSUME NEW i, i < Slots, NEW a, f \in TornRecord(i, a) PROVE f[s] = flash[s]
  <2>1. s # i
    BY <1>0, <1>1
  <2> QED BY <1>0, <1>1, <2>1 DEF TornRecord
<1>2. ASSUME NEW i \in Cell, i < Slots, f \in TornEraseMark(i) PROVE f[s] = flash[s]
  <2>1. s # i
    BY <1>0, <1>2
  <2> QED BY <1>0, <1>2, <2>1 DEF TornEraseMark
<1>3. f \in TornErase => f[s] = flash[s]
  BY <1>0 DEF TornErase
<1>4. \A i \in DOMAIN tbl : tbl[i].idx \in Cell /\ tbl[i].idx < Slots
  BY EntryType DEF BoundInv, WithinSector
<1>5. pc \in {"add", "rewrite"} => cfgIdx + 1 < Slots
  BY <1>0, NextSlot DEF TypeOK
<1>6. /\ pc = "evict" => 1 \in DOMAIN tbl
      /\ pc \in {"unpair", "delete"} => k \in DOMAIN tbl
  BY EntryType DEF BoundInv, TypeOK
<1>7. CASE pc = "rewrite"
  BY <1>1, <1>5, <1>7 DEF AfterCut
<1>8. CASE pc = "add"
  BY <1>1, <1>5, <1>8 DEF AfterCut
<1>9. CASE pc = "evict"
  BY <1>2, <1>4, <1>6, <1>9 DEF AfterCut
<1>10. CASE pc \in {"unpair", "delete"}
  BY <1>2, <1>4, <1>6, <1>10 DEF AfterCut
<1>11. CASE pc = "erase"
  BY <1>3, <1>11 DEF AfterCut
<1>12. CASE pc \notin {"rewrite", "add", "evict", "unpair", "delete", "erase"}
  BY <1>12 DEF AfterCut
<1> QED BY <1>7, <1>8, <1>9, <1>10, <1>11, <1>12

LEMMA BoundStep == ASSUME TypeOK, BoundInv, Room, Next PROVE BoundInv'
<1> USE SizeAssumption
<1> DEFINE Behind == \A i \in Cell : i >= Slots => flash[i] = [mark |-> Blank, adr |-> Blank]
<1>0. /\ cfgIdx \in Int /\ k \in Nat /\ adds \in 0 .. AddsPerCycle /\ Behind
      /\ DOMAIN tbl = 1 .. Len(tbl) /\ Len(tbl) \in Nat /\ Len(tbl) <= MaxBonds
      /\ tbl \in Seq([idx : Cell, adr : Stored])
      /\ \A i \in DOMAIN tbl : tbl[i].idx \in Cell /\ tbl[i].idx < Slots /\ tbl[i].idx \in Nat
  BY EntryType, CellFacts DEF TypeOK, BoundInv, WithinSector
<1>1. CASE ScanBond
  <2>1. CASE ~(Len(tbl) < MaxBonds)
    <3>1. pc' = "trap" /\ UNCHANGED <<flash, tbl, cfgIdx, k, pend, adds>>
      BY <1>1, <2>1 DEF ScanBond
    <3> QED BY <1>0, <3>1 DEF BoundInv, WithinSector, Open
  <2>2. CASE Len(tbl) < MaxBonds
    <3>0. tbl' = Append(tbl, [idx |-> cfgIdx, adr |-> flash[cfgIdx].adr])
      BY <1>1, <2>2 DEF ScanBond
    <3>1. /\ Len(tbl') = Len(tbl) + 1 /\ DOMAIN tbl' = 1 .. (Len(tbl) + 1)
          /\ \A i \in 1 .. Len(tbl) : tbl'[i] = tbl[i]
          /\ tbl'[Len(tbl) + 1].idx = cfgIdx
      BY <1>0, <3>0
    <3>2. WithinSector'
      BY <1>0, <1>1, <3>1 DEF WithinSector, ScanBond
    <3>3. pc' = "scan" /\ cfgIdx' = cfgIdx + 1 /\ flash' = flash /\ cfgIdx \in 0 .. Slots /\ cfgIdx < Slots
      BY <1>1, <2>2 DEF ScanBond, BoundInv
    <3> QED BY <1>0, <2>2, <3>1, <3>2, <3>3 DEF BoundInv, Open
  <2> QED BY <1>1, <2>1, <2>2 DEF ScanBond
<1>2. CASE ScanSkip
  BY <1>0, <1>2 DEF BoundInv, ScanSkip, WithinSector, Open
<1>3. CASE ScanEnd
  BY <1>0, <1>3 DEF BoundInv, ScanEnd, WithinSector, Open
<1>4. CASE CleanErase
  <2>1. Behind'
    BY <1>0, <1>4 DEF CleanErase
  <2>2. tbl # <<>> => 1 \in DOMAIN tbl
    BY <1>0
  <2> QED BY <1>0, <1>4, <2>1, <2>2 DEF BoundInv, CleanErase, WithinSector, Open
<1>5. CASE CleanRewrite
  <2>1. /\ k \in 1 .. Len(tbl) /\ cfgIdx + 2 = k /\ cfgIdx + 1 \in Cell /\ cfgIdx + 1 < Slots
    BY <1>0, <1>5, NextSlot DEF BoundInv, CleanRewrite
  <2>2. Behind'
    BY <1>5, <2>1, BehindBlank DEF CleanRewrite, WriteRecord
  <2>3. /\ cfgIdx' = cfgIdx + 1 /\ k' = k + 1 /\ adds' = adds
        /\ tbl' = [tbl EXCEPT ![k].idx = cfgIdx + 1]
        /\ pc' = IF k + 1 > Len(tbl) THEN "run" ELSE "rewrite"
    BY <1>5 DEF CleanRewrite
  <2>4. Len(tbl') = Len(tbl) /\ DOMAIN tbl' = DOMAIN tbl
    BY <1>0, <2>1, <2>3
  <2>5. WithinSector'
    BY <1>0, <2>1, <2>3, <2>4 DEF WithinSector
  <2>6. CASE k + 1 > Len(tbl)
    <3>1. pc' = "run" /\ cfgIdx' + 1 <= CleanAt + adds' /\ cfgIdx' >= -1
      BY <1>0, <2>1, <2>3, <2>6
    <3> QED BY <1>0, <2>2, <2>4, <2>5, <3>1 DEF BoundInv, Open
  <2>7. CASE k + 1 <= Len(tbl)
    <3>1. pc' = "rewrite" /\ cfgIdx' + 2 = k' /\ cfgIdx' >= -1 /\ k' \in DOMAIN tbl'
      BY <1>0, <2>1, <2>3, <2>4, <2>7
    <3> QED BY <1>0, <2>2, <2>4, <2>5, <3>1 DEF BoundInv, Open
  <2> QED BY <1>0, <2>6, <2>7
<1>6. ASSUME NEW a \in Addr, AddBegin(a) PROVE BoundInv'
  <2>1. Len(tbl) >= MaxBonds => tbl # <<>>
    BY <1>0
  <2> QED BY <1>0, <1>6, <2>1 DEF BoundInv, AddBegin, WithinSector, Open
<1>7. ASSUME NEW i \in DOMAIN tbl, flash' = WriteEraseMark(tbl[i].idx) PROVE Behind'
  BY <1>0, <1>7, BehindBlank DEF WriteEraseMark
<1>8. ASSUME NEW i \in DOMAIN tbl, tbl' = RemoveAt(tbl, i)
      PROVE  Len(tbl') = Len(tbl) - 1 /\ Len(tbl') \in Nat /\ WithinSector'
  <2>1. /\ Len(tbl') = Len(tbl) - 1 /\ tbl' \in Seq([idx : Cell, adr : Stored])
        /\ \A j \in 1 .. (Len(tbl) - 1) : tbl'[j] = IF j < i THEN tbl[j] ELSE tbl[j + 1]
    <3>1. i \in 1 .. Len(tbl) /\ tbl \in Seq([idx : Cell, adr : Stored])
      BY <1>0
    <3>2. /\ RemoveAt(tbl, i) \in Seq([idx : Cell, adr : Stored])
          /\ Len(RemoveAt(tbl, i)) = Len(tbl) - 1
          /\ \A j \in 1 .. (Len(tbl) - 1) : RemoveAt(tbl, i)[j] = IF j < i THEN tbl[j] ELSE tbl[j + 1]
      BY <3>1, RemoveAtFacts
    <3> QED BY <1>8, <3>2
  <2>2. DOMAIN tbl' = 1 .. (Len(tbl) - 1) /\ Len(tbl') \in Nat
    BY <1>0, <1>8, <2>1
  <2>3. \A j \in 1 .. (Len(tbl) - 1) : j \in DOMAIN tbl /\ j + 1 \in DOMAIN tbl
    BY <1>0
  <2> QED BY <1>0, <2>1, <2>2, <2>3 DEF WithinSector
<1>9. CASE Evict
  <2>1. 1 \in DOMAIN tbl
    BY <1>0, <1>9 DEF Evict, BoundInv
  <2>2. Behind' /\ Len(tbl') = Len(tbl) - 1 /\ Len(tbl') \in Nat /\ WithinSector'
    BY <1>7, <1>8, <1>9, <2>1 DEF Evict
  <2> QED BY <1>0, <1>9, <2>2 DEF BoundInv, Evict, Open
<1>10. CASE Add
  <2>1. cfgIdx + 1 \in Cell /\ cfgIdx + 1 < Slots /\ Len(tbl) < MaxBonds
    BY <1>0, <1>10, NextSlot DEF Add, BoundInv
  <2>2. Behind'
    BY <1>10, <2>1, BehindBlank DEF Add, WriteRecord
  <2>3. /\ Len(tbl') = Len(tbl) + 1 /\ DOMAIN tbl' = 1 .. (Len(tbl) + 1)
        /\ \A i \in 1 .. Len(tbl) : tbl'[i] = tbl[i]
        /\ tbl'[Len(tbl) + 1].idx = cfgIdx + 1
    BY <1>0, <1>10 DEF Add
  <2>4. WithinSector'
    BY <1>0, <2>1, <2>3 DEF WithinSector
  <2> QED BY <1>0, <1>10, <2>1, <2>2, <2>3, <2>4 DEF BoundInv, Add, Open
<1>11. CASE UnpairBegin
  <2>1. 1 \in DOMAIN tbl
    BY <1>0, <1>11 DEF UnpairBegin
  <2> QED BY <1>0, <1>11, <2>1 DEF BoundInv, UnpairBegin, WithinSector, Open
<1>12. CASE Unpair
  <2>1. k \in DOMAIN tbl /\ Behind'
    BY <1>7, <1>12 DEF Unpair, BoundInv
  <2>2. CASE k = Len(tbl)
    <3>1. tbl' = <<>> /\ pc' = "run" /\ UNCHANGED <<cfgIdx, adds>> /\ pc = "unpair"
      BY <1>12, <2>2 DEF Unpair
    <3> QED BY <1>0, <2>1, <3>1 DEF BoundInv, WithinSector, Open
  <2>3. CASE k # Len(tbl)
    <3>1. tbl' = tbl /\ pc' = "unpair" /\ k' = k + 1 /\ UNCHANGED <<cfgIdx, adds>> /\ pc = "unpair"
      BY <1>12, <2>3 DEF Unpair
    <3>2. k + 1 \in DOMAIN tbl
      <4>1. \A n \in Nat : \A m \in 1 .. n : m # n => m + 1 \in 1 .. n
        OBVIOUS
      <4> QED BY <1>0, <2>1, <2>3, <4>1
    <3> QED BY <1>0, <2>1, <3>1, <3>2 DEF BoundInv, WithinSector, Open
  <2> QED BY <2>2, <2>3
<1>13. ASSUME NEW i \in 1 .. MaxBonds, DeleteBegin(i) PROVE BoundInv'
  BY <1>0, <1>13 DEF BoundInv, DeleteBegin, WithinSector, Open
<1>14. CASE Delete
  <2>1. k \in DOMAIN tbl
    BY <1>14 DEF Delete, BoundInv
  <2>2. Behind' /\ Len(tbl') = Len(tbl) - 1 /\ Len(tbl') \in Nat /\ WithinSector'
    BY <1>7, <1>8, <1>14, <2>1 DEF Delete
  <2> QED BY <1>0, <1>14, <2>2 DEF BoundInv, Delete, Open
<1>15. CASE PowerCut
  <2>1. Behind' /\ pc' = "off" /\ tbl' = <<>>
    BY <1>15, BoundCut DEF PowerCut
  <2> QED BY <2>1 DEF BoundInv, WithinSector, Open
<1>16. CASE PowerOn
  <2>1. Behind' /\ pc' = "scan" /\ tbl' = <<>> /\ cfgIdx' = 0
    BY <1>0, <1>16 DEF PowerOn
  <2> QED BY <2>1 DEF BoundInv, WithinSector, Open
<1> QED
  BY <1>1, <1>2, <1>3, <1>4, <1>5, <1>6, <1>9, <1>10, <1>11, <1>12, <1>13, <1>14,
     <1>15, <1>16 DEF Next, Boot

-----------------------------------------------------------------------------
(* The slot behind the log is blank, so that a record written there is     *)
(* exactly the record the code wants; no spilled slot is ever written.     *)
LEMMA FreshRecord ==
  ASSUME Good, Room, pc \in {"add", "rewrite"}
  PROVE  /\ cfgIdx + 1 \in Cell /\ cfgIdx + 2 \in 0 .. Slots
         /\ flash[cfgIdx + 1] = [mark |-> Blank, adr |-> Blank]
         /\ \A a : WriteRecord(cfgIdx + 1, a)
                     = {[flash EXCEPT ![cfgIdx + 1] = [mark |-> Bond, adr |-> a]]}
<1>1. cfgIdx + 1 \in Cell /\ cfgIdx + 2 <= Slots /\ cfgIdx \in Int /\ LogEnd(flash, cfgIdx + 1)
  BY NextSlot DEF Good, ReadableInv, LogInv, TypeOK, Open
<1>2. /\ flash[cfgIdx + 1].mark = Blank
      /\ flash[cfgIdx + 1].adr = Blank
      /\ flash[cfgIdx + 1] \in [mark : Marks, adr : Stored]
  BY <1>1 DEF Good, ReadableInv, LogInv, TypeOK, LogEnd
<1>3. flash[cfgIdx + 1] = [mark |-> Blank, adr |-> Blank]
  BY <1>2
<1>4. cfgIdx + 2 \in 0 .. Slots
  BY <1>1, SizeAssumption, CellFacts
<1>5. ASSUME NEW a
      PROVE  WriteRecord(cfgIdx + 1, a) = {[flash EXCEPT ![cfgIdx + 1] = [mark |-> Bond, adr |-> a]]}
  <2>1. Over(Bond, flash[cfgIdx + 1].mark) = {Bond} /\ Over(a, flash[cfgIdx + 1].adr) = {a}
    BY <1>2 DEF Over
  <2>2. \A r : r \in [mark : {Bond}, adr : {a}] <=> r = [mark |-> Bond, adr |-> a]
    OBVIOUS
  <2> QED BY <2>1, <2>2 DEF WriteRecord
<1> QED BY <1>1, <1>3, <1>4, <1>5

(* The entry an operation removes has a bond record in the flash, and the  *)
(* erase mark replaces it.                                                 *)
LEMMA BondRecord ==
  ASSUME Good, pc \notin {"off", "trap", "scan"}, NEW i \in InFlash
  PROVE  /\ i \in DOMAIN tbl /\ tbl[i].idx \in Cell
         /\ flash[tbl[i].idx].mark = Bond
         /\ flash[tbl[i].idx].adr = tbl[i].adr
         /\ WriteEraseMark(tbl[i].idx) = [flash EXCEPT ![tbl[i].idx].mark = Erased]
<1>1. i \in DOMAIN tbl /\ tbl[i].idx \in Cell
  BY EntryType DEF InFlash, Good
<1>2. /\ tbl[i].idx \in BondSlots
      /\ flash[tbl[i].idx].adr = tbl[i].adr
  BY DEF Good, ReadableInv, TableInv, Scanned
<1>3. flash[tbl[i].idx].mark = Bond
  BY <1>2 DEF BondSlots
<1> QED BY <1>1, <1>2, <1>3 DEF WriteEraseMark

(* The entry under the operation's hand is one of those.                   *)
LEMMA Target ==
  ASSUME Good
  PROVE  /\ pc = "evict" => 1 \in InFlash
         /\ pc \in {"unpair", "delete"} => k \in InFlash
<1>1. DOMAIN tbl = 1 .. Len(tbl) /\ Len(tbl) \in Nat /\ k \in Nat
  BY EntryType DEF Good, TypeOK
<1>2. pc = "evict" => tbl # <<>>
  BY DEF Good, BoundInv
<1>3. tbl # <<>> => 1 \in DOMAIN tbl
  BY <1>1 DEF Good, TypeOK
<1>4. pc \in {"unpair", "delete"} => k \in DOMAIN tbl
  BY DEF Good, BoundInv
<1> QED BY <1>1, <1>2, <1>3, <1>4 DEF InFlash, Kept

(* The record being written, and the entry whose record is being marked.   *)
Written == IF pc = "add" THEN pend ELSE tbl[k].adr
Marked == IF pc = "evict" THEN 1 ELSE k
RecordsOf(a) == [mark : {Bond, Junk, Blank}, adr : {a, Junk, Blank}]

LEMMA WrittenIsStored == ASSUME Good, pc \in {"add", "rewrite"} PROVE Written \in Stored
<1>1. pc = "rewrite" => tbl[k].adr \in Stored
  BY EntryType DEF Good, BoundInv
<1> QED BY <1>1 DEF Good, TypeOK, Stored, Written

(* What a power failure can do to the flash: nothing, put the record being *)
(* written or a torn one in the slot behind the log, take the mark being   *)
(* erased away, or tear the erase.                                         *)
LEMMA CutRecord ==
  ASSUME Good, Room, NEW f \in AfterCut
  PROVE  \/ f = flash
         \/ /\ pc \in {"add", "rewrite"}
            /\ \E r \in RecordsOf(Written) : f = [flash EXCEPT ![cfgIdx + 1] = r]
         \/ /\ pc \in {"evict", "unpair", "delete"}
            /\ \E m \in {Erased, Junk} : f = [flash EXCEPT ![tbl[Marked].idx].mark = m]
         \/ pc = "erase" /\ f \in TornErase
<1>1. ASSUME pc \in {"add", "rewrite"}, NEW a, f \in TornRecord(cfgIdx + 1, a)
      PROVE  \E r \in RecordsOf(a) : f = [flash EXCEPT ![cfgIdx + 1] = r]
  <2>1. flash[cfgIdx + 1].mark = Blank /\ flash[cfgIdx + 1].adr = Blank
    BY <1>1, FreshRecord
  <2>2. /\ Torn(Bond, flash[cfgIdx + 1].mark) = {Bond, Junk, Blank}
        /\ Torn(a, flash[cfgIdx + 1].adr) = {a, Junk, Blank}
    BY <2>1 DEF Torn, Over
  <2> QED BY <1>1, <2>2 DEF TornRecord, RecordsOf
<1>2. ASSUME pc \in {"evict", "unpair", "delete"}, f \in TornEraseMark(tbl[Marked].idx)
      PROVE  \E m \in {Bond, Erased, Junk} : f = [flash EXCEPT ![tbl[Marked].idx].mark = m]
  <2>1. Marked \in InFlash
    BY <1>2, Target DEF Marked
  <2>2. flash[tbl[Marked].idx].mark = Bond
    BY <1>2, <2>1, BondRecord
  <2>3. Torn(Erased, Bond) = {Bond, Junk, Erased}
    BY DEF Torn, Over, Bond, Erased, Blank, Junk
  <2> QED BY <1>2, <2>2, <2>3 DEF TornEraseMark
<1>3. CASE pc \in {"add", "rewrite"}
  BY <1>1, <1>3 DEF AfterCut, Written
<1>4. CASE pc \in {"evict", "unpair", "delete"}
  <2>1. Marked \in InFlash
    BY <1>4, Target DEF Marked
  <2>2. flash[tbl[Marked].idx].mark = Bond /\ tbl[Marked].idx \in Cell
    BY <1>4, <2>1, BondRecord
  <2>3. [flash EXCEPT ![tbl[Marked].idx].mark = Bond] = flash
    BY <2>2 DEF Good, TypeOK
  <2>4. f = flash \/ f \in TornEraseMark(tbl[Marked].idx)
    BY <1>4 DEF AfterCut, Marked
  <2> QED BY <1>2, <1>4, <2>3, <2>4
<1>5. CASE pc \notin {"rewrite", "add", "evict", "unpair", "delete"}
  BY <1>5 DEF AfterCut
<1> QED BY <1>3, <1>4, <1>5

(* Unless it leaves the sector unreadable, a power failure brings no bond  *)
(* record that was not there but the one being written.                    *)
LEMMA CutBonds ==
  ASSUME Good, Room, flash' \in AfterCut, Readable(flash')
  PROVE  \/ BondSlots' \subseteq BondSlots
         \/ pc \in {"add", "rewrite"} /\ BondSlots' \subseteq BondSlots \cup {cfgIdx + 1}
<1>1. CASE flash' = flash
  BY <1>1 DEF BondSlots
<1>2. CASE /\ pc \in {"add", "rewrite"}
           /\ \E r \in RecordsOf(Written) : flash' = [flash EXCEPT ![cfgIdx + 1] = r]
  BY <1>2 DEF BondSlots, Good, TypeOK
<1>3. CASE /\ pc \in {"evict", "unpair", "delete"}
           /\ \E m \in {Erased, Junk} : flash' = [flash EXCEPT ![tbl[Marked].idx].mark = m]
  BY <1>3 DEF BondSlots, Good, TypeOK, Bond, Erased, Junk
<1>4. CASE pc = "erase"
  BY <1>4 DEF Readable, BondSlots
<1> QED BY <1>1, <1>2, <1>3, <1>4, CutRecord

-----------------------------------------------------------------------------
(* Replacing the slot behind the log by a record, or a bond mark by        *)
(* another one, keeps the shape of the log.                                *)
LEMMA LogGrows ==
  ASSUME Good, Room, pc \in {"add", "rewrite"},
         NEW r, r \in [mark : {Bond, Junk}, adr : Stored],
         flash' = [flash EXCEPT ![cfgIdx + 1] = r]
  PROVE  /\ LogEnd(flash', cfgIdx + 2)
         /\ cfgIdx + 2 \in 0 .. Slots
         /\ \A i \in Cell : flash'[i].mark = Blank => flash'[i].adr = Blank
<1>1. /\ cfgIdx \in Int /\ LogEnd(flash, cfgIdx + 1)
      /\ \A i \in Cell : flash[i].mark = Blank => flash[i].adr = Blank
  BY DEF Good, ReadableInv, LogInv, TypeOK, Open
<1>2. cfgIdx + 1 \in Cell /\ cfgIdx + 2 \in 0 .. Slots
  BY FreshRecord
<1>3. DOMAIN flash = Cell
  BY DEF Good, TypeOK
<1>4. r.mark # Blank
  BY DEF Blank, Bond, Junk
<1>5. \A i \in Cell : flash'[i] = IF i = cfgIdx + 1 THEN r ELSE flash[i]
  BY <1>2, <1>3
<1>6. \A i \in Cell : flash'[i].mark = Blank <=> i >= cfgIdx + 2
  BY <1>1, <1>4, <1>5, CellFacts DEF LogEnd
<1> QED BY <1>1, <1>2, <1>4, <1>5, <1>6 DEF LogEnd

LEMMA LogKept ==
  ASSUME Good, NEW j, j \in Cell, NEW m, m \in {Erased, Junk}, flash[j].mark = Bond,
         flash' = [flash EXCEPT ![j].mark = m]
  PROVE  /\ \A i \in Cell : flash'[i].mark = Blank <=> flash[i].mark = Blank
         /\ \A i \in Cell : flash'[i].adr = flash[i].adr
         /\ \A i \in Cell : flash'[i].mark = Bond <=> flash[i].mark = Bond /\ i # j
<1>1. flash \in [Cell -> [mark : Marks, adr : Stored]]
  BY DEF Good, TypeOK
<1> QED BY <1>1 DEF Blank, Bond, Erased, Junk

(* A whole erase makes the sector readable, whatever it held before.       *)
LEMMA EraseHeals ==
  ASSUME TypeOK, BoundInv, CleanErase
  PROVE  LogInv' /\ TableInv' /\ ScanInv'
<1>1. /\ tbl' = tbl /\ cfgIdx' = -1 /\ k' = 1 /\ pend' = pend
      /\ pc' = (IF tbl = <<>> THEN "run" ELSE "rewrite")
  BY DEF CleanErase
<1>2. \A i \in Cell : flash'[i].mark = Blank /\ flash'[i].adr = Blank
  <2>1. \A i \in Cell : i < Slots \/ i >= Slots
    BY CellFacts, SizeAssumption
  <2> QED BY <2>1 DEF CleanErase, BoundInv
<1>3. LogEnd(flash', cfgIdx' + 1)
  BY <1>1, <1>2, CellFacts DEF LogEnd
<1>4. LogInv'
  BY <1>1, <1>2, <1>3 DEF LogInv
<1>5. Scanned' = {}
  BY <1>1, <1>2 DEF Scanned, BondSlots, Bond, Blank
<1>6. InFlash' = {}
  <2>1. DOMAIN tbl \subseteq {i \in Nat : i >= 1}
    BY EntryType
  <2>2. tbl = <<>> => DOMAIN tbl = {}
    OBVIOUS
  <2>3. tbl # <<>> => \A i \in DOMAIN tbl : ~(i < 1)
    BY <2>1
  <2> QED BY <1>1, <2>2, <2>3 DEF InFlash, Kept
<1>7. TableInv'
  BY <1>5, <1>6 DEF TableInv
<1> QED BY <1>1, <1>4, <1>7 DEF ScanInv

LEMMA LogStep == ASSUME Good, Room, Next, scar' # "open" PROVE LogInv'
<1> USE SizeAssumption
<1>0. /\ cfgIdx \in Int /\ k \in Nat /\ adds \in 0 .. AddsPerCycle
      /\ DOMAIN tbl = 1 .. Len(tbl) /\ Len(tbl) \in Nat
      /\ LogInv /\ TableInv /\ BoundInv
  BY EntryType DEF Good, ReadableInv, TypeOK
<1>1. CASE ScanBond
  BY <1>0, <1>1, CellFacts DEF LogInv, ScanBond, LogEnd, Open, Bond, Blank
<1>2. CASE ScanSkip
  BY <1>0, <1>2, CellFacts DEF LogInv, ScanSkip, LogEnd, Open, Erased, Junk, Blank
<1>3. CASE ScanEnd
  <2>1. cfgIdx \in 0 .. Slots /\ \A i \in Cell : i < cfgIdx => flash[i].mark # Blank
    BY <1>0, <1>3 DEF LogInv, BoundInv, ScanEnd
  <2>2. PICK n \in 0 .. Slots : LogEnd(flash, n)
    BY <1>0, <1>3 DEF LogInv, ScanEnd
  <2>3. n = cfgIdx
    <3>1. ~(n < cfgIdx)
      BY <2>1, <2>2 DEF LogEnd, Cell
    <3>2. cfgIdx < Slots => flash[cfgIdx].mark = Blank
      BY <1>3 DEF ScanEnd
    <3>3. cfgIdx < Slots => n <= cfgIdx
      BY <2>1, <2>2, <3>2 DEF LogEnd, Cell
    <3> QED BY <2>1, <2>2, <3>1, <3>3
  <2>4. flash' = flash /\ cfgIdx' = cfgIdx - 1 /\ cfgIdx' + 1 = cfgIdx /\ adds' = adds
    BY <1>0, <1>3 DEF ScanEnd
  <2>5. LogEnd(flash', cfgIdx' + 1)
    BY <2>2, <2>3, <2>4 DEF LogEnd
  <2>6. \/ pc' = "run" /\ cfgIdx' < CleanAt
        \/ pc' = "erase"
    BY <1>3 DEF ScanEnd
  <2>7. \A i \in Cell : flash'[i].mark = Blank => flash'[i].adr = Blank
    BY <1>0, <2>4 DEF LogInv
  <2>8. \E nn \in 0 .. Slots : LogEnd(flash', nn)
    BY <2>2, <2>4 DEF LogEnd
  <2>9. cfgIdx' >= -1 /\ (pc' = "run" => cfgIdx' + 1 <= CleanAt + adds')
    BY <1>0, <2>1, <2>4, <2>6
  <2> QED BY <2>5, <2>6, <2>7, <2>8, <2>9 DEF LogInv, Open
<1>4. CASE CleanErase
  BY <1>4, EraseHeals DEF Good
<1>5. CASE CleanRewrite
  <2>1. /\ k \in 1 .. Len(tbl) /\ cfgIdx + 2 = k /\ Len(tbl) <= MaxBonds
    BY <1>0, <1>5 DEF BoundInv, CleanRewrite
  <2>2. tbl[k].adr \in Stored
    BY <1>0, <2>1, EntryType DEF Good
  <2>3. [mark |-> Bond, adr |-> tbl[k].adr] \in [mark : {Bond, Junk}, adr : Stored]
    BY <2>2
  <2>4. flash' = [flash EXCEPT ![cfgIdx + 1] = [mark |-> Bond, adr |-> tbl[k].adr]]
    BY <1>5, FreshRecord DEF CleanRewrite
  <2>5. /\ LogEnd(flash', cfgIdx + 2)
        /\ \A i \in Cell : flash'[i].mark = Blank => flash'[i].adr = Blank
    BY <1>5, <2>3, <2>4, LogGrows DEF CleanRewrite
  <2>6. cfgIdx' = cfgIdx + 1 /\ k' = k + 1 /\ adds' = adds /\ DOMAIN tbl' = DOMAIN tbl
        /\ pc' = IF k + 1 > Len(tbl') THEN "run" ELSE "rewrite"
    BY <1>5 DEF CleanRewrite
  <2>7. Len(tbl') = Len(tbl)
    BY <1>0, <1>5 DEF CleanRewrite
  <2>8. LogEnd(flash', cfgIdx' + 1)
    BY <1>0, <2>5, <2>6 DEF LogEnd
  <2> QED BY <1>0, <2>1, <2>5, <2>6, <2>7, <2>8 DEF LogInv, Open
<1>6. ASSUME NEW a \in Addr, AddBegin(a) PROVE LogInv'
  BY <1>0, <1>6 DEF LogInv, AddBegin, Open, LogEnd
<1>7. CASE Evict
  <2>1. flash' = [flash EXCEPT ![tbl[1].idx].mark = Erased] /\ tbl[1].idx \in Cell
        /\ flash[tbl[1].idx].mark = Bond
    BY <1>7, Target, BondRecord DEF Evict
  <2>2. LogEnd(flash, cfgIdx + 1) => LogEnd(flash', cfgIdx + 1)
    BY <1>7, <2>1, LogKept DEF LogEnd, Evict
  <2>3. \A i \in Cell : flash'[i].mark = Blank => flash'[i].adr = Blank
    BY <1>0, <2>1, LogKept DEF LogInv
  <2> QED BY <1>0, <1>7, <2>2, <2>3 DEF LogInv, Evict, Open, LogEnd
<1>8. CASE Add
  <2>1. [mark |-> Bond, adr |-> pend] \in [mark : {Bond, Junk}, adr : Stored]
    BY DEF Good, TypeOK, Stored
  <2>2. flash' = [flash EXCEPT ![cfgIdx + 1] = [mark |-> Bond, adr |-> pend]]
    BY <1>8, FreshRecord DEF Add
  <2>3. /\ LogEnd(flash', cfgIdx + 2)
        /\ \A i \in Cell : flash'[i].mark = Blank => flash'[i].adr = Blank
    BY <1>8, <2>1, <2>2, LogGrows DEF Add
  <2>4. cfgIdx' = cfgIdx + 1 /\ pc' = "run" /\ adds' = adds
    BY <1>8 DEF Add
  <2>5. LogEnd(flash', cfgIdx' + 1)
    BY <1>0, <2>3, <2>4 DEF LogEnd
  <2> QED BY <1>0, <1>8, <2>3, <2>4, <2>5 DEF LogInv, Open, Add
<1>9. CASE UnpairBegin
  BY <1>0, <1>9 DEF LogInv, UnpairBegin, Open, LogEnd
<1>10. CASE Unpair
  <2>1. flash' = [flash EXCEPT ![tbl[k].idx].mark = Erased] /\ tbl[k].idx \in Cell
        /\ flash[tbl[k].idx].mark = Bond
    BY <1>10, Target, BondRecord DEF Unpair
  <2>2. LogEnd(flash, cfgIdx + 1) => LogEnd(flash', cfgIdx + 1)
    BY <1>10, <2>1, LogKept DEF LogEnd, Unpair
  <2>3. \A i \in Cell : flash'[i].mark = Blank => flash'[i].adr = Blank
    BY <1>0, <2>1, LogKept DEF LogInv
  <2> QED BY <1>0, <1>10, <2>2, <2>3 DEF LogInv, Unpair, Open, LogEnd
<1>11. ASSUME NEW i \in 1 .. MaxBonds, DeleteBegin(i) PROVE LogInv'
  BY <1>0, <1>11 DEF LogInv, DeleteBegin, Open, LogEnd
<1>12. CASE Delete
  <2>1. flash' = [flash EXCEPT ![tbl[k].idx].mark = Erased] /\ tbl[k].idx \in Cell
        /\ flash[tbl[k].idx].mark = Bond
    BY <1>12, Target, BondRecord DEF Delete
  <2>2. LogEnd(flash, cfgIdx + 1) => LogEnd(flash', cfgIdx + 1)
    BY <1>12, <2>1, LogKept DEF LogEnd, Delete
  <2>3. \A i \in Cell : flash'[i].mark = Blank => flash'[i].adr = Blank
    BY <1>0, <2>1, LogKept DEF LogInv
  <2> QED BY <1>0, <1>12, <2>2, <2>3 DEF LogInv, Delete, Open, LogEnd
<1>13. CASE PowerCut
  BY <1>13 DEF PowerCut, Readable, LogInv, Open
<1>14. CASE PowerOn
  BY <1>0, <1>14 DEF LogInv, PowerOn, LogEnd, Open, Cell
<1> QED
  BY <1>1, <1>2, <1>3, <1>4, <1>5, <1>6, <1>7, <1>8, <1>9, <1>10, <1>11, <1>12,
     <1>13, <1>14 DEF Next, Boot

-----------------------------------------------------------------------------
(* A bond record appended behind the log is the only bond slot that comes. *)
LEMMA BondAdded ==
  ASSUME Good, Room, pc \in {"add", "rewrite"}, NEW a,
         flash' = [flash EXCEPT ![cfgIdx + 1] = [mark |-> Bond, adr |-> a]]
  PROVE  /\ BondSlots' = BondSlots \cup {cfgIdx + 1}
         /\ \A s \in BondSlots : s < cfgIdx + 1 /\ flash'[s] = flash[s]
         /\ flash'[cfgIdx + 1].adr = a
<1>1. /\ cfgIdx + 1 \in Cell /\ flash[cfgIdx + 1].mark = Blank
      /\ DOMAIN flash = Cell /\ cfgIdx \in Int /\ LogEnd(flash, cfgIdx + 1)
  BY FreshRecord DEF Good, ReadableInv, TypeOK, LogInv, Open
<1>2. \A i \in Cell : flash'[i] = IF i = cfgIdx + 1 THEN [mark |-> Bond, adr |-> a] ELSE flash[i]
  BY <1>1
<1>3. \A s \in BondSlots : s \in Cell /\ s < cfgIdx + 1
  BY <1>1 DEF BondSlots, LogEnd, Cell, Bond, Blank
<1>4. BondSlots' = BondSlots \cup {cfgIdx + 1}
  <2>1. ASSUME NEW s \in BondSlots' PROVE s \in BondSlots \cup {cfgIdx + 1}
    BY <1>1, <1>2, <2>1 DEF BondSlots
  <2>2. ASSUME NEW s \in BondSlots PROVE s \in BondSlots'
    BY <1>1, <1>2, <1>3 DEF BondSlots
  <2>3. cfgIdx + 1 \in BondSlots'
    BY <1>1, <1>2 DEF BondSlots
  <2> QED BY <2>1, <2>2, <2>3
<1>5. \A s \in BondSlots : flash'[s] = flash[s]
  BY <1>1, <1>2, <1>3
<1> QED BY <1>1, <1>2, <1>3, <1>4, <1>5

(* The indexes of the entries still in the flash are pairwise distinct.    *)
LEMMA DistinctIndexes ==
  ASSUME Good, pc \notin {"off", "trap"}, NEW i \in InFlash, NEW j \in InFlash, i # j
  PROVE  tbl[i].idx # tbl[j].idx
<1>1. /\ i \in DOMAIN tbl /\ j \in DOMAIN tbl /\ i \in Nat /\ j \in Nat
      /\ tbl[i].idx \in Nat /\ tbl[j].idx \in Nat
  <2>1. i \in DOMAIN tbl /\ j \in DOMAIN tbl
    BY DEF InFlash
  <2>2. tbl[i].idx \in Cell /\ tbl[j].idx \in Cell /\ DOMAIN tbl \subseteq Nat
    BY <2>1, EntryType DEF Good
  <2> QED BY <2>1, <2>2, CellFacts
<1>2. i < j \/ j < i
  BY <1>1
<1> QED BY <1>1, <1>2 DEF Good, ReadableInv, TableInv

(* Marking the record of one entry takes exactly its slot away.            *)
LEMMA BondTaken ==
  ASSUME Good, pc \in {"evict", "unpair", "delete"}, NEW i \in InFlash,
         flash' = WriteEraseMark(tbl[i].idx)
  PROVE  /\ BondSlots' = {tbl[j].idx : j \in InFlash \ {i}}
         /\ \A s \in Cell : flash'[s].adr = flash[s].adr
<1>1. /\ tbl[i].idx \in Cell /\ flash[tbl[i].idx].mark = Bond
      /\ flash' = [flash EXCEPT ![tbl[i].idx].mark = Erased]
  BY BondRecord
<1>2. /\ \A s \in Cell : flash'[s].adr = flash[s].adr
      /\ \A s \in Cell : flash'[s].mark = Bond <=> flash[s].mark = Bond /\ s # tbl[i].idx
  BY <1>1, LogKept
<1>3. BondSlots' = BondSlots \ {tbl[i].idx}
  BY <1>2 DEF BondSlots
<1>4. BondSlots = {tbl[j].idx : j \in InFlash}
  BY DEF Good, ReadableInv, TableInv, Scanned
<1>5. \A j \in InFlash \ {i} : tbl[j].idx # tbl[i].idx
  BY DistinctIndexes
<1> QED BY <1>2, <1>3, <1>4, <1>5

(* Outside scan, unpair and rewrite all the entries are in the flash.      *)
LEMMA AllKept ==
  ASSUME Good, pc \notin {"unpair", "rewrite"}
  PROVE  InFlash = DOMAIN tbl
BY DEF InFlash, Kept

(* The table and the flash agree again once an entry left both.            *)
LEMMA RemovedEntry ==
  ASSUME Good, pc \in {"evict", "delete"}, NEW i, i \in InFlash,
         flash' = WriteEraseMark(tbl[i].idx), tbl' = RemoveAt(tbl, i),
         pc' \in {"add", "run"}, pend' = pend
  PROVE  /\ Len(tbl') = Len(tbl) - 1 /\ Len(tbl') \in Nat
         /\ Scanned' = {tbl'[j].idx : j \in InFlash'}
         /\ \A j \in InFlash' : flash'[tbl'[j].idx].adr = tbl'[j].adr
         /\ \A j, l \in InFlash' : j < l => tbl'[j].idx < tbl'[l].idx
<1>0. /\ InFlash = 1 .. Len(tbl) /\ i \in 1 .. Len(tbl) /\ Len(tbl) \in Nat
      /\ tbl \in Seq([idx : Cell, adr : Stored])
      /\ \A j \in 1 .. Len(tbl) : tbl[j].idx \in Nat /\ tbl[j].idx \in Cell
  <2>1. InFlash = DOMAIN tbl
    BY AllKept
  <2> QED BY <2>1, EntryType, CellFacts DEF Good, TypeOK
<1>1. /\ Len(tbl') = Len(tbl) - 1
      /\ \A j \in 1 .. (Len(tbl) - 1) : tbl'[j] = IF j < i THEN tbl[j] ELSE tbl[j + 1]
      /\ tbl' \in Seq([idx : Cell, adr : Stored])
  BY <1>0, RemoveAtFacts
<1>2. InFlash' = 1 .. (Len(tbl) - 1) /\ Scanned' = BondSlots'
  BY <1>0, <1>1 DEF InFlash, Kept, Scanned
<1>3. /\ BondSlots' = {tbl[j].idx : j \in (1 .. Len(tbl)) \ {i}}
      /\ \A s \in Cell : flash'[s].adr = flash[s].adr
  BY <1>0, BondTaken
<1>4. BondSlots' = {tbl'[j].idx : j \in 1 .. (Len(tbl) - 1)}
  <2>1. ASSUME NEW j \in (1 .. Len(tbl)) \ {i}
        PROVE  \E l \in 1 .. (Len(tbl) - 1) : tbl'[l].idx = tbl[j].idx
    <3>1. CASE j < i
      BY <1>0, <1>1, <3>1
    <3>2. CASE j > i
      <4>1. j - 1 \in 1 .. (Len(tbl) - 1) /\ ~(j - 1 < i) /\ (j - 1) + 1 = j
        BY <1>0, <3>2
      <4> QED BY <1>1, <4>1
    <3> QED BY <1>0, <3>1, <3>2
  <2>2. ASSUME NEW l \in 1 .. (Len(tbl) - 1)
        PROVE  \E j \in (1 .. Len(tbl)) \ {i} : tbl'[l].idx = tbl[j].idx
    <3>1. CASE l < i
      <4>1. l \in (1 .. Len(tbl)) \ {i}
        BY <1>0, <3>1
      <4> QED BY <1>1, <3>1, <4>1
    <3>2. CASE ~(l < i)
      <4>1. l + 1 \in (1 .. Len(tbl)) \ {i}
        BY <1>0, <3>2
      <4> QED BY <1>1, <3>2, <4>1
    <3> QED BY <3>1, <3>2
  <2>3. {tbl[j].idx : j \in (1 .. Len(tbl)) \ {i}} \subseteq {tbl'[j].idx : j \in 1 .. (Len(tbl) - 1)}
    BY <2>1
  <2>4. {tbl'[j].idx : j \in 1 .. (Len(tbl) - 1)} \subseteq {tbl[j].idx : j \in (1 .. Len(tbl)) \ {i}}
    <3>1. ASSUME NEW l \in 1 .. (Len(tbl) - 1)
          PROVE  tbl'[l].idx \in {tbl[j].idx : j \in (1 .. Len(tbl)) \ {i}}
      <4>1. PICK j \in (1 .. Len(tbl)) \ {i} : tbl'[l].idx = tbl[j].idx
        BY <2>2
      <4> QED BY <4>1
    <3> QED BY <3>1
  <2> QED BY <1>3, <2>3, <2>4
<1>5. ASSUME NEW j \in 1 .. (Len(tbl) - 1)
      PROVE  flash'[tbl'[j].idx].adr = tbl'[j].adr
  <2>1. PICK l \in 1 .. Len(tbl) : tbl'[j] = tbl[l]
    <3>1. j \in 1 .. Len(tbl) /\ j + 1 \in 1 .. Len(tbl)
      BY <1>0
    <3>2. tbl'[j] = tbl[j] \/ tbl'[j] = tbl[j + 1]
      BY <1>1
    <3> QED BY <3>1, <3>2
  <2>2. flash[tbl[l].idx].adr = tbl[l].adr
    BY <1>0 DEF Good, ReadableInv, TableInv
  <2> QED BY <1>0, <1>3, <2>1, <2>2
<1>6. ASSUME NEW j \in 1 .. (Len(tbl) - 1), NEW l \in 1 .. (Len(tbl) - 1), j < l
      PROVE  tbl'[j].idx < tbl'[l].idx
  <2> DEFINE p == IF j < i THEN j ELSE j + 1
             q == IF l < i THEN l ELSE l + 1
  <2>1. p \in 1 .. Len(tbl) /\ q \in 1 .. Len(tbl) /\ p < q
    BY <1>0, <1>6
  <2>2. tbl'[j] = tbl[p] /\ tbl'[l] = tbl[q]
    BY <1>1
  <2> HIDE DEF p, q
  <2> QED BY <1>0, <2>1, <2>2 DEF Good, ReadableInv, TableInv
<1>7. Len(tbl') = Len(tbl) - 1 /\ Len(tbl') \in Nat
  BY <1>0, <1>1
<1> QED BY <1>2, <1>4, <1>5, <1>6, <1>7

LEMMA TableStep == ASSUME Good, Room, Next, scar' # "open" PROVE TableInv'
<1> USE SizeAssumption
<1>0. /\ cfgIdx \in Int /\ k \in Nat /\ pend \in Addr \cup {Blank}
      /\ DOMAIN tbl = 1 .. Len(tbl) /\ Len(tbl) \in Nat
      /\ tbl \in Seq([idx : Cell, adr : Stored])
      /\ \A i \in DOMAIN tbl : tbl[i].idx \in Cell /\ tbl[i].idx \in Nat /\ tbl[i].adr \in Stored
      /\ Cell \subseteq Nat /\ BondSlots \subseteq Nat
      /\ LogInv /\ TableInv /\ ScanInv /\ BoundInv
  BY EntryType, CellFacts DEF Good, ReadableInv, TypeOK, BondSlots
<1>1. CASE ScanBond
  <2>1. Len(tbl) < MaxBonds /\ pc = "scan" /\ pc' = "scan" /\ cfgIdx' = cfgIdx + 1
        /\ flash[cfgIdx].mark = Bond /\ cfgIdx \in Cell /\ flash' = flash
        /\ tbl' = Append(tbl, [idx |-> cfgIdx, adr |-> flash[cfgIdx].adr])
    <3>1. cfgIdx \in Cell
      BY <1>0, <1>1 DEF ScanBond, BoundInv, Cell
    <3>2. cfgIdx \in {s \in BondSlots : s >= cfgIdx}
      BY <1>0, <1>1, <3>1 DEF ScanBond, BondSlots
    <3>3. IsFiniteSet({s \in BondSlots : s >= cfgIdx})
      BY CellFacts DEF BondSlots
    <3>4. Cardinality({s \in BondSlots : s >= cfgIdx}) \in Nat \ {0}
      BY <3>2, <3>3, FS_EmptySet, FS_CardinalityType
    <3>5. Len(tbl) < MaxBonds
      BY <1>0, <1>1, <3>4 DEF ScanInv, ScanBond
    <3> QED BY <1>0, <1>1, <3>1, <3>5 DEF ScanBond
  <2>2. /\ Len(tbl') = Len(tbl) + 1 /\ DOMAIN tbl' = 1 .. (Len(tbl) + 1)
        /\ \A i \in 1 .. Len(tbl) : tbl'[i] = tbl[i]
        /\ tbl'[Len(tbl) + 1].idx = cfgIdx /\ tbl'[Len(tbl) + 1].adr = flash[cfgIdx].adr
    BY <1>0, <2>1
  <2>3. InFlash = 1 .. Len(tbl) /\ InFlash' = 1 .. (Len(tbl) + 1)
    BY <1>0, <2>1, <2>2 DEF InFlash, Kept
  <2>4. {s \in BondSlots : s < cfgIdx} = {tbl[i].idx : i \in 1 .. Len(tbl)}
    BY <2>1, <2>3, <1>0 DEF TableInv, Scanned
  <2>5. Scanned' = {s \in BondSlots : s < cfgIdx} \cup {cfgIdx}
    <3>1. BondSlots' = BondSlots /\ cfgIdx \in BondSlots
      BY <2>1 DEF BondSlots
    <3>2. Scanned' = {s \in BondSlots : s < cfgIdx + 1}
      BY <2>1, <3>1 DEF Scanned
    <3>3. \A s \in BondSlots : s < cfgIdx + 1 <=> s < cfgIdx \/ s = cfgIdx
      BY <1>0
    <3> QED BY <3>1, <3>2, <3>3
  <2>6. Scanned' = {tbl'[i].idx : i \in 1 .. (Len(tbl) + 1)}
    BY <1>0, <2>2, <2>4, <2>5
  <2>7. \A i \in 1 .. (Len(tbl) + 1) : flash'[tbl'[i].idx].adr = tbl'[i].adr
    BY <1>0, <2>1, <2>2, <2>3 DEF TableInv
  <2>8. \A i \in 1 .. Len(tbl) : tbl[i].idx < cfgIdx
    BY <2>4
  <2>9. \A i, j \in 1 .. (Len(tbl) + 1) : i < j => tbl'[i].idx < tbl'[j].idx
    <3>1. \A i, j \in 1 .. Len(tbl) : i < j => tbl[i].idx < tbl[j].idx
      BY <1>0, <2>1, <2>3 DEF TableInv
    <3>2. \A i \in 1 .. Len(tbl) : tbl'[i].idx < tbl'[Len(tbl) + 1].idx
      BY <2>2, <2>8
    <3>3. ASSUME NEW i \in 1 .. (Len(tbl) + 1), NEW j \in 1 .. (Len(tbl) + 1), i < j
          PROVE  tbl'[i].idx < tbl'[j].idx
      <4>0. \A n \in Nat : \A p, q \in 1 .. (n + 1) :
              p < q => p \in 1 .. n /\ (q = n + 1 \/ q \in 1 .. n)
        OBVIOUS
      <4>1. i \in 1 .. Len(tbl) /\ (j = Len(tbl) + 1 \/ j \in 1 .. Len(tbl))
        BY <1>0, <3>3, <4>0
      <4> QED BY <2>2, <3>1, <3>2, <3>3, <4>1
    <3> QED BY <3>3
  <2> QED BY <1>0, <2>1, <2>2, <2>3, <2>6, <2>7, <2>9 DEF TableInv
<1>2. CASE ScanSkip
  <2>1. pc = "scan" /\ UNCHANGED <<flash, pc, tbl, k, pend>> /\ cfgIdx' = cfgIdx + 1
        /\ flash[cfgIdx].mark # Bond
    BY <1>2 DEF ScanSkip, Bond, Erased, Junk
  <2>2. Scanned' = Scanned
    <3>1. BondSlots' = BondSlots /\ cfgIdx \notin BondSlots
      BY <2>1 DEF BondSlots
    <3>2. Scanned' = {s \in BondSlots : s < cfgIdx + 1}
      BY <2>1, <3>1 DEF Scanned
    <3>3. \A s \in BondSlots : s < cfgIdx + 1 <=> s < cfgIdx
      BY <1>0, <3>1
    <3> QED BY <2>1, <3>2, <3>3 DEF Scanned
  <2>3. InFlash' = InFlash
    BY <2>1 DEF InFlash, Kept
  <2> QED BY <1>0, <2>1, <2>2, <2>3 DEF TableInv
<1>3. CASE ScanEnd
  <2>1. pc = "scan" /\ UNCHANGED <<flash, tbl, k, pend>> /\ pc' \in {"run", "erase"}
    BY <1>3 DEF ScanEnd
  <2>2. \A s \in BondSlots : s < cfgIdx
    <3>1. PICK n \in 0 .. Slots : LogEnd(flash, n)
      BY <1>0, <2>1 DEF LogInv
    <3>2. cfgIdx \in 0 .. Slots /\ (cfgIdx < Slots => flash[cfgIdx].mark = Blank)
      BY <1>0, <1>3 DEF BoundInv, ScanEnd
    <3>3. n <= cfgIdx
      BY <3>1, <3>2 DEF LogEnd, Cell
    <3> QED BY <3>1, <3>2, <3>3 DEF LogEnd, BondSlots, Bond, Blank, Cell
  <2>3. Scanned' = Scanned
    BY <2>1, <2>2 DEF Scanned, BondSlots
  <2>4. InFlash' = InFlash
    BY <2>1 DEF InFlash, Kept
  <2> QED BY <1>0, <2>1, <2>3, <2>4 DEF TableInv
<1>4. CASE CleanErase
  BY <1>4, EraseHeals DEF Good
<1>5. CASE CleanRewrite
  <2>1. /\ k \in 1 .. Len(tbl) /\ cfgIdx + 2 = k /\ pc = "rewrite"
        /\ tbl' = [tbl EXCEPT ![k].idx = cfgIdx + 1] /\ k' = k + 1 /\ pend' = pend
        /\ pc' = IF k + 1 > Len(tbl) THEN "run" ELSE "rewrite"
    BY <1>0, <1>5 DEF BoundInv, CleanRewrite
  <2>2. flash' = [flash EXCEPT ![cfgIdx + 1] = [mark |-> Bond, adr |-> tbl[k].adr]]
    BY <1>5, FreshRecord DEF CleanRewrite
  <2>3. /\ BondSlots' = BondSlots \cup {cfgIdx + 1}
        /\ \A s \in BondSlots : s < cfgIdx + 1 /\ flash'[s] = flash[s]
        /\ flash'[cfgIdx + 1].adr = tbl[k].adr
    BY <2>1, <2>2, BondAdded
  <2>4. InFlash = 1 .. (k - 1)
    <3>1. InFlash = {i \in DOMAIN tbl : i < k}
      BY <2>1 DEF InFlash, Kept
    <3> DEFINE n == Len(tbl)
    <3>2. DOMAIN tbl = 1 .. n /\ n \in Nat /\ k \in 1 .. n
      BY <1>0, <2>1
    <3> HIDE DEF n
    <3>3. {i \in 1 .. n : i < k} = 1 .. (k - 1)
      BY <3>2
    <3> QED BY <3>1, <3>2, <3>3
  <2>5. Len(tbl') = Len(tbl) /\ DOMAIN tbl' = 1 .. Len(tbl)
    BY <1>0, <2>1
  <2>n. Len(tbl) \in Nat /\ k \in Nat \ {0} /\ k <= Len(tbl)
    BY <1>0, <2>1
  <2>6. InFlash' = 1 .. k
    <3>1. \A i \in 1 .. Len(tbl) : Kept(i)' <=> i <= k
      BY <2>1, <2>n DEF Kept
    <3>2. InFlash' = {i \in 1 .. Len(tbl) : Kept(i)'}
      BY <2>5 DEF InFlash
    <3> QED BY <2>n, <3>1, <3>2
  <2>7. /\ \A i \in 1 .. (k - 1) : tbl'[i] = tbl[i]
        /\ tbl'[k].idx = cfgIdx + 1 /\ tbl'[k].adr = tbl[k].adr
    BY <1>0, <2>1
  <2>8. BondSlots = {tbl[i].idx : i \in 1 .. (k - 1)}
    BY <1>0, <2>1, <2>4 DEF TableInv, Scanned
  <2>9. BondSlots' = {tbl'[i].idx : i \in 1 .. k}
    <3>1. BondSlots = {tbl'[i].idx : i \in 1 .. (k - 1)}
      BY <2>7, <2>8
    <3>2. 1 .. k = (1 .. (k - 1)) \cup {k}
      BY <2>n
    <3> QED BY <2>3, <2>7, <3>1, <3>2
  <2>10. \A i \in 1 .. (k - 1) : tbl[i].idx < cfgIdx + 1 /\ flash'[tbl[i].idx] = flash[tbl[i].idx]
    BY <2>3, <2>8
  <2>11. \A i \in 1 .. k : flash'[tbl'[i].idx].adr = tbl'[i].adr
    <3>1. \A i \in 1 .. (k - 1) : flash[tbl[i].idx].adr = tbl[i].adr
      BY <1>0, <2>1, <2>4 DEF TableInv
    <3>2. \A i \in 1 .. (k - 1) : flash'[tbl'[i].idx].adr = tbl'[i].adr
      BY <2>7, <2>10, <3>1
    <3>3. flash'[tbl'[k].idx].adr = tbl'[k].adr
      BY <2>3, <2>7
    <3> QED BY <2>1, <3>2, <3>3
  <2>12. \A i, j \in 1 .. k : i < j => tbl'[i].idx < tbl'[j].idx
    <3>1. \A i, j \in 1 .. (k - 1) : i < j => tbl[i].idx < tbl[j].idx
      BY <1>0, <2>1, <2>4 DEF TableInv
    <3>2. \A i \in 1 .. (k - 1) : tbl'[i].idx < tbl'[k].idx
      BY <2>7, <2>10
    <3>3. ASSUME NEW i \in 1 .. k, NEW j \in 1 .. k, i < j
          PROVE  tbl'[i].idx < tbl'[j].idx
      <4>1. i \in 1 .. (k - 1) /\ (j = k \/ j \in 1 .. (k - 1))
        BY <2>1, <3>3
      <4> QED BY <2>7, <3>1, <3>2, <3>3, <4>1
    <3> QED BY <3>3
  <2>13. Scanned' = BondSlots'
    BY <2>1 DEF Scanned
  <2> QED BY <1>0, <2>1, <2>5, <2>6, <2>9, <2>11, <2>12, <2>13 DEF TableInv
<1>6. ASSUME NEW a \in Addr, AddBegin(a) PROVE TableInv'
  <2>1. /\ pc = "run" /\ UNCHANGED <<flash, tbl, cfgIdx, k>> /\ pend' = a
        /\ pc' = IF Len(tbl) >= MaxBonds THEN "evict" ELSE "add"
    BY <1>6 DEF AddBegin
  <2>2. InFlash' = InFlash /\ Scanned' = Scanned
    BY <2>1 DEF InFlash, Kept, Scanned, BondSlots
  <2>3. Len(tbl) >= MaxBonds => tbl # <<>>
    BY <1>0
  <2> QED BY <1>0, <2>1, <2>2, <2>3 DEF TableInv
<1>7. CASE Evict
  <2>1. /\ pc = "evict" /\ pc' = "add" /\ flash' = WriteEraseMark(tbl[1].idx)
        /\ tbl' = RemoveAt(tbl, 1) /\ UNCHANGED <<pend, k>> /\ 1 \in InFlash
    BY <1>7, Target DEF Evict
  <2>2. /\ Len(tbl') = Len(tbl) - 1 /\ Len(tbl') \in Nat
        /\ Scanned' = {tbl'[j].idx : j \in InFlash'}
        /\ \A j \in InFlash' : flash'[tbl'[j].idx].adr = tbl'[j].adr
        /\ \A j, l \in InFlash' : j < l => tbl'[j].idx < tbl'[l].idx
    BY <2>1, RemovedEntry
  <2> QED BY <1>0, <2>1, <2>2 DEF TableInv
<1>8. CASE Add
  <2>1. /\ pc = "add" /\ pc' = "run" /\ Len(tbl) < MaxBonds
        /\ tbl' = Append(tbl, [idx |-> cfgIdx + 1, adr |-> pend])
        /\ flash' = [flash EXCEPT ![cfgIdx + 1] = [mark |-> Bond, adr |-> pend]]
    BY <1>0, <1>8, FreshRecord DEF Add, BoundInv
  <2>2. /\ BondSlots' = BondSlots \cup {cfgIdx + 1}
        /\ \A s \in BondSlots : s < cfgIdx + 1 /\ flash'[s] = flash[s]
        /\ flash'[cfgIdx + 1].adr = pend
    BY <2>1, BondAdded
  <2>3. InFlash = 1 .. Len(tbl) /\ BondSlots = {tbl[i].idx : i \in 1 .. Len(tbl)}
    BY <1>0, <2>1, AllKept DEF TableInv, Scanned
  <2>4. /\ Len(tbl') = Len(tbl) + 1 /\ DOMAIN tbl' = 1 .. (Len(tbl) + 1)
        /\ \A i \in 1 .. Len(tbl) : tbl'[i] = tbl[i]
        /\ tbl'[Len(tbl) + 1].idx = cfgIdx + 1 /\ tbl'[Len(tbl) + 1].adr = pend
    BY <1>0, <2>1
  <2>5. InFlash' = 1 .. (Len(tbl) + 1) /\ Scanned' = BondSlots'
    BY <2>1, <2>4 DEF InFlash, Kept, Scanned
  <2>6. BondSlots' = {tbl'[i].idx : i \in 1 .. (Len(tbl) + 1)}
    BY <1>0, <2>2, <2>3, <2>4
  <2>7. \A i \in 1 .. Len(tbl) : tbl[i].idx < cfgIdx + 1 /\ flash'[tbl[i].idx] = flash[tbl[i].idx]
    BY <2>2, <2>3
  <2>8. \A i \in 1 .. (Len(tbl) + 1) : flash'[tbl'[i].idx].adr = tbl'[i].adr
    <3>1. \A i \in 1 .. Len(tbl) : flash[tbl[i].idx].adr = tbl[i].adr
      BY <1>0, <2>1, <2>3 DEF TableInv
    <3>2. \A i \in 1 .. Len(tbl) : flash'[tbl'[i].idx].adr = tbl'[i].adr
      BY <2>4, <2>7, <3>1
    <3>3. flash'[tbl'[Len(tbl) + 1].idx].adr = tbl'[Len(tbl) + 1].adr
      BY <2>2, <2>4
    <3> QED BY <1>0, <3>2, <3>3
  <2>9. \A i, j \in 1 .. (Len(tbl) + 1) : i < j => tbl'[i].idx < tbl'[j].idx
    <3>1. \A i, j \in 1 .. Len(tbl) : i < j => tbl[i].idx < tbl[j].idx
      BY <1>0, <2>1, <2>3 DEF TableInv
    <3>2. \A i \in 1 .. Len(tbl) : tbl'[i].idx < tbl'[Len(tbl) + 1].idx
      BY <2>4, <2>7
    <3>3. ASSUME NEW i \in 1 .. (Len(tbl) + 1), NEW j \in 1 .. (Len(tbl) + 1), i < j
          PROVE  tbl'[i].idx < tbl'[j].idx
      <4>0. \A n \in Nat : \A p, q \in 1 .. (n + 1) :
              p < q => p \in 1 .. n /\ (q = n + 1 \/ q \in 1 .. n)
        OBVIOUS
      <4>1. i \in 1 .. Len(tbl) /\ (j = Len(tbl) + 1 \/ j \in 1 .. Len(tbl))
        BY <1>0, <3>3, <4>0
      <4> QED BY <2>4, <3>1, <3>2, <3>3, <4>1
    <3> QED BY <3>3
  <2> QED BY <1>0, <2>1, <2>4, <2>5, <2>6, <2>8, <2>9 DEF TableInv
<1>9. CASE UnpairBegin
  <2>1. /\ pc = "run" /\ UNCHANGED <<flash, tbl, cfgIdx, pend>> /\ pc' = "unpair" /\ k' = 1
        /\ tbl # <<>>
    BY <1>9 DEF UnpairBegin
  <2>2. InFlash' = InFlash /\ Scanned' = Scanned
    BY <1>0, <2>1 DEF InFlash, Kept, Scanned, BondSlots
  <2>3. 1 \in DOMAIN tbl
    BY <1>0, <2>1
  <2> QED BY <1>0, <2>1, <2>2, <2>3 DEF TableInv
<1>10. CASE Unpair
  <2>1. /\ pc = "unpair" /\ flash' = WriteEraseMark(tbl[k].idx) /\ k' = k + 1 /\ pend' = pend
        /\ k \in DOMAIN tbl /\ k \in InFlash
        /\ IF k = Len(tbl) THEN tbl' = <<>> /\ pc' = "run" ELSE tbl' = tbl /\ pc' = pc
    BY <1>0, <1>10, Target DEF Unpair, BoundInv
  <2>2. InFlash = k .. Len(tbl)
    BY <1>0, <2>1 DEF InFlash, Kept
  <2>3. /\ BondSlots' = {tbl[j].idx : j \in (k .. Len(tbl)) \ {k}}
        /\ \A s \in Cell : flash'[s].adr = flash[s].adr
    BY <2>1, <2>2, BondTaken
  <2>4. CASE k = Len(tbl)
    <3>1. BondSlots' = {}
      <4>1. (k .. Len(tbl)) \ {k} = {}
        BY <1>0, <2>4
      <4> QED BY <2>3, <4>1
    <3>2. tbl' = <<>> /\ pc' = "run"
      BY <2>1, <2>4
    <3>3. Scanned' = {} /\ InFlash' = {}
      BY <3>1, <3>2 DEF Scanned, InFlash
    <3> QED BY <1>0, <3>2, <3>3 DEF TableInv
  <2>5. CASE k # Len(tbl)
    <3>1. tbl' = tbl /\ pc' = "unpair" /\ k' \in DOMAIN tbl'
      <4>1. tbl' = tbl /\ pc' = "unpair" /\ k' = k + 1
        BY <2>1, <2>5
      <4>2. k \in 1 .. Len(tbl) /\ Len(tbl) \in Nat /\ DOMAIN tbl = 1 .. Len(tbl)
        BY <1>0, <2>1
      <4>3. \A n \in Nat : \A m \in 1 .. n : m # n => m + 1 \in 1 .. n
        OBVIOUS
      <4>4. k + 1 \in 1 .. Len(tbl)
        BY <2>5, <4>2, <4>3
      <4> QED BY <4>1, <4>2, <4>4
    <3>2. InFlash' = (k + 1) .. Len(tbl)
      <4>1. InFlash' = {i \in DOMAIN tbl : i >= k + 1}
        BY <2>1, <3>1 DEF InFlash, Kept
      <4> QED BY <1>0, <4>1
    <3>3. Scanned' = {tbl'[j].idx : j \in InFlash'}
      <4>1. (k .. Len(tbl)) \ {k} = (k + 1) .. Len(tbl)
        BY <1>0
      <4> QED BY <2>3, <3>1, <3>2, <4>1 DEF Scanned
    <3>4. InFlash' \subseteq InFlash
      BY <1>0, <2>2, <3>2
    <3>5. \A j \in InFlash' : flash'[tbl'[j].idx].adr = tbl'[j].adr
      <4>1. \A j \in InFlash : j \in DOMAIN tbl /\ flash[tbl[j].idx].adr = tbl[j].adr
        BY <1>0, <2>1 DEF TableInv, InFlash
      <4> QED BY <1>0, <2>3, <3>1, <3>4, <4>1
    <3> QED BY <1>0, <2>1, <3>1, <3>3, <3>4, <3>5 DEF TableInv
  <2> QED BY <2>4, <2>5
<1>11. ASSUME NEW i \in 1 .. MaxBonds, DeleteBegin(i) PROVE TableInv'
  <2>1. /\ pc = "run" /\ UNCHANGED <<flash, tbl, cfgIdx, pend>> /\ pc' = "delete" /\ k' = i
        /\ i \in DOMAIN tbl
    BY <1>11 DEF DeleteBegin
  <2>2. InFlash' = InFlash /\ Scanned' = Scanned
    BY <2>1 DEF InFlash, Kept, Scanned, BondSlots
  <2> QED BY <1>0, <2>1, <2>2 DEF TableInv
<1>12. CASE Delete
  <2>1. /\ pc = "delete" /\ pc' = "run" /\ flash' = WriteEraseMark(tbl[k].idx)
        /\ tbl' = RemoveAt(tbl, k) /\ UNCHANGED <<pend, k>> /\ k \in InFlash
    BY <1>12, Target DEF Delete
  <2>2. /\ Len(tbl') = Len(tbl) - 1 /\ Len(tbl') \in Nat
        /\ Scanned' = {tbl'[j].idx : j \in InFlash'}
        /\ \A j \in InFlash' : flash'[tbl'[j].idx].adr = tbl'[j].adr
        /\ \A j, l \in InFlash' : j < l => tbl'[j].idx < tbl'[l].idx
    BY <2>1, RemovedEntry
  <2> QED BY <1>0, <2>1, <2>2 DEF TableInv
<1>13. CASE PowerCut
  BY <1>0, <1>13 DEF PowerCut, TableInv
<1>14. CASE PowerOn
  <2>1. tbl' = <<>> /\ cfgIdx' = 0 /\ pc' = "scan"
    BY <1>14 DEF PowerOn
  <2>2. Scanned' = {}
    <3>1. BondSlots' \subseteq Nat
      BY CellFacts DEF BondSlots
    <3>2. Scanned' = {s \in BondSlots' : s < 0}
      BY <2>1 DEF Scanned
    <3> HIDE DEF BondSlots
    <3>3. \A s \in BondSlots' : ~(s < 0)
      BY <3>1
    <3> QED BY <3>2, <3>3
  <2>3. InFlash' = {}
    BY <2>1 DEF InFlash
  <2> QED BY <1>0, <2>1, <2>2, <2>3 DEF TableInv
<1> QED
  BY <1>1, <1>2, <1>3, <1>4, <1>5, <1>6, <1>7, <1>8, <1>9, <1>10, <1>11, <1>12,
     <1>13, <1>14 DEF Next, Boot

-----------------------------------------------------------------------------
(* The flash never holds more bonds than the table has places.             *)
LEMMA BondCount ==
  ASSUME Good
  PROVE  /\ Cardinality(BondSlots) \in Nat /\ IsFiniteSet(BondSlots)
         /\ Cardinality(BondSlots) <= MaxBonds
         /\ pc = "add" => Cardinality(BondSlots) < MaxBonds
         /\ pc = "rewrite" => Cardinality(BondSlots) < MaxBonds
<1>0. /\ Cardinality(BondSlots) \in Nat /\ IsFiniteSet(BondSlots) /\ MaxBonds \in Nat
      /\ DOMAIN tbl = 1 .. Len(tbl) /\ Len(tbl) \in Nat /\ Len(tbl) <= MaxBonds
      /\ tbl \in Seq([idx : Cell, adr : Stored]) /\ k \in Nat
  BY CellFacts, EntryType, SizeAssumption DEF BondSlots, Good, BoundInv, TypeOK
<1>1. CASE pc \in {"off", "scan"}
  BY <1>0, <1>1 DEF Good, ReadableInv, ScanInv
<1>2. ASSUME pc \notin {"off", "scan"}
      PROVE  BondSlots = {tbl[i].idx : i \in InFlash} /\ InFlash \subseteq DOMAIN tbl
  BY <1>2 DEF Good, ReadableInv, TableInv, ScanInv, Scanned, InFlash
<1>3. CASE pc \notin {"off", "scan", "rewrite"}
  <2>1. Cardinality(BondSlots) <= Len(tbl)
    BY <1>0, <1>2, <1>3, ImageBound
  <2>2. pc = "add" => Len(tbl) < MaxBonds
    BY DEF Good, BoundInv
  <2> QED BY <1>0, <1>3, <2>1, <2>2
<1>4. CASE pc = "rewrite"
  <2>1. InFlash = 1 .. (k - 1) /\ k \in 1 .. Len(tbl)
    BY <1>0, <1>4 DEF InFlash, Kept, Good, BoundInv
  <2> DEFINE f == [i \in 1 .. (k - 1) |-> tbl[i].idx]
  <2>2. f \in Surjection(1 .. (k - 1), BondSlots)
    BY <1>2, <1>4, <2>1 DEF Surjection
  <2>3. IsFiniteSet(1 .. (k - 1)) /\ Cardinality(1 .. (k - 1)) = k - 1
    <3> DEFINE n == k - 1
    <3>1. n \in Nat
      BY <1>0, <2>1
    <3> HIDE DEF n
    <3>2. IsFiniteSet(1 .. n) /\ Cardinality(1 .. n) = IF 1 > n THEN 0 ELSE n - 1 + 1
      BY <3>1, FS_Interval
    <3>3. IsFiniteSet(1 .. n) /\ Cardinality(1 .. n) = n
      BY <3>1, <3>2
    <3> QED BY <3>3 DEF n
  <2> HIDE DEF f
  <2>4. Cardinality(BondSlots) <= k - 1
    BY <2>2, <2>3, FS_Surjection
  <2> QED BY <1>0, <1>4, <2>1, <2>4
<1> QED BY <1>1, <1>3, <1>4

(* The scan never meets a record it has no place for.                      *)
LEMMA ScanRoom ==
  ASSUME Good, ScanBond
  PROVE  /\ Len(tbl) < MaxBonds
         /\ Cardinality({s \in BondSlots : s >= cfgIdx + 1})
              = Cardinality({s \in BondSlots : s >= cfgIdx}) - 1
<1> DEFINE R == {s \in BondSlots : s >= cfgIdx}
<1>0. /\ BondSlots \subseteq Nat /\ cfgIdx \in BondSlots /\ cfgIdx \in Nat
      /\ Len(tbl) \in Nat /\ MaxBonds \in Nat
  <2>1. cfgIdx \in Cell
    BY SizeAssumption DEF ScanBond, Good, BoundInv, Cell
  <2> QED BY <2>1, CellFacts, EntryType, SizeAssumption DEF BondSlots, ScanBond, Good
<1>1. IsFiniteSet(R) /\ Cardinality(R) \in Nat /\ cfgIdx \in R
  <2>1. R \subseteq Cell
    BY DEF BondSlots
  <2> QED BY <1>0, <2>1, CellFacts
<1>2. {s \in BondSlots : s >= cfgIdx + 1} = R \ {cfgIdx}
  <2>1. \A s \in BondSlots : s >= cfgIdx + 1 <=> s >= cfgIdx /\ s # cfgIdx
    BY <1>0
  <2> QED BY <2>1
<1>3. Cardinality(R \ {cfgIdx}) = Cardinality(R) - 1 /\ Cardinality(R \ {cfgIdx}) \in Nat
  BY <1>1, FS_RemoveElement, FS_CardinalityType
<1>4. Len(tbl) + Cardinality(R) <= MaxBonds
  BY DEF Good, ReadableInv, ScanInv, ScanBond
<1> HIDE DEF R
<1>5. Len(tbl) < MaxBonds
  BY <1>0, <1>1, <1>3, <1>4
<1> QED BY <1>2, <1>3, <1>5 DEF R

LEMMA ScanStep == ASSUME Good, Room, Next, scar' # "open" PROVE ScanInv'
<1>0. /\ cfgIdx \in Int /\ Len(tbl) \in Nat /\ MaxBonds \in Nat /\ ScanInv
      /\ BondSlots \subseteq Nat /\ pc # "trap"
  BY EntryType, CellFacts, SizeAssumption DEF Good, ReadableInv, TypeOK, ScanInv, BondSlots
<1>1. CASE ScanBond
  <2>1. /\ flash' = flash /\ cfgIdx' = cfgIdx + 1 /\ pc' = "scan" /\ pc = "scan"
        /\ tbl' = Append(tbl, [idx |-> cfgIdx, adr |-> flash[cfgIdx].adr])
    BY <1>1, ScanRoom DEF ScanBond
  <2>2. Len(tbl') = Len(tbl) + 1
    BY <2>1 DEF Good, TypeOK
  <2>3. BondSlots' = BondSlots
    BY <2>1 DEF BondSlots
  <2>4. {s \in BondSlots' : s >= cfgIdx'} = {s \in BondSlots : s >= cfgIdx + 1}
    BY <2>1, <2>3
  <2>5. Cardinality({s \in BondSlots : s >= cfgIdx}) \in Nat
    BY CellFacts DEF BondSlots
  <2> QED BY <1>0, <1>1, <2>1, <2>2, <2>3, <2>4, <2>5, ScanRoom DEF ScanInv
<1>2. CASE ScanSkip
  <2>1. /\ flash' = flash /\ tbl' = tbl /\ cfgIdx' = cfgIdx + 1 /\ pc' = "scan" /\ pc = "scan"
        /\ flash[cfgIdx].mark # Bond
    BY <1>2 DEF ScanSkip, Bond, Erased, Junk
  <2>2. BondSlots' = BondSlots /\ cfgIdx \notin BondSlots
    BY <2>1 DEF BondSlots
  <2>3. \A s \in BondSlots : s >= cfgIdx + 1 <=> s >= cfgIdx
    BY <1>0, <2>2
  <2>4. {s \in BondSlots' : s >= cfgIdx'} = {s \in BondSlots : s >= cfgIdx}
    BY <2>1, <2>2, <2>3
  <2> QED BY <1>0, <2>1, <2>2, <2>4 DEF ScanInv
<1>3. CASE PowerCut
  <2>1. pc' = "off" /\ flash' \in AfterCut /\ Readable(flash')
    BY <1>3 DEF PowerCut
  <2>2. Cardinality(BondSlots') <= MaxBonds
    <3>1. CASE BondSlots' \subseteq BondSlots
      <4>1. IsFiniteSet(BondSlots') /\ Cardinality(BondSlots') <= Cardinality(BondSlots)
        BY <3>1, BondCount, FS_Subset
      <4>2. Cardinality(BondSlots') \in Nat
        BY <4>1, FS_CardinalityType
      <4> QED BY <1>0, <4>1, <4>2, BondCount
    <3>2. CASE pc \in {"add", "rewrite"} /\ BondSlots' \subseteq BondSlots \cup {cfgIdx + 1}
      <4>1. /\ IsFiniteSet(BondSlots) /\ Cardinality(BondSlots) \in Nat
            /\ Cardinality(BondSlots) < MaxBonds
        BY <3>2, BondCount
      <4>2. /\ IsFiniteSet(BondSlots \cup {cfgIdx + 1})
            /\ Cardinality(BondSlots \cup {cfgIdx + 1}) \in
                 {Cardinality(BondSlots), Cardinality(BondSlots) + 1}
        BY <4>1, FS_AddElement
      <4>3. IsFiniteSet(BondSlots') /\ Cardinality(BondSlots') <= Cardinality(BondSlots \cup {cfgIdx + 1})
        BY <3>2, <4>2, FS_Subset
      <4>4. Cardinality(BondSlots') \in Nat
        BY <4>3, FS_CardinalityType
      <4> QED BY <1>0, <4>1, <4>2, <4>3, <4>4
    <3> QED BY <2>1, <3>1, <3>2, CutBonds
  <2> QED BY <2>1, <2>2 DEF ScanInv
<1>4. CASE PowerOn
  <2>1. flash' = flash /\ tbl' = <<>> /\ cfgIdx' = 0 /\ pc' = "scan"
    BY <1>4 DEF PowerOn
  <2>2. BondSlots' = BondSlots
    BY <2>1 DEF BondSlots
  <2>3. {s \in BondSlots' : s >= cfgIdx'} = BondSlots
    <3>1. \A s \in BondSlots : s >= 0
      BY <1>0
    <3> QED BY <2>1, <2>2, <3>1
  <2>4. Len(tbl') = 0
    BY <2>1
  <2>5. Cardinality(BondSlots) <= MaxBonds /\ Cardinality(BondSlots) \in Nat
    BY BondCount
  <2>6. /\ Cardinality({s \in BondSlots' : s >= cfgIdx'}) = Cardinality(BondSlots)
        /\ Cardinality(BondSlots') = Cardinality(BondSlots)
    BY <2>2, <2>3
  <2>7. Len(tbl') + Cardinality(BondSlots) <= MaxBonds
    BY <1>0, <2>4, <2>5
  <2> HIDE DEF BondSlots
  <2> QED BY <2>1, <2>5, <2>6, <2>7 DEF ScanInv
<1>5. CASE /\ pc' \notin {"off", "scan", "trap"}
  BY <1>5 DEF ScanInv
<1>6. CASE ScanEnd \/ CleanErase \/ CleanRewrite \/ Evict \/ Add \/ UnpairBegin \/ Unpair \/ Delete
  BY <1>5, <1>6 DEF ScanEnd, CleanErase, CleanRewrite, Evict, Add, UnpairBegin, Unpair, Delete
<1>7. ASSUME NEW a \in Addr, AddBegin(a) PROVE ScanInv'
  BY <1>5, <1>7 DEF AddBegin
<1>8. ASSUME NEW i \in 1 .. MaxBonds, DeleteBegin(i) PROVE ScanInv'
  BY <1>5, <1>8 DEF DeleteBegin
<1> QED BY <1>1, <1>2, <1>3, <1>4, <1>6, <1>7, <1>8 DEF Next, Boot

-----------------------------------------------------------------------------
LEMMA InitInv == Init => IInv
<1> SUFFICES ASSUME Init PROVE IInv
  OBVIOUS
<1> USE SizeAssumption
<1>1. TypeOK
  <2>1. flash \in [Cell -> [mark : Marks, adr : Stored]]
    BY DEF Init, Marks, Stored
  <2>2. tbl \in Seq([idx : Cell, adr : Stored])
    BY EmptySeq DEF Init
  <2>3. /\ pc \in PCs /\ cfgIdx \in Int /\ pend \in Addr \cup {Blank} /\ k \in Nat
        /\ adds \in 0 .. AddsPerCycle
    BY DEF Init, PCs
  <2>4. owed \subseteq Addr /\ dropped \subseteq Stored /\ cleanCut \in BOOLEAN /\ scar \in {"none", "open", "healed"}
    BY DEF Init
  <2> QED BY <2>1, <2>2, <2>3, <2>4 DEF TypeOK
<1>2. \A i \in Cell : flash[i].mark = Blank /\ flash[i].adr = Blank
  BY DEF Init
<1>3. BondSlots = {}
  BY <1>2 DEF BondSlots, Bond, Blank
<1>4. LogInv
  <2>1. LogEnd(flash, 0)
    BY <1>2 DEF LogEnd, Cell
  <2> QED BY <1>2, <2>1 DEF LogInv, Init, Open, Cell
<1>5. TableInv
  <2>1. Scanned = {} /\ InFlash = {}
    BY <1>3 DEF Scanned, InFlash, Init
  <2> QED BY <2>1 DEF TableInv, Init
<1>6. ScanInv
  <2>1. {s \in BondSlots : s >= cfgIdx} = {} /\ Cardinality({}) = 0
    BY <1>3, FS_EmptySet
  <2> QED BY <1>3, <2>1 DEF ScanInv, Init
<1>7. BoundInv
  <2>1. \A i \in Cell : flash[i] = [mark |-> Blank, adr |-> Blank]
    BY DEF Init
  <2> QED BY <2>1 DEF BoundInv, Init, WithinSector, Open
<1> QED BY <1>1, <1>4, <1>5, <1>6, <1>7 DEF IInv, ReadableInv

LEMMA StutterInv == IInv /\ UNCHANGED vars => IInv'
<1> SUFFICES ASSUME IInv, UNCHANGED vars PROVE IInv'
  OBVIOUS
<1>1. TypeOK' /\ BoundInv' /\ scar' = scar
  BY DEF IInv, vars, TypeOK, BoundInv, WithinSector
<1>2. ASSUME ReadableInv PROVE ReadableInv'
  BY <1>2 DEF vars, ReadableInv, LogInv, TableInv, ScanInv, Scanned, InFlash, Kept, BondSlots
<1> QED BY <1>1, <1>2 DEF IInv

(* A sector once unreadable stays so until its next whole erase, and the   *)
(* history of the bonds ends with the first one.                           *)
LEMMA ScarStep ==
  ASSUME Next
  PROVE  /\ scar = "open" /\ scar' # "open" => CleanErase
         /\ scar' = "none" => scar = "none"
<1>1. CASE Boot
  BY <1>1 DEF Boot, ScanBond, ScanSkip, ScanEnd, CleanErase, CleanRewrite, history
<1>2. ASSUME NEW a \in Addr, AddBegin(a) PROVE scar' = scar
  BY <1>2 DEF AddBegin
<1>3. CASE Evict \/ Add \/ UnpairBegin \/ Unpair \/ Delete \/ PowerCut \/ PowerOn
  BY <1>3 DEF Evict, Add, UnpairBegin, Unpair, Delete, PowerCut, PowerOn, history
<1>4. ASSUME NEW i \in 1 .. MaxBonds, DeleteBegin(i) PROVE scar' = scar
  BY <1>4 DEF DeleteBegin
<1> QED BY <1>1, <1>2, <1>3, <1>4 DEF Next

(* The inductive invariant holds in every reachable state, when the sector *)
(* has room for the pairings of a power cycle.                             *)
LEMMA InvStep == ASSUME Room, IInv, Next PROVE IInv'
<1>1. TypeOK' /\ BoundInv'
  BY TypeStep, BoundStep DEF IInv
<1>2. ASSUME scar' # "open" PROVE ReadableInv'
  <2>1. CASE scar = "open"
    BY <1>2, <2>1, ScarStep, EraseHeals DEF IInv, ReadableInv
  <2>2. CASE scar # "open"
    BY <1>2, <2>2, LogStep, TableStep, ScanStep DEF IInv, ReadableInv, Good
  <2> QED BY <2>1, <2>2
<1> QED BY <1>1, <1>2 DEF IInv

THEOREM Invariance == ASSUME Room PROVE Spec => []IInv
<1>1. IInv /\ [Next]_vars => IInv'
  BY InvStep, StutterInv
<1> QED BY <1>1, InitInv, PTL DEF Spec

(* The variables keep their types.                                         *)
THEOREM TypeCorrect == ASSUME Room PROVE Spec => []TypeOK
<1>1. IInv => TypeOK
  BY DEF IInv
<1> QED BY <1>1, Invariance, PTL

(* app_pair.c:235: the boot of the dongle ends in the while(1) that        *)
(* follows a surplus bond record only in a sector that a power failure     *)
(* left unreadable as a log and that was not erased whole since.           *)
THEOREM BootNeverTraps == ASSUME Room PROVE Spec => []NeverTrapped
<1>1. IInv => NeverTrapped
  BY DEF IInv, ReadableInv, ScanInv, NeverTrapped
<1> QED BY <1>1, Invariance, PTL

(* While the main loop is idle, RAM and flash hold the same bonds in the   *)
(* same order, so that a power failure there loses none; but in such a     *)
(* sector.                                                                 *)
THEOREM RebootIsSafe == ASSUME Room PROVE Spec => []RebootKeepsTable
<1>1. IInv => RebootKeepsTable
  <2> SUFFICES ASSUME Good, pc = "run" PROVE SameBonds /\ WithinSector
    BY DEF RebootKeepsTable, IInv, Good
  <2>1. InFlash = DOMAIN tbl
    BY AllKept
  <2>2. /\ BondSlots = {tbl[i].idx : i \in DOMAIN tbl}
        /\ \A i \in DOMAIN tbl : flash[tbl[i].idx].adr = tbl[i].adr
        /\ \A i, j \in DOMAIN tbl : i < j => tbl[i].idx < tbl[j].idx
    BY <2>1 DEF Good, ReadableInv, TableInv, Scanned
  <2>3. cfgIdx + 1 \in 0 .. Slots /\ LogEnd(flash, cfgIdx + 1) /\ cfgIdx \in Int
    BY NextSlot DEF Good, ReadableInv, LogInv, Open, TypeOK
  <2>4. ASSUME NEW i \in DOMAIN tbl
        PROVE  \A j \in 0 .. tbl[i].idx : flash[j].mark # Blank
    <3>1. tbl[i].idx \in Cell /\ flash[tbl[i].idx].mark = Bond
      BY <2>1, BondRecord
    <3>2. tbl[i].idx < cfgIdx + 1
      BY <2>3, <3>1 DEF LogEnd, Bond, Blank, Cell
    <3> QED BY <2>3, <3>1, <3>2, SizeAssumption DEF LogEnd, Cell
  <2>5. WithinSector
    BY DEF Good, BoundInv
  <2> QED BY <2>2, <2>4, <2>5 DEF SameBonds, Indexes
<1> QED BY <1>1, Invariance, PTL
-----------------------------------------------------------------------------
(* What a step does to the flash: nothing, the next record of the log, one *)
(* bond mark less, or the erase of the clean, whole or torn.               *)
LEMMA FlashStep ==
  ASSUME Good, Room, Next
  PROVE  \/ flash' = flash
         \/ /\ pc \in {"add", "rewrite"}
            /\ \E r \in RecordsOf(Written) : flash' = [flash EXCEPT ![cfgIdx + 1] = r]
         \/ /\ pc \in {"evict", "unpair", "delete"}
            /\ \E m \in {Erased, Junk} : flash' = [flash EXCEPT ![tbl[Marked].idx].mark = m]
         \/ pc = "erase" /\ (CleanErase \/ (PowerCut /\ flash' \in TornErase))
<1>1. CASE CleanRewrite \/ Add
  <2>1. pc \in {"add", "rewrite"} /\ flash' \in WriteRecord(cfgIdx + 1, Written)
    BY <1>1 DEF CleanRewrite, Add, Written
  <2>2. flash' = [flash EXCEPT ![cfgIdx + 1] = [mark |-> Bond, adr |-> Written]]
    BY <2>1, FreshRecord
  <2> QED BY <2>1, <2>2 DEF RecordsOf
<1>2. CASE Evict \/ Unpair \/ Delete
  <2>1. pc \in {"evict", "unpair", "delete"} /\ flash' = WriteEraseMark(tbl[Marked].idx)
    BY <1>2 DEF Evict, Unpair, Delete, Marked
  <2>2. Marked \in InFlash
    BY <2>1, Target DEF Marked
  <2> QED BY <2>1, <2>2, BondRecord
<1>3. CASE PowerCut
  <2>1. flash' \in AfterCut
    BY <1>3 DEF PowerCut
  <2> QED BY <1>3, <2>1, CutRecord
<1>4. CASE CleanErase
  <2>1. pc = "erase"
    BY <1>4 DEF CleanErase
  <2> QED BY <1>4, <2>1
<1>5. CASE ScanBond \/ ScanSkip \/ ScanEnd \/ UnpairBegin \/ PowerOn
  BY <1>5 DEF ScanBond, ScanSkip, ScanEnd, UnpairBegin, PowerOn
<1>6. ASSUME NEW a \in Addr, AddBegin(a) PROVE flash' = flash
  BY <1>6 DEF AddBegin
<1>7. ASSUME NEW i \in 1 .. MaxBonds, DeleteBegin(i) PROVE flash' = flash
  BY <1>7 DEF DeleteBegin
<1> QED BY <1>1, <1>2, <1>3, <1>4, <1>5, <1>6, <1>7 DEF Next, Boot

(* What a program does to the cells that are not blank.                    *)
LEMMA CellStep ==
  ASSUME Good, Room, Next, pc # "erase", NEW s \in Cell, flash[s].mark # Blank
  PROVE  /\ flash'[s].adr = flash[s].adr
         /\ flash'[s].mark = flash[s].mark \/ flash[s].mark = Bond
<1>1. flash \in [Cell -> [mark : Marks, adr : Stored]]
  BY DEF Good, TypeOK
<1>2. CASE /\ pc \in {"add", "rewrite"}
           /\ \E r \in RecordsOf(Written) : flash' = [flash EXCEPT ![cfgIdx + 1] = r]
  <2>1. flash[cfgIdx + 1].mark = Blank
    BY <1>2, FreshRecord
  <2> QED BY <1>1, <1>2, <2>1
<1>3. CASE /\ pc \in {"evict", "unpair", "delete"}
           /\ \E m \in {Erased, Junk} : flash' = [flash EXCEPT ![tbl[Marked].idx].mark = m]
  <2>1. Marked \in InFlash
    BY <1>3, Target DEF Marked
  <2>2. flash[tbl[Marked].idx].mark = Bond
    BY <1>3, <2>1, BondRecord
  <2> QED BY <1>1, <1>3, <2>2
<1> QED BY <1>2, <1>3, FlashStep

LEMMA NeverUnmarked ==
  ASSUME Good, Room, Next, pc # "erase"
  PROVE  \A i \in 0 .. (Slots - 1) : flash[i].mark # Blank =>
           /\ flash'[i].adr = flash[i].adr
           /\ flash'[i].mark = flash[i].mark \/ flash[i].mark = Bond \/ flash'[i].mark = Erased
<1>1. 0 .. (Slots - 1) \subseteq Cell
  BY SizeAssumption DEF Cell
<1> QED BY <1>1, CellStep

LEMMA OldestGoes ==
  ASSUME Good, Room, Next, pc = "evict", pc' = "add"
  PROVE  \A i \in BondSlots', j \in BondSlots \ BondSlots' : j < i
<1>1. flash' = WriteEraseMark(tbl[1].idx)
  <2>1. ~Boot /\ ~Add /\ ~UnpairBegin /\ ~Unpair /\ ~Delete /\ ~PowerCut /\ ~PowerOn
    BY DEF Boot, ScanBond, ScanSkip, ScanEnd, CleanErase, CleanRewrite, Add, UnpairBegin, Unpair,
           Delete, PowerCut, PowerOn
  <2>2. (\A a \in Addr : ~AddBegin(a)) /\ (\A i \in 1 .. MaxBonds : ~DeleteBegin(i))
    BY DEF AddBegin, DeleteBegin
  <2> QED BY <2>1, <2>2 DEF Next, Evict
<1>2. 1 \in InFlash /\ InFlash = DOMAIN tbl
  BY Target, AllKept
<1>3. BondSlots' = {tbl[j].idx : j \in InFlash \ {1}}
  BY <1>1, <1>2, BondTaken
<1>4. /\ BondSlots = {tbl[j].idx : j \in InFlash}
      /\ \A i, j \in InFlash : i < j => tbl[i].idx < tbl[j].idx
  BY DEF Good, ReadableInv, TableInv, Scanned
<1>5. \A j \in InFlash \ {1} : 1 < j
  BY <1>2, EntryType DEF Good
<1>6. BondSlots \ BondSlots' \subseteq {tbl[1].idx}
  BY <1>3, <1>4
<1>7. \A j \in InFlash \ {1} : tbl[1].idx < tbl[j].idx
  BY <1>2, <1>4, <1>5
<1> QED BY <1>3, <1>6, <1>7

(* app_pair.c:76-119: a log that reads as one is only appended to and      *)
(* marked, never rewritten in place, and what an eviction marks is the     *)
(* oldest bond, over any number of evictions, deletions, power failures    *)
(* and cleans.                                                             *)
THEOREM LogIsDisciplined == ASSUME Room PROVE Spec => LogDiscipline
<1>1. IInv /\ [Next]_vars =>
        [pc = "evict" /\ pc' = "add" /\ scar # "open" =>
           \A i \in BondSlots', j \in BondSlots \ BondSlots' : j < i]_vars
  BY OldestGoes DEF IInv, Good
<1>2. IInv /\ [Next]_vars =>
        [pc # "erase" /\ scar # "open" =>
           \A i \in 0 .. (Slots - 1) : flash[i].mark # Blank =>
             /\ flash'[i].adr = flash[i].adr
             /\ flash'[i].mark = flash[i].mark \/ flash[i].mark = Bond
                                               \/ flash'[i].mark = Erased]_vars
  BY NeverUnmarked DEF IInv, Good
<1> QED BY <1>1, <1>2, Invariance, PTL DEF Spec, LogDiscipline, EvictsOldest, AppendOnly
-----------------------------------------------------------------------------
(* The bonds that come back, in a log that was always readable: every      *)
(* address recorded once, in particular not the one being added; those     *)
(* that are owed recorded, or about to be rewritten by the clean; those    *)
(* that were removed not.  Bonds with a torn address may be many.          *)
Recorded == {flash[s].adr : s \in BondSlots}

OnceInv ==
  /\ \A s, t \in BondSlots : flash[s].adr \in Addr /\ flash[s].adr = flash[t].adr => s = t
  /\ pc = "rewrite" =>
       \A i, j \in DOMAIN tbl : tbl[i].adr \in Addr /\ tbl[i].adr = tbl[j].adr => i = j
  /\ pc \in {"evict", "add"} => pend \notin Recorded

OwedInv ==
  /\ ~cleanCut => owed \subseteq IF pc = "rewrite" THEN Addresses(tbl) ELSE Recorded
  /\ pc = "evict" => tbl[1].adr \notin owed
  /\ pc = "delete" => tbl[k].adr \notin owed
  /\ pc = "unpair" => owed = {}

DroppedInv ==
  /\ dropped \cap Recorded \cap Addr = {}
  /\ pc = "rewrite" => dropped \cap Addresses(tbl) \cap Addr = {}
  /\ pc \in {"evict", "add"} => pend \notin dropped

HistoryInv == OnceInv /\ OwedInv /\ DroppedInv

(* A table and the records its entries point to have the same addresses.   *)
LEMMA TableIsRecorded ==
  ASSUME Good, pc \in {"erase", "run", "evict", "add", "delete"}
  PROVE  Addresses(tbl) = Recorded
<1>1. Scanned = BondSlots /\ InFlash = DOMAIN tbl
  BY AllKept DEF Scanned
<1>2. /\ BondSlots = {tbl[i].idx : i \in DOMAIN tbl}
      /\ \A i \in DOMAIN tbl : flash[tbl[i].idx].adr = tbl[i].adr
  BY <1>1 DEF Good, ReadableInv, TableInv
<1> QED BY <1>2 DEF Recorded, Addresses

LEMMA MarkedRecord ==
  ASSUME Good, pc \in {"evict", "unpair", "delete"}
  PROVE  /\ Marked \in InFlash /\ tbl[Marked].idx \in BondSlots
         /\ flash[tbl[Marked].idx].adr = tbl[Marked].adr
<1>1. Marked \in InFlash
  BY Target DEF Marked
<1> QED BY <1>1, BondRecord DEF BondSlots

(* What a torn erase leaves of the addresses.                              *)
LEMMA ErasedAddress ==
  ASSUME Good, NEW f \in TornErase, NEW s \in Cell, f[s].adr \in Addr
  PROVE  f[s].adr = flash[s].adr
<1>1. PICK left \in [0 .. (Slots - 1) -> EraseLeaves] :
        f = [i \in Cell |-> IF i < Slots THEN Left(flash[i], left[i]) ELSE flash[i]]
  BY DEF TornErase
<1>2. f[s] = IF s < Slots THEN Left(flash[s], left[s]) ELSE flash[s]
  BY <1>1
<1>3. CASE s < Slots
  <2>1. s \in 0 .. (Slots - 1)
    BY <1>3, CellFacts, SizeAssumption
  <2>2. left[s] \in EraseLeaves
    BY <2>1
  <2>3. left[s].adr \in {Blank, Junk, AsItWas}
    BY <2>2, EraseAssumption
  <2>4. f[s].adr = IF left[s].adr = AsItWas THEN flash[s].adr ELSE left[s].adr
    BY <1>2, <1>3 DEF Left
  <2>5. Blank \notin Addr /\ Junk \notin Addr
    BY AddrAssumption DEF Marks
  <2> QED BY <2>3, <2>4, <2>5
<1> QED BY <1>2, <1>3

(* Every bond record after a step was there before or is the one written;  *)
(* every one before it, the erase apart, is still there or was marked.     *)
LEMMA BondsAfter ==
  ASSUME Good, Room, Next, scar' # "open", NEW s \in BondSlots', flash'[s].adr \in Addr
  PROVE  \/ s \in BondSlots /\ flash'[s].adr = flash[s].adr
         \/ pc \in {"add", "rewrite"} /\ s = cfgIdx + 1 /\ flash'[s].adr = Written
<1>1. flash \in [Cell -> [mark : Marks, adr : Stored]] /\ s \in Cell /\ flash'[s].mark = Bond
  BY DEF Good, TypeOK, BondSlots
<1>2. CASE flash' = flash
  BY <1>1, <1>2 DEF BondSlots
<1>3. CASE /\ pc \in {"add", "rewrite"}
           /\ \E r \in RecordsOf(Written) : flash' = [flash EXCEPT ![cfgIdx + 1] = r]
  <2>1. PICK r \in RecordsOf(Written) : flash' = [flash EXCEPT ![cfgIdx + 1] = r]
    BY <1>3
  <2>2. r.adr \in Addr => r.adr = Written
    BY AddrAssumption DEF RecordsOf, Marks
  <2>3. CASE s = cfgIdx + 1
    BY <1>1, <1>3, <2>1, <2>2, <2>3
  <2>4. CASE s # cfgIdx + 1
    BY <1>1, <2>1, <2>4 DEF BondSlots
  <2> QED BY <2>3, <2>4
<1>4. CASE /\ pc \in {"evict", "unpair", "delete"}
           /\ \E m \in {Erased, Junk} : flash' = [flash EXCEPT ![tbl[Marked].idx].mark = m]
  BY <1>1, <1>4 DEF BondSlots, Bond, Erased, Junk
<1>5. CASE CleanErase
  <2>1. flash' = [i \in Cell |-> IF i < Slots THEN [mark |-> Blank, adr |-> Blank] ELSE flash[i]]
    BY <1>5 DEF CleanErase
  <2>2. flash'[s] = flash[s]
    BY <1>1, <2>1 DEF Bond, Blank
  <2> QED BY <1>1, <2>2 DEF BondSlots
<1>6. CASE pc = "erase" /\ PowerCut /\ flash' \in TornErase
  <2>1. flash'[s].adr = flash[s].adr
    BY <1>1, <1>6, ErasedAddress
  <2>2. Readable(flash')
    BY <1>6 DEF PowerCut
  <2>3. flash[s].mark = Bond
    BY <1>1, <1>6, <2>2 DEF Readable
  <2> QED BY <1>1, <2>1, <2>3 DEF BondSlots
<1> QED BY <1>2, <1>3, <1>4, <1>5, <1>6, FlashStep

LEMMA BondsKept ==
  ASSUME Good, Room, Next, pc # "erase" \/ flash' = flash, NEW s \in BondSlots
  PROVE  /\ flash'[s].adr = flash[s].adr
         /\ \/ s \in BondSlots'
            \/ pc \in {"evict", "unpair", "delete"} /\ s = tbl[Marked].idx
<1>1. flash \in [Cell -> [mark : Marks, adr : Stored]] /\ s \in Cell /\ flash[s].mark = Bond
  BY DEF Good, TypeOK, BondSlots
<1>2. CASE flash' = flash
  BY <1>1, <1>2 DEF BondSlots
<1>3. CASE /\ pc \in {"add", "rewrite"}
           /\ \E r \in RecordsOf(Written) : flash' = [flash EXCEPT ![cfgIdx + 1] = r]
  <2>1. flash[cfgIdx + 1].mark = Blank
    BY <1>3, FreshRecord
  <2> QED BY <1>1, <1>3, <2>1 DEF BondSlots, Bond, Blank
<1>4. CASE /\ pc \in {"evict", "unpair", "delete"}
           /\ \E m \in {Erased, Junk} : flash' = [flash EXCEPT ![tbl[Marked].idx].mark = m]
  BY <1>1, <1>4 DEF BondSlots
<1> QED BY <1>2, <1>3, <1>4, FlashStep

(* No step records an address twice, or one that was removed; none loses   *)
(* one that is owed, outside the clean.                                    *)
LEMMA RecordedOnce ==
  ASSUME Good, HistoryInv, Room, Next, scar' # "open"
  PROVE  \A s, t \in BondSlots' :
           flash'[s].adr \in Addr /\ flash'[s].adr = flash'[t].adr => s = t
<1>1. ASSUME pc \in {"add", "rewrite"}, NEW t \in BondSlots, Written \in Addr
      PROVE  flash[t].adr # Written
  <2>1. CASE pc = "add"
    BY <2>1 DEF HistoryInv, OnceInv, Recorded, Written
  <2>2. CASE pc = "rewrite"
    <3>1. PICK i \in InFlash : t = tbl[i].idx /\ flash[t].adr = tbl[i].adr
      BY <2>2 DEF Good, ReadableInv, TableInv, Scanned
    <3>2. i \in DOMAIN tbl /\ k \in DOMAIN tbl /\ i < k
      BY <2>2 DEF InFlash, Kept, Good, BoundInv
    <3>3. i # k
      BY <3>2, EntryType DEF Good
    <3> QED BY <1>1, <2>2, <3>1, <3>2, <3>3 DEF HistoryInv, OnceInv, Written
  <2> QED BY <1>1, <2>1, <2>2
<1>2. \A s, t \in BondSlots : flash[s].adr \in Addr /\ flash[s].adr = flash[t].adr => s = t
  BY DEF HistoryInv, OnceInv
<1>3. ASSUME NEW s \in BondSlots', NEW t \in BondSlots',
             flash'[s].adr \in Addr, flash'[s].adr = flash'[t].adr
      PROVE  s = t
  <2>1. /\ \/ s \in BondSlots /\ flash'[s].adr = flash[s].adr
           \/ pc \in {"add", "rewrite"} /\ s = cfgIdx + 1 /\ flash'[s].adr = Written
        /\ \/ t \in BondSlots /\ flash'[t].adr = flash[t].adr
           \/ pc \in {"add", "rewrite"} /\ t = cfgIdx + 1 /\ flash'[t].adr = Written
    BY <1>3, BondsAfter
  <2> QED BY <1>1, <1>2, <1>3, <2>1
<1> QED BY <1>3

LEMMA DroppedStays ==
  ASSUME Good, HistoryInv, Room, Next, scar' # "open"
  PROVE  dropped \cap Recorded' \cap Addr = {}
<1>1. pc \in {"add", "rewrite"} /\ Written \in Addr => Written \notin dropped
  <2>1. pc = "rewrite" => tbl[k].adr \in Addresses(tbl)
    BY DEF Good, BoundInv, Addresses
  <2> QED BY <2>1 DEF HistoryInv, DroppedInv, Written
<1>2. ASSUME NEW s \in BondSlots', flash'[s].adr \in Addr PROVE flash'[s].adr \notin dropped
  <2>1. CASE s \in BondSlots /\ flash'[s].adr = flash[s].adr
    BY <1>2, <2>1 DEF HistoryInv, DroppedInv, Recorded
  <2> QED BY <1>1, <1>2, <2>1, BondsAfter
<1> QED BY <1>2 DEF Recorded

LEMMA OwedStays ==
  ASSUME Good, HistoryInv, Room, Next, pc # "erase" \/ flash' = flash, pc # "rewrite", ~cleanCut
  PROVE  owed \subseteq Recorded'
<1> SUFFICES ASSUME NEW a \in owed PROVE a \in Recorded'
  OBVIOUS
<1>1. PICK s \in BondSlots : a = flash[s].adr
  BY DEF HistoryInv, OwedInv, Recorded
<1>2. ~(pc \in {"evict", "unpair", "delete"} /\ s = tbl[Marked].idx)
  BY <1>1, MarkedRecord DEF HistoryInv, OwedInv, Marked
<1>3. s \in BondSlots' /\ flash'[s].adr = a
  BY <1>1, <1>2, BondsKept
<1> QED BY <1>3 DEF Recorded

(* The record an eviction or a deletion marks was the only one of its      *)
(* slave.                                                                  *)
LEMMA RemovedIsGone ==
  ASSUME Good, HistoryInv, Room, Next, pc \in {"evict", "delete"}, scar' # "open",
         flash' = WriteEraseMark(tbl[Marked].idx), tbl[Marked].adr \in Addr
  PROVE  tbl[Marked].adr \notin Recorded'
<1>1. /\ Marked \in InFlash /\ tbl[Marked].idx \in BondSlots
      /\ flash[tbl[Marked].idx].adr = tbl[Marked].adr
  BY MarkedRecord
<1>2. BondSlots' = {tbl[j].idx : j \in InFlash \ {Marked}}
  BY <1>1, BondTaken
<1>3. ASSUME NEW s \in BondSlots', flash'[s].adr = tbl[Marked].adr PROVE FALSE
  <2>1. s \in BondSlots /\ flash[s].adr = tbl[Marked].adr
    BY <1>3, BondsAfter
  <2>2. s = tbl[Marked].idx
    BY <1>1, <2>1 DEF HistoryInv, OnceInv
  <2>3. \A j \in InFlash \ {Marked} : tbl[j].idx # tbl[Marked].idx
    BY <1>1, DistinctIndexes
  <2> QED BY <1>2, <2>2, <2>3
<1> QED BY <1>3 DEF Recorded
-----------------------------------------------------------------------------
(* Which step leads where.                                                 *)
LEMMA EnteredBy ==
  ASSUME Next
  PROVE  /\ pc' = "rewrite" => CleanErase \/ CleanRewrite
         /\ pc' = "evict" => \E a \in Addr : AddBegin(a)
         /\ pc' = "add" => Evict \/ \E a \in Addr : AddBegin(a)
         /\ pc' = "unpair" => UnpairBegin \/ Unpair
         /\ pc' = "delete" => \E i \in 1 .. MaxBonds : DeleteBegin(i)
<1>1. CASE Boot
  BY <1>1 DEF Boot, ScanBond, ScanSkip, ScanEnd, CleanErase, CleanRewrite
<1>2. ASSUME NEW a \in Addr, AddBegin(a) PROVE pc' \in {"evict", "add"}
  BY <1>2 DEF AddBegin
<1>3. Evict => pc' = "add"
  BY DEF Evict
<1>4. CASE Add \/ UnpairBegin \/ Unpair \/ Delete \/ PowerCut \/ PowerOn
  BY <1>4 DEF Add, UnpairBegin, Unpair, Delete, PowerCut, PowerOn
<1>5. ASSUME NEW i \in 1 .. MaxBonds, DeleteBegin(i) PROVE pc' = "delete"
  BY <1>5 DEF DeleteBegin
<1> QED BY <1>1, <1>2, <1>3, <1>4, <1>5 DEF Next

(* The clean rewrites the addresses it found.                              *)
LEMMA RewriteKeeps ==
  ASSUME Good, CleanRewrite
  PROVE  /\ DOMAIN tbl' = DOMAIN tbl /\ \A i \in DOMAIN tbl : tbl'[i].adr = tbl[i].adr
         /\ Addresses(tbl') = Addresses(tbl) /\ UNCHANGED <<owed, dropped, cleanCut>>
<1>1. tbl' = [tbl EXCEPT ![k].idx = cfgIdx + 1] /\ UNCHANGED <<owed, dropped, cleanCut>>
  BY DEF CleanRewrite, history
<1>2. \A i \in DOMAIN tbl : tbl[i] \in [idx : Cell, adr : Stored]
  BY EntryType DEF Good
<1>3. DOMAIN tbl' = DOMAIN tbl /\ \A i \in DOMAIN tbl : tbl'[i].adr = tbl[i].adr
  BY <1>1, <1>2
<1> QED BY <1>1, <1>3 DEF Addresses

LEMMA EraseKeeps ==
  ASSUME Good, CleanErase
  PROVE  /\ pc = "erase" /\ tbl' = tbl /\ UNCHANGED <<owed, dropped, cleanCut>>
         /\ pc' = (IF tbl = <<>> THEN "run" ELSE "rewrite")
         /\ Addresses(tbl) = Recorded
BY TableIsRecorded DEF CleanErase, history

LEMMA BeginKeeps ==
  ASSUME Good, NEW a \in Addr, AddBegin(a)
  PROVE  /\ Recorded' = Recorded /\ a \notin Recorded /\ pend' = a /\ tbl' = tbl
         /\ dropped' = dropped \ {a} /\ cleanCut' = cleanCut
         /\ owed' \subseteq owed
         /\ pc' = "evict" => tbl[1].adr \notin owed'
         /\ pc = "run" /\ pc' \in {"evict", "add"}
<1>1. flash' = flash /\ pc = "run" /\ a \notin Addresses(tbl)
  BY DEF AddBegin, Search
<1>2. Addresses(tbl) = Recorded
  BY <1>1, TableIsRecorded
<1>3. Recorded' = Recorded
  BY <1>1 DEF Recorded, BondSlots
<1> QED BY <1>1, <1>2, <1>3 DEF AddBegin

LEMMA OnceStep ==
  ASSUME Good, HistoryInv, Room, Next, scar' # "open" PROVE OnceInv'
<1>1. ASSUME pc' = "rewrite"
      PROVE  \A i, j \in DOMAIN tbl' :
               tbl'[i].adr \in Addr /\ tbl'[i].adr = tbl'[j].adr => i = j
  <2>1. CASE CleanErase
    <3>1. pc = "erase" /\ tbl' = tbl /\ InFlash = DOMAIN tbl
      BY <2>1, EraseKeeps, AllKept
    <3>2. ASSUME NEW i \in DOMAIN tbl, NEW j \in DOMAIN tbl,
                 tbl[i].adr \in Addr, tbl[i].adr = tbl[j].adr
          PROVE  i = j
      <4>1. /\ tbl[i].idx \in BondSlots /\ flash[tbl[i].idx].adr = tbl[i].adr
            /\ tbl[j].idx \in BondSlots /\ flash[tbl[j].idx].adr = tbl[j].adr
        BY <3>1 DEF Good, ReadableInv, TableInv, Scanned
      <4>2. tbl[i].idx = tbl[j].idx
        BY <3>2, <4>1 DEF HistoryInv, OnceInv
      <4> QED BY <3>1, <4>2, DistinctIndexes
    <3> QED BY <3>1, <3>2
  <2>2. CASE CleanRewrite
    <3>1. pc = "rewrite"
      BY <2>2 DEF CleanRewrite
    <3> QED BY <2>2, <3>1, RewriteKeeps DEF HistoryInv, OnceInv
  <2> QED BY <1>1, <2>1, <2>2, EnteredBy
<1>2. ASSUME NEW a \in Addr, AddBegin(a) PROVE pend' \notin Recorded'
  BY <1>2, BeginKeeps
<1>3. CASE Evict
  <2>1. pc = "evict" /\ pend' = pend
    BY <1>3 DEF Evict
  <2>2. Recorded' \cap Addr \subseteq Recorded
    <3>1. ASSUME NEW s \in BondSlots', flash'[s].adr \in Addr
          PROVE  s \in BondSlots /\ flash'[s].adr = flash[s].adr
      BY <2>1, <3>1, BondsAfter
    <3> QED BY <3>1 DEF Recorded
  <2>3. pend \in Addr /\ pend \notin Recorded
    BY <2>1 DEF Good, BoundInv, HistoryInv, OnceInv
  <2> QED BY <1>1, <2>1, <2>2, <2>3, RecordedOnce DEF OnceInv
<1> QED BY <1>1, <1>2, <1>3, RecordedOnce, EnteredBy DEF OnceInv

LEMMA DroppedStep ==
  ASSUME Good, Good', HistoryInv, Room, Next, scar' # "open" PROVE DroppedInv'
<1>1. CASE CleanErase \/ CleanRewrite
  <2>1. UNCHANGED <<dropped, cleanCut>> /\ pc' \notin {"evict", "add"}
    BY <1>1, EraseKeeps, RewriteKeeps DEF CleanRewrite
  <2>2. dropped \cap Addresses(tbl') \cap Addr = {}
    <3>1. CASE CleanErase
      BY <3>1, EraseKeeps DEF HistoryInv, DroppedInv
    <3>2. CASE CleanRewrite
      <4>1. pc = "rewrite"
        BY <3>2 DEF CleanRewrite
      <4> QED BY <3>2, <4>1, RewriteKeeps DEF HistoryInv, DroppedInv
    <3> QED BY <1>1, <3>1, <3>2
  <2> QED BY <2>1, <2>2, DroppedStays DEF DroppedInv
<1>2. ASSUME NEW a \in Addr, AddBegin(a) PROVE DroppedInv'
  BY <1>2, BeginKeeps DEF HistoryInv, DroppedInv
<1>3. CASE Evict \/ Delete
  <2>1. /\ pc \in {"evict", "delete"} /\ flash' = WriteEraseMark(tbl[Marked].idx)
        /\ dropped' = dropped \cup {tbl[Marked].adr} /\ pend' = pend
        /\ pc' = "add" => pc = "evict" /\ Marked = 1
        /\ pc' \in {"add", "run"}
    BY <1>3 DEF Evict, Delete, Marked
  <2>2. dropped' \cap Recorded' \cap Addr = {}
    BY <2>1, RemovedIsGone, DroppedStays
  <2>3. pc = "evict" => pend # tbl[Marked].adr
    <3>1. tbl[Marked].adr \in Recorded
      BY <2>1, MarkedRecord DEF Recorded
    <3> QED BY <3>1 DEF HistoryInv, OnceInv
  <2> QED BY <2>1, <2>2, <2>3 DEF HistoryInv, DroppedInv
<1>4. CASE Unpair
  <2>1. pc' \in {"unpair", "run"}
    BY <1>4 DEF Unpair
  <2>2. CASE dropped' = dropped
    BY <2>1, <2>2, DroppedStays DEF DroppedInv
  <2>3. CASE tbl' = <<>> /\ pc' = "run"
    <3>1. BondSlots' = {}
      BY <2>3 DEF Good, ReadableInv, TableInv, Scanned, InFlash
    <3> QED BY <2>1, <3>1 DEF DroppedInv, Recorded
  <2> QED BY <1>4, <2>2, <2>3 DEF Unpair
<1>5. CASE dropped' = dropped /\ pc' \notin {"rewrite", "evict", "add"}
  BY <1>5, DroppedStays DEF DroppedInv
<1>6. CASE ScanBond \/ ScanSkip \/ ScanEnd \/ Add \/ UnpairBegin \/ PowerCut \/ PowerOn
  BY <1>5, <1>6 DEF ScanBond, ScanSkip, ScanEnd, Add, UnpairBegin, PowerCut, PowerOn, history
<1>7. ASSUME NEW i \in 1 .. MaxBonds, DeleteBegin(i) PROVE DroppedInv'
  BY <1>5, <1>7 DEF DeleteBegin
<1> QED BY <1>1, <1>2, <1>3, <1>4, <1>6, <1>7 DEF Next, Boot

LEMMA OwedStep ==
  ASSUME Good, Good', HistoryInv, Room, Next, scar' # "open" PROVE OwedInv'
<1>1. CASE CleanErase
  <2>1. /\ pc' = (IF tbl = <<>> THEN "run" ELSE "rewrite") /\ tbl' = tbl /\ pc = "erase"
        /\ Addresses(tbl) = Recorded /\ UNCHANGED <<owed, cleanCut>>
    BY <1>1, EraseKeeps
  <2>2. tbl = <<>> => Addresses(tbl) = {}
    BY DEF Addresses
  <2> QED BY <2>1, <2>2 DEF HistoryInv, OwedInv
<1>2. CASE CleanRewrite
  <2>1. /\ pc = "rewrite" /\ pc' \in {"rewrite", "run"} /\ Addresses(tbl') = Addresses(tbl)
        /\ UNCHANGED <<owed, cleanCut>>
    BY <1>2, RewriteKeeps DEF CleanRewrite
  <2>2. ASSUME pc' = "run" PROVE Addresses(tbl') = Recorded'
    <3>1. /\ BondSlots' = {tbl'[i].idx : i \in DOMAIN tbl'}
          /\ \A i \in DOMAIN tbl' : flash'[tbl'[i].idx].adr = tbl'[i].adr
      BY <2>2 DEF Good, ReadableInv, TableInv, Scanned, InFlash, Kept
    <3>2. Addresses(tbl') = {flash'[s].adr : s \in BondSlots'}
      BY <3>1 DEF Addresses
    <3> QED BY <3>2 DEF Recorded
  <2> QED BY <2>1, <2>2 DEF HistoryInv, OwedInv
<1>3. CASE Add
  <2>1. /\ pc = "add" /\ pc' = "run" /\ owed' = owed \cup {pend} /\ cleanCut' = cleanCut
        /\ flash' = [flash EXCEPT ![cfgIdx + 1] = [mark |-> Bond, adr |-> pend]]
    BY <1>3, FreshRecord DEF Add
  <2>2. pend \in Recorded'
    BY <2>1, BondAdded DEF Recorded
  <2>3. ~cleanCut => owed \subseteq Recorded'
    BY <1>3, <2>1, OwedStays
  <2> QED BY <2>1, <2>2, <2>3 DEF OwedInv
<1>4. CASE PowerCut
  <2>1. /\ pc' = "off" /\ owed' = owed
        /\ cleanCut' = (cleanCut \/ pc = "rewrite" \/ (pc = "erase" /\ flash' # flash))
    BY <1>4 DEF PowerCut
  <2> QED BY <2>1, OwedStays DEF OwedInv
<1>5. CASE /\ pc # "erase" /\ pc # "rewrite" /\ pc' \notin {"rewrite", "evict", "delete", "unpair"}
           /\ UNCHANGED <<owed, cleanCut>>
  BY <1>5, OwedStays DEF OwedInv
<1>6. CASE ScanBond \/ ScanSkip \/ ScanEnd \/ Evict \/ Delete \/ PowerOn
  BY <1>5, <1>6 DEF ScanBond, ScanSkip, ScanEnd, Evict, Delete, PowerOn, history
<1>7. ASSUME NEW a \in Addr, AddBegin(a) PROVE OwedInv'
  <2>1. pc # "rewrite" /\ pc' \in {"evict", "add"}
    BY <1>7, BeginKeeps
  <2> QED BY <1>7, <2>1, BeginKeeps DEF HistoryInv, OwedInv
<1>8. CASE UnpairBegin
  BY <1>8 DEF UnpairBegin, OwedInv
<1>9. CASE Unpair
  <2>1. owed' = owed /\ owed = {} /\ pc' \in {"unpair", "run"}
    BY <1>9 DEF Unpair, HistoryInv, OwedInv
  <2> QED BY <2>1 DEF OwedInv
<1>10. ASSUME NEW i \in 1 .. MaxBonds, DeleteBegin(i) PROVE OwedInv'
  <2>1. /\ pc = "run" /\ pc' = "delete" /\ k' = i /\ tbl' = tbl /\ owed' = owed \ {tbl[i].adr}
        /\ flash' = flash /\ cleanCut' = cleanCut
    BY <1>10 DEF DeleteBegin
  <2>2. Recorded' = Recorded
    BY <2>1 DEF Recorded, BondSlots
  <2> QED BY <2>1, <2>2 DEF HistoryInv, OwedInv
<1> QED BY <1>1, <1>2, <1>3, <1>4, <1>6, <1>7, <1>8, <1>9, <1>10 DEF Next, Boot

LEMMA HistoryInit == Init => HistoryInv
<1> SUFFICES ASSUME Init PROVE HistoryInv
  OBVIOUS
<1>1. BondSlots = {}
  BY DEF Init, BondSlots, Bond, Blank
<1> QED BY <1>1 DEF Init, HistoryInv, OnceInv, OwedInv, DroppedInv, Recorded

(* app_pair.c:121, 141-162: over any number of boots, cleans and power     *)
(* failures that left a readable log the idle loop finds the bonds that    *)
(* were acknowledged and not removed, unless the power failed during the   *)
(* erase or the rewrite of a clean, and never one that was removed.        *)
THEOREM BondsComeBack == ASSUME Room PROVE Spec => []BondsOutlastBoots
<1> DEFINE Inv == IInv /\ (scar = "none" => HistoryInv)
<1>1. Init => Inv
  BY InitInv, HistoryInit
<1>2. Inv /\ [Next]_vars => Inv'
  <2>1. IInv /\ [Next]_vars => IInv'
    BY InvStep, StutterInv
  <2>2. ASSUME Inv, Next, scar' = "none" PROVE HistoryInv'
    <3>1. Good /\ HistoryInv
      BY <2>2, ScarStep DEF IInv, Good
    <3>2. Good'
      BY <2>1, <2>2 DEF IInv, Good
    <3> QED BY <2>2, <3>1, <3>2, OnceStep, OwedStep, DroppedStep DEF HistoryInv
  <2>3. ASSUME HistoryInv, UNCHANGED vars PROVE HistoryInv'
    BY <2>3 DEF vars, history, HistoryInv, OnceInv, OwedInv, DroppedInv, Recorded, BondSlots
  <2>4. UNCHANGED vars => scar' = scar
    BY DEF vars, history
  <2> QED BY <2>1, <2>2, <2>3, <2>4
<1>3. Inv => BondsOutlastBoots
  <2> SUFFICES ASSUME Good, HistoryInv PROVE LostOnlyInClean /\ RemovedStaysRemoved
    BY DEF BondsOutlastBoots, IInv, Good
  <2>1. pc \in {"run", "evict", "add"} => Addresses(tbl) = Recorded
    BY TableIsRecorded
  <2> QED BY <2>1 DEF HistoryInv, OwedInv, DroppedInv, LostOnlyInClean,
                      AcknowledgedSurvive, RemovedStaysRemoved
<1> QED BY <1>1, <1>2, <1>3, PTL DEF Spec
=============================================================================
