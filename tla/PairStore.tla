------------------------------ MODULE PairStore ------------------------------
(***************************************************************************)
(* The bond table of the 826x_master_kma_dongle (app_pair.c): the slaves   *)
(* the dongle connects to by itself, kept in RAM (user_tbl_slaveMac) and   *)
(* as a log of 8-byte records in one flash sector (FLASH_ADR_PARING).      *)
(*                                                                         *)
(* NOR flash only clears bits, so a record is written once and later       *)
(* marked erased in place; the sector is erased and rewritten only at      *)
(* boot.  Every flash operation of the driver is a step of its own, and    *)
(* the power may fail before, during or after each, the sector erase       *)
(* included.  RAM effects that no power failure can separate belong to the *)
(* step of the flash operation next to them.                               *)
(***************************************************************************)
EXTENDS Integers, Sequences, SequencesExt

CONSTANTS
  Addr,          \* the slaves: an address with its type
  MaxBonds,      \* USER_PAIR_SLAVE_MAX_NUM
  Slots,         \* 8-byte records of the sector, 512 in the code
  CleanAt,       \* the sector is cleaned at boot from this slot on, 256 in the code
  AddsPerCycle,  \* bound on the pairings between two boots
  EraseLeaves    \* what an interrupted erase may leave of the mark and the address of a record

Blank == "blank"     \* 0xff: never programmed, the end of the log
Bond == "bond"       \* ADR_BOND_MARK
Erased == "erased"   \* ADR_ERASE_MARK
Junk == "junk"       \* a byte (or an address) with only some of its bits programmed

AsItWas == "as it was"   \* not a byte: what the interrupted erase did not touch

Marks == {Blank, Bond, Erased, Junk}
Stored == Addr \cup {Blank, Junk}

ASSUME AddrAssumption == Addr \cap (Marks \cup {AsItWas}) = {}
ASSUME SizeAssumption == /\ MaxBonds \in Nat \ {0}
                         /\ CleanAt \in Nat
                         /\ MaxBonds <= CleanAt
                         /\ Slots \in Nat
                         /\ CleanAt <= Slots
                         /\ AddsPerCycle \in Nat
ASSUME EraseAssumption ==
  EraseLeaves \subseteq [mark : Marks \cup {AsItWas}, adr : {Blank, Junk, AsItWas}]

(* The cells the writes can reach: the sector, and what follows it.        *)
Cell == 0 .. (Slots + AddsPerCycle)

(* The pairings of one power cycle that are sure to fit behind the log: the *)
(* "rest available sector is big enough" of user_bond_slave_flash_clean.   *)
Room == CleanAt + AddsPerCycle <= Slots

VARIABLES
  flash,     \* the records, by slot
  pc,        \* the operation in progress, or "run": the main loop is idle
  tbl,       \* user_tbl_slaveMac: bond_flash_idx and bond_device, oldest first
  cfgIdx,    \* user_bond_slave_flash_cfg_idx / 8
  pend,      \* the address being added
  k,         \* the loop index of the operation in progress
  adds,      \* pairings since the last boot (counted for the bound)
  owed,      \* history: the added addresses nobody asked to remove since
  dropped,   \* history: the addresses whose removal completed
  cleanCut,  \* history: the power failed between the start of an erase and the last rewrite
  scar       \* history: "none", "open" since a power failure left a sector the scan
             \* cannot read as a log, "healed" by a whole erase after that

vars == <<flash, pc, tbl, cfgIdx, pend, k, adds, owed, dropped, cleanCut, scar>>
history == <<owed, dropped, cleanCut, scar>>

PCs == {"scan", "erase", "rewrite", "run", "evict", "add", "unpair", "delete",
        "off", "trap"}

Addresses(t) == {t[i].adr : i \in DOMAIN t}
Indexes(t) == {t[i].idx : i \in DOMAIN t}

(* What programming x over y may give: bits only go from 1 to 0.           *)
Over(x, y) == IF y = Blank \/ x = y THEN {x}
              ELSE IF Erased \in {x, y} THEN {Erased}
              ELSE {x, y, Junk}

(* flash_write_page of a whole record, and of the mark byte alone.         *)
WriteRecord(i, a) ==
  {[flash EXCEPT ![i] = r] : r \in [mark : Over(Bond, flash[i].mark), adr : Over(a, flash[i].adr)]}
WriteEraseMark(i) == [flash EXCEPT ![i].mark = Erased]

Init ==
  /\ flash = [i \in Cell |-> [mark |-> Blank, adr |-> Blank]]
  /\ pc = "scan" /\ tbl = <<>> /\ cfgIdx = 0 /\ pend = Blank /\ k = 0 /\ adds = 0
  /\ owed = {} /\ dropped = {} /\ cleanCut = FALSE /\ scar = "none"

-----------------------------------------------------------------------------
(* Mutations of the actions below, as plausible slips in the code: each    *)
(* makes one of the properties fail.                                       *)

(* AddBegin with > for >= in the test that the table is full.              *)
AddBeginOffByOne(a) ==
  /\ pc = "run" /\ a \notin Addresses(tbl) /\ adds < AddsPerCycle
  /\ adds' = adds + 1
  /\ pend' = a /\ dropped' = dropped \ {a}
  /\ IF Len(tbl) > MaxBonds
       THEN pc' = "evict" /\ owed' = owed \ {tbl[1].adr}
       ELSE pc' = "add" /\ owed' = owed
  /\ UNCHANGED <<flash, tbl, cfgIdx, k, cleanCut, scar>>

(* Add that writes before it steps.                                        *)
AddAt(slot) ==
  /\ pc = "add"
  /\ cfgIdx' = slot
  /\ flash' \in WriteRecord(slot, pend)
  /\ tbl' = Append(tbl, [idx |-> slot, adr |-> pend])
  /\ pc' = "run" /\ pend' = Blank
  /\ owed' = owed \cup {pend}
  /\ UNCHANGED <<k, adds, dropped, cleanCut, scar>>
AddInPlace == cfgIdx >= 0 /\ AddAt(cfgIdx)

(* AddBegin that does not hand its address on: Add stores an unset one.    *)
AddBeginNoAddress(a) ==
  /\ pc = "run" /\ a \notin Addresses(tbl) /\ adds < AddsPerCycle
  /\ adds' = adds + 1
  /\ dropped' = dropped \ {a}
  /\ IF Len(tbl) >= MaxBonds
       THEN pc' = "evict" /\ owed' = owed \ {tbl[1].adr}
       ELSE pc' = "add" /\ owed' = owed
  /\ UNCHANGED <<flash, tbl, cfgIdx, pend, k, cleanCut, scar>>

(* Evict and Delete that forget the flash, Evict of the newest entry.      *)
RemoveEntry(i, f, next) ==
  /\ flash' = f
  /\ tbl' = RemoveAt(tbl, i)
  /\ pc' = next
  /\ dropped' = dropped \cup {tbl[i].adr}
  /\ UNCHANGED <<cfgIdx, pend, k, adds, owed, cleanCut, scar>>
EvictRamOnly == pc = "evict" /\ RemoveEntry(1, flash, "add")
EvictNewest == pc = "evict" /\ RemoveEntry(Len(tbl), WriteEraseMark(tbl[Len(tbl)].idx), "add")
DeleteRamOnly == pc = "delete" /\ RemoveEntry(k, flash, "run")

(* CleanRewrite that stops one entry early.                                *)
CleanRewriteShort ==
  /\ pc = "rewrite"
  /\ cfgIdx' = cfgIdx + 1
  /\ flash' \in WriteRecord(cfgIdx', tbl[k].adr)
  /\ tbl' = [tbl EXCEPT ![k].idx = cfgIdx']
  /\ k' = k + 1
  /\ pc' = IF k' >= Len(tbl) THEN "run" ELSE pc
  /\ UNCHANGED <<pend, adds, history>>

-----------------------------------------------------------------------------
(* user_master_host_pairing_flash_init: one record per step.               *)

ScanBond ==
  /\ pc = "scan" /\ cfgIdx < Slots /\ flash[cfgIdx].mark = Bond
  /\ IF Len(tbl) < MaxBonds
       THEN /\ tbl' = Append(tbl, [idx |-> cfgIdx, adr |-> flash[cfgIdx].adr])
            /\ cfgIdx' = cfgIdx + 1
            /\ pc' = pc
       ELSE /\ pc' = "trap"     \* irq_disable(); while(1);
            /\ UNCHANGED <<tbl, cfgIdx>>
  /\ UNCHANGED <<flash, pend, k, adds, history>>

ScanSkip ==
  /\ pc = "scan" /\ cfgIdx < Slots /\ flash[cfgIdx].mark \in {Erased, Junk}
  /\ cfgIdx' = cfgIdx + 1
  /\ UNCHANGED <<flash, pc, tbl, pend, k, adds, history>>

ScanEnd ==
  /\ pc = "scan"
  /\ cfgIdx < Slots => flash[cfgIdx].mark = Blank
  /\ cfgIdx' = cfgIdx - 1
  /\ pc' = IF cfgIdx' < CleanAt THEN "run" ELSE "erase"
  /\ UNCHANGED <<flash, tbl, pend, k, adds, history>>

(* user_bond_slave_flash_clean: erase, then write the table back.          *)
CleanErase ==
  /\ pc = "erase"
  /\ flash' = [i \in Cell |-> IF i < Slots THEN [mark |-> Blank, adr |-> Blank]
                                           ELSE flash[i]]
  /\ cfgIdx' = -1 /\ k' = 1
  /\ pc' = IF tbl = <<>> THEN "run" ELSE "rewrite"
  /\ scar' = IF scar = "open" THEN "healed" ELSE scar
  /\ UNCHANGED <<tbl, pend, adds, owed, dropped, cleanCut>>

CleanRewrite ==
  /\ pc = "rewrite"
  /\ cfgIdx' = cfgIdx + 1
  /\ flash' \in WriteRecord(cfgIdx', tbl[k].adr)
  /\ tbl' = [tbl EXCEPT ![k].idx = cfgIdx']
  /\ k' = k + 1
  /\ pc' = IF k' > Len(tbl) THEN "run" ELSE pc
  /\ UNCHANGED <<pend, adds, history>>

-----------------------------------------------------------------------------
(* user_tbl_slave_mac_add, called when a connection made by manual pairing *)
(* is established and user_tbl_slave_mac_search did not find the slave.    *)

Search(a) == a \in Addresses(tbl)

AddBegin(a) ==
  /\ pc = "run" /\ ~Search(a) /\ adds < AddsPerCycle
  /\ adds' = adds + 1
  /\ pend' = a /\ dropped' = dropped \ {a}
  /\ IF Len(tbl) >= MaxBonds
       THEN pc' = "evict" /\ owed' = owed \ {tbl[1].adr}
       ELSE pc' = "add" /\ owed' = owed
  /\ UNCHANGED <<flash, tbl, cfgIdx, k, cleanCut, scar>>

(* user_tbl_slave_mac_delete_by_index(0).                                  *)
Evict ==
  /\ pc = "evict"
  /\ flash' = WriteEraseMark(tbl[1].idx)
  /\ tbl' = RemoveAt(tbl, 1)
  /\ pc' = "add"
  /\ dropped' = dropped \cup {tbl[1].adr}
  /\ UNCHANGED <<cfgIdx, pend, k, adds, owed, cleanCut, scar>>

Add ==
  /\ pc = "add"
  /\ cfgIdx' = cfgIdx + 1
  /\ flash' \in WriteRecord(cfgIdx', pend)
  /\ tbl' = Append(tbl, [idx |-> cfgIdx', adr |-> pend])
  /\ pc' = "run" /\ pend' = Blank
  /\ owed' = owed \cup {pend}
  /\ UNCHANGED <<k, adds, dropped, cleanCut, scar>>

(* user_tbl_salve_mac_unpair_proc: user_tbl_slave_mac_delete_all, one mark *)
(* per step, curNum = 0 with the last.                                     *)
UnpairBegin ==
  /\ pc = "run" /\ tbl # <<>>
  /\ pc' = "unpair" /\ k' = 1 /\ owed' = {}
  /\ UNCHANGED <<flash, tbl, cfgIdx, pend, adds, dropped, cleanCut, scar>>

Unpair ==
  /\ pc = "unpair"
  /\ flash' = WriteEraseMark(tbl[k].idx)
  /\ IF k = Len(tbl)
       THEN tbl' = <<>> /\ pc' = "run" /\ dropped' = dropped \cup Addresses(tbl)
       ELSE UNCHANGED <<tbl, pc, dropped>>
  /\ k' = k + 1
  /\ UNCHANGED <<cfgIdx, pend, adds, owed, cleanCut, scar>>

(* user_tbl_slave_mac_delete_by_adr: the first entry with the address; one *)
(* that is not in the table changes nothing.  Two torn addresses may       *)
(* differ.                                                                 *)
DeleteBegin(i) ==
  /\ pc = "run" /\ i \in DOMAIN tbl
  /\ \A j \in DOMAIN tbl : j < i => tbl[j].adr # tbl[i].adr \/ tbl[i].adr = Junk
  /\ pc' = "delete" /\ k' = i /\ owed' = owed \ {tbl[i].adr}
  /\ UNCHANGED <<flash, tbl, cfgIdx, pend, adds, dropped, cleanCut, scar>>

Delete ==
  /\ pc = "delete"
  /\ flash' = WriteEraseMark(tbl[k].idx)
  /\ tbl' = RemoveAt(tbl, k)
  /\ pc' = "run"
  /\ dropped' = dropped \cup {tbl[k].adr}
  /\ UNCHANGED <<cfgIdx, pend, k, adds, owed, cleanCut, scar>>

-----------------------------------------------------------------------------
(* The flash when the power fails: as it was, or with the operation in     *)
(* progress complete or torn.  The bytes are programmed in no known order: *)
(* the mark and the address may each be as before, partly programmed or    *)
(* complete.  An erase sets bits, after it may have cleared all, in any    *)
(* order of the bytes.                                                     *)
Torn(x, y) == {y} \cup Over(Junk, y) \cup Over(x, y)

TornRecord(i, a) ==
  {[flash EXCEPT ![i] = r] : r \in [mark : Torn(Bond, flash[i].mark), adr : Torn(a, flash[i].adr)]}

TornEraseMark(i) == {[flash EXCEPT ![i].mark = m] : m \in Torn(Erased, flash[i].mark)}

Left(r, l) == [mark |-> IF l.mark = AsItWas THEN r.mark ELSE l.mark,
               adr |-> IF l.adr = AsItWas THEN r.adr ELSE l.adr]

TornErase ==
  {[i \in Cell |-> IF i < Slots THEN Left(flash[i], left[i]) ELSE flash[i]] :
     left \in [0 .. (Slots - 1) -> EraseLeaves]}

AfterCut ==
  {flash} \cup
  CASE pc = "erase" -> TornErase
    [] pc = "rewrite" -> TornRecord(cfgIdx + 1, tbl[k].adr)
    [] pc = "add" -> TornRecord(cfgIdx + 1, pend)
    [] pc = "evict" -> TornEraseMark(tbl[1].idx)
    [] pc \in {"unpair", "delete"} -> TornEraseMark(tbl[k].idx)
    [] OTHER -> {}

(* The sector reads as a log: records, then blank slots and nothing behind *)
(* them, and no bond that was not one.                                     *)
LogEnd(f, n) == \A i \in Cell : f[i].mark = Blank <=> i >= n

Readable(f) ==
  /\ \E n \in 0 .. Slots : LogEnd(f, n)
  /\ \A i \in Cell : f[i].mark = Blank => f[i].adr = Blank
  /\ pc = "erase" => \A i \in Cell : f[i].mark = Bond => flash[i].mark = Bond

PowerCut ==
  /\ pc # "off"
  /\ flash' \in AfterCut
  /\ pc' = "off" /\ tbl' = <<>> /\ cfgIdx' = 0 /\ pend' = Blank /\ k' = 0
  /\ cleanCut' = (cleanCut \/ pc = "rewrite" \/ (pc = "erase" /\ flash' # flash))
  /\ scar' = IF Readable(flash') THEN scar ELSE "open"
  /\ UNCHANGED <<adds, owed, dropped>>

PowerOn ==
  /\ pc = "off"
  /\ pc' = "scan" /\ tbl' = <<>> /\ cfgIdx' = 0 /\ adds' = 0
  /\ UNCHANGED <<flash, pend, k, history>>

Boot == ScanBond \/ ScanSkip \/ ScanEnd \/ CleanErase \/ CleanRewrite

Next ==
  \/ Boot
  \/ \E a \in Addr : AddBegin(a)
  \/ Evict
  \/ Add
  \/ UnpairBegin
  \/ Unpair
  \/ \E i \in 1 .. MaxBonds : DeleteBegin(i)
  \/ Delete
  \/ PowerCut
  \/ PowerOn

Spec == Init /\ [][Next]_vars

-----------------------------------------------------------------------------
BondSlots == {i \in Cell : flash[i].mark = Bond}

TypeOK ==
  /\ flash \in [Cell -> [mark : Marks, adr : Stored]]
  /\ pc \in PCs
  /\ tbl \in Seq([idx : Cell, adr : Stored])
  /\ cfgIdx \in Int
  /\ pend \in Addr \cup {Blank}
  /\ k \in Nat
  /\ adds \in 0 .. AddsPerCycle
  /\ owed \subseteq Addr /\ dropped \subseteq Stored
  /\ cleanCut \in BOOLEAN /\ scar \in {"none", "open", "healed"}

(* The records of the table lie in the sector that the boot scans.         *)
WithinSector == \A i \in DOMAIN tbl : tbl[i].idx < Slots

(* The boot stops in the while(1) of flash_init ("slave mac in flash more  *)
(* than max, we think it's code bug") only when a power failure left the   *)
(* sector unreadable as a log, and not after the next whole erase of it.   *)
NeverTrapped == pc = "trap" => scar = "open"

(* While the main loop is idle the flash says what the RAM says: the bond  *)
(* records of the sector are exactly the table's, in the same order and    *)
(* before the end of the log, so that a power failure there loses nothing  *)
(* and the next boot rebuilds the same table; but for the boots between an *)
(* unreadable sector and its next whole erase.                             *)
SameBonds ==
  /\ BondSlots = Indexes(tbl)
  /\ \A i \in DOMAIN tbl : /\ flash[tbl[i].idx].adr = tbl[i].adr
                           /\ \A j \in 0 .. tbl[i].idx : flash[j].mark # Blank
  /\ \A i, j \in DOMAIN tbl : i < j => tbl[i].idx < tbl[j].idx

RebootKeepsTable == pc = "run" /\ scar # "open" => SameBonds /\ WithinSector

(* A slave whose pairing was acknowledged is in the table whenever the     *)
(* main loop runs, until it is evicted, deleted or unpaired.               *)
AcknowledgedSurvive == pc = "run" => owed \subseteq Addresses(tbl)

(* The same, but for a power failure between the start of a sector erase   *)
(* and the last rewrite of the clean: in a log that was always readable    *)
(* the only place where the code can lose a bond.                          *)
LostOnlyInClean == cleanCut \/ AcknowledgedSurvive

(* A slave whose removal completed is not found again, after any number of *)
(* boots and cleans, before it is paired anew.                             *)
RemovedStaysRemoved ==
  pc \in {"run", "evict", "add"} => dropped \cap Addresses(tbl) \cap Addr = {}

(* Both: over any number of boots, cleans and power failures that left a   *)
(* readable log the bonds are those that were made and not removed,        *)
(* app_pair.c:121 and 141-162.                                             *)
BondsOutlastBoots == scar = "none" => LostOnlyInClean /\ RemovedStaysRemoved

(* Only the oldest record of the log is ever evicted: every bond that      *)
(* survives an eviction was written after the one it removes.              *)
EvictsOldest ==
  [][pc = "evict" /\ pc' = "add" /\ scar # "open" =>
       \A i \in BondSlots', j \in BondSlots \ BondSlots' : j < i]_vars

(* The log is append-only between two erases: a slot once programmed keeps *)
(* its address, and its mark only goes towards Erased.                     *)
AppendOnly ==
  [][pc # "erase" /\ scar # "open" =>
       \A i \in 0 .. (Slots - 1) : flash[i].mark # Blank =>
         /\ flash'[i].adr = flash[i].adr
         /\ flash'[i].mark = flash[i].mark \/ flash[i].mark = Bond
                                           \/ flash'[i].mark = Erased]_vars

(* Both, app_pair.c:76-119: what an operation does to a readable log       *)
(* besides appending is to mark, and what an eviction marks is the oldest. *)
LogDiscipline == EvictsOldest /\ AppendOnly

(* The inductive invariant behind these properties, for a log with room    *)
(* for the pairings of a power cycle.  Its first part bounds the operation *)
(* in progress whatever the sector holds; the others are about a readable  *)
(* sector: the shape of the log, the records the operation in progress has *)
(* still (or already) in the flash, and why the scan of the next boot      *)
(* cannot overflow.                                                        *)
Open == {"run", "evict", "add", "unpair", "delete"}

BoundInv ==
  /\ \A i \in Cell : i >= Slots => flash[i] = [mark |-> Blank, adr |-> Blank]
  /\ WithinSector /\ Len(tbl) <= MaxBonds
  /\ pc = "scan" => cfgIdx \in 0 .. Slots
  /\ pc \in Open \cup {"rewrite"} => cfgIdx >= -1
  /\ pc \in Open => cfgIdx + 1 <= CleanAt + adds
  /\ pc \in {"evict", "add"} => cfgIdx + 2 <= CleanAt + adds /\ pend \in Addr
  /\ pc = "add" => Len(tbl) < MaxBonds
  /\ pc = "evict" => tbl # <<>>
  /\ pc \in {"unpair", "delete", "rewrite"} => k \in DOMAIN tbl
  /\ pc = "rewrite" => cfgIdx + 2 = k

LogInv ==
  /\ \A i \in Cell : flash[i].mark = Blank => flash[i].adr = Blank
  /\ pc \in {"off", "scan", "erase"} => \E n \in 0 .. Slots : LogEnd(flash, n)
  /\ pc = "scan" => \A i \in Cell : i < cfgIdx => flash[i].mark # Blank
  /\ pc \in Open \cup {"rewrite"} => LogEnd(flash, cfgIdx + 1)

Kept(i) == /\ pc = "unpair" => i >= k
           /\ pc = "rewrite" => i < k
InFlash == {i \in DOMAIN tbl : Kept(i)}
Scanned == IF pc = "scan" THEN {s \in BondSlots : s < cfgIdx} ELSE BondSlots

TableInv ==
  pc # "off" =>
    /\ Scanned = {tbl[i].idx : i \in InFlash}
    /\ \A i \in InFlash : flash[tbl[i].idx].adr = tbl[i].adr
    /\ \A i, j \in InFlash : i < j => tbl[i].idx < tbl[j].idx

ScanInv ==
  /\ pc # "trap"
  /\ pc \in {"off", "scan"} => Cardinality(BondSlots) <= MaxBonds
  /\ pc = "scan" =>
       Len(tbl) + Cardinality({s \in BondSlots : s >= cfgIdx}) <= MaxBonds

ReadableInv == LogInv /\ TableInv /\ ScanInv
IInv == TypeOK /\ BoundInv /\ (scar # "open" => ReadableInv)

=============================================================================
