------------------------------- MODULE OtaBoot -------------------------------
(***************************************************************************)
(* The boot loader that installs a downloaded firmware (826x_ota_boot):    *)
(* everything but the first sector first, then the first sector, which     *)
(* holds the startup code that decides after a reset whether the boot      *)
(* loader or the firmware runs; then the OTA flag is cleared and the       *)
(* download area erased for the next update.                               *)
(*                                                                         *)
(* Addresses count 256-byte pages.  Every flash operation is a step, the   *)
(* power may fail before, during or after each, and a page may read back   *)
(* wrong.                                                                  *)
(***************************************************************************)
EXTENDS Integers

CONSTANTS
  Sec,        \* pages of a sector, 16 in the code
  MaxSize,    \* NEW_FW_SIZE in pages, a multiple of Sec
  Sizes,      \* n_firmware of the downloads, in pages
  StartPages, \* pages of the startup code, 2 in the code
  MaxCuts,    \* bound on the power failures of one update
  MaxFaults   \* bound on the pages of one update that read back wrong

ASSUME SizeAssumption ==
  /\ Sec \in Nat \ {0} /\ MaxSize \in Nat \ {0} /\ MaxSize % Sec = 0
  /\ Sizes \subseteq Nat \ {0} /\ Sizes # {}
  /\ StartPages \in 1 .. Sec
  /\ MaxCuts \in Nat /\ MaxFaults \in Nat

Page == 0 .. (MaxSize - 1)
Data == {"old", "new", "blank", "junk"}

VARIABLES
  app,      \* the firmware the chip runs, from address 0
  new,      \* the download area, from NEW_FW_ADR
  flag,     \* at OTA_FLG_ADR: "set" (0xa5), "clear", or "torn"
  size,     \* n_firmware
  pc,       \* the loop or the statement of main, or who else runs
  i,        \* the loop index
  erased,   \* the sector of i is erased, its pages are being written
  cuts, faults,
  firstCut, \* history: the power failed while the first sector was rewritten
  eraseCut  \* history: the power failed while the download area was erased

vars == <<app, new, flag, size, pc, i, erased, cuts, faults, firstCut, eraseCut>>
bounds == <<cuts, faults>>
history == <<firstCut, eraseCut>>

(* Programming x over y, and the download of an image of n pages.          *)
Over(x, y) == IF y = "blank" \/ x = y THEN x ELSE IF x = "blank" THEN y ELSE "junk"
Download(n) == [p \in Page |-> IF p < n THEN "new" ELSE "blank"]

Start(p) == Sec * (p \div Sec)
SectorOf(p) == {q \in Page : q \div Sec = p \div Sec}
Filled(f, set, x) == [p \in Page |-> IF p \in set THEN x ELSE f[p]]

Init ==
  /\ size \in Sizes
  /\ app = [p \in Page |-> "old"] /\ new = Download(size) /\ flag = "set"
  /\ pc = "off" /\ i = 0 /\ erased = FALSE
  /\ cuts = 0 /\ faults = 0 /\ firstCut = FALSE /\ eraseCut = FALSE

(* The startup code runs when it is whole, of either firmware.             *)
Startup == \/ \A p \in 0 .. (StartPages - 1) : app[p] = "old"
           \/ \A p \in 0 .. (StartPages - 1) : p < size => app[p] = "new"

-----------------------------------------------------------------------------
(* Mutations: one loop for all sectors, a first loop that does not read    *)
(* back, a retry without the erase, the download erased before the flag is *)
(* cleared or but for its first sector, an erase loop over an unsigned     *)
(* index.                                                                  *)
CheckFromZero ==
  /\ pc = "check"
  /\ IF size > MaxSize THEN pc' = "trap" ELSE pc' = "rest"
  /\ i' = 0
  /\ UNCHANGED <<app, new, flag, size, erased, bounds, history>>
WriteUnverified ==
  /\ pc \in {"rest", "first"} /\ i < (IF pc = "rest" THEN size ELSE Sec)
  /\ i % Sec = 0 => erased
  /\ erased' = FALSE
  /\ \E x \in {new[i]} \cup (IF pc = "rest" THEN {"junk"} ELSE {}) : app' = [app EXCEPT ![i] = x]
  /\ i' = i + 1
  /\ UNCHANGED <<new, flag, size, pc, bounds, history>>
RetryPage == i
FirstDoneErases ==
  /\ pc = "first" /\ i >= Sec
  /\ pc' = "erase" /\ i' = Start(size - 1)
  /\ UNCHANGED <<app, new, flag, size, erased, bounds, history>>
EraseNewAllButFirst ==
  /\ pc = "erase"
  /\ new' = IF i < Sec THEN new ELSE Filled(new, SectorOf(i), "blank")
  /\ i' = i - Sec
  /\ pc' = IF i' < 0 THEN "off" ELSE pc
  /\ UNCHANGED <<app, flag, size, erased, bounds, history>>
EraseNewUnsigned ==
  /\ pc = "erase"
  /\ new' = Filled(new, SectorOf(i), "blank")
  /\ i' = i - Sec
  /\ UNCHANGED <<app, flag, size, pc, erased, bounds, history>>

-----------------------------------------------------------------------------
(* A reset: cstartup runs the boot loader if the flag is set.              *)
Reset ==
  /\ pc = "off"
  /\ pc' = IF ~Startup THEN "dead" ELSE IF flag = "set" THEN "check" ELSE "app"
  /\ UNCHANGED <<app, new, flag, size, i, erased, bounds, history>>

Check ==
  /\ pc = "check"
  /\ IF size > MaxSize THEN pc' = "trap" /\ i' = i ELSE pc' = "rest" /\ i' = Sec
  /\ UNCHANGED <<app, new, flag, size, erased, bounds, history>>

(* The two copy loops, which differ in their bounds only.                  *)
Limit == IF pc = "rest" THEN size ELSE Sec
Copying == pc \in {"rest", "first"} /\ i < Limit
Retry == Start(i)

EraseSector ==
  /\ Copying /\ i % Sec = 0 /\ ~erased
  /\ app' = Filled(app, SectorOf(i), "blank")
  /\ erased' = TRUE
  /\ UNCHANGED <<new, flag, size, pc, i, bounds, history>>

WritePage ==
  /\ Copying /\ (i % Sec = 0 => erased)
  /\ erased' = FALSE
  /\ \/ /\ app' = [app EXCEPT ![i] = Over(new[i], @)]
        /\ i' = IF app'[i] = new[i] THEN i + 1 ELSE Retry
        /\ UNCHANGED faults
     \/ /\ faults < MaxFaults
        /\ app' = [app EXCEPT ![i] = "junk"]
        /\ i' = Retry
        /\ faults' = faults + 1
  /\ UNCHANGED <<new, flag, size, pc, cuts, history>>

RestDone ==
  /\ pc = "rest" /\ i >= size
  /\ pc' = "first" /\ i' = 0
  /\ UNCHANGED <<app, new, flag, size, erased, bounds, history>>

FirstDone ==
  /\ pc = "first" /\ i >= Sec
  /\ pc' = "flag"
  /\ UNCHANGED <<app, new, flag, size, i, erased, bounds, history>>

ClearFlag ==
  /\ pc = "flag"
  /\ flag' = "clear"
  /\ pc' = "erase" /\ i' = Start(size - 1)
  /\ UNCHANGED <<app, new, size, erased, bounds, history>>

(* The erase loop, and the reboot behind it.                               *)
EraseNew ==
  /\ pc = "erase"
  /\ new' = Filled(new, SectorOf(i), "blank")
  /\ i' = i - Sec
  /\ pc' = IF i' < 0 THEN "off" ELSE pc
  /\ UNCHANGED <<app, flag, size, erased, bounds, history>>

Boot == \/ Reset \/ Check \/ EraseSector \/ WritePage \/ RestDone \/ FirstDone
        \/ ClearFlag \/ EraseNew

-----------------------------------------------------------------------------
(* The power fails; the operation in progress is not begun, done or torn.  *)
PowerCut ==
  /\ pc \notin {"off", "dead", "trap"} /\ cuts < MaxCuts
  /\ cuts' = cuts + 1
  /\ \/ UNCHANGED <<app, new, flag>>
     \/ /\ Copying /\ UNCHANGED <<new, flag>>
        /\ IF i % Sec = 0 /\ ~erased
             THEN \E x \in {"blank", "junk"} : app' = Filled(app, SectorOf(i), x)
             ELSE \E x \in {new[i], "junk"} : app' = [app EXCEPT ![i] = x]
     \/ /\ pc = "flag" /\ UNCHANGED <<app, new>>
        /\ flag' \in {"clear", "torn"}
     \/ /\ pc = "erase" /\ UNCHANGED <<app, flag>>
        /\ \E x \in {"blank", "junk"} : new' = Filled(new, SectorOf(i), x)
  /\ firstCut' = (firstCut \/ pc = "first")
  /\ eraseCut' = (eraseCut \/ pc \in {"flag", "erase"})
  /\ pc' = "off" /\ i' = 0 /\ erased' = FALSE
  /\ UNCHANGED <<size, faults>>

(* The firmware has downloaded the next one and resets.                    *)
NextUpdate ==
  /\ pc = "app"
  /\ size' \in Sizes
  /\ app' = [p \in Page |-> "old"] /\ new' = Download(size') /\ flag' = "set"
  /\ pc' = "off" /\ i' = 0 /\ erased' = FALSE
  /\ cuts' = 0 /\ faults' = 0 /\ firstCut' = FALSE /\ eraseCut' = FALSE

Next == Boot \/ PowerCut \/ NextUpdate

Spec == Init /\ [][Next]_vars

(* The boot loader runs until it is done or the power fails.               *)
FairSpec == Spec /\ WF_vars(Boot)

-----------------------------------------------------------------------------
TypeOK ==
  /\ app \in [Page -> Data] /\ new \in [Page -> Data]
  /\ flag \in {"set", "clear", "torn"} /\ size \in Sizes
  /\ pc \in {"off", "check", "rest", "first", "flag", "erase", "app", "dead", "trap"}
  /\ i \in (-Sec) .. MaxSize /\ erased \in BOOLEAN
  /\ cuts \in 0 .. MaxCuts /\ faults \in 0 .. MaxFaults
  /\ firstCut \in BOOLEAN /\ eraseCut \in BOOLEAN

(* A firmware that runs is complete, whatever failed while it was copied.  *)
RunsWholeFirmware == pc = "app" => \A p \in Page : p < size => app[p] = "new"

(* As long as the flag asks for the update, the download can be copied     *)
(* again: nothing of it is erased before the copy is done.                 *)
DownloadKept == flag = "set" => new = Download(size)

(* Only a power failure during the rewrite of the first sector leaves a    *)
(* chip that does not start.                                               *)
StartsUnlessFirstCut == pc = "dead" => firstCut

(* After an update that no power failure met at its end, the download area *)
(* is erased for the next one.                                             *)
ErasedForNext == pc = "app" /\ ~eraseCut => new = [p \in Page |-> "blank"]

(* Every update ends: with the new firmware, in the trap for one that is   *)
(* too big, or with a chip that does not start.                            *)
UpdateEnds == pc = "check" ~> pc \in {"app", "trap", "dead"}
=============================================================================
