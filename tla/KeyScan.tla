------------------------------- MODULE KeyScan -------------------------------
(* The key matrix of the remote: proj/drivers/keyboard.c and kb_scan_key.  *)
(* main_loop calls kb_scan_key every 8 ms or more.  A call does nothing    *)
(* until a closed contact has raised the GPIO interrupt flag; from then on *)
(* it asks which columns have a closed contact (kb_key_pressed, whose      *)
(* answer is stretched over six calls), reads the rows of these columns,   *)
(* and lets the debounce filter decide what has changed.  Scanning ends    *)
(* when the stretched answer is empty.                                     *)
(* The contacts bounce: for Bounce calls after a key moved every reading   *)
(* of it may go either way, and the user leaves it alone for Hold more.    *)
EXTENDS Integers, FiniteSets

CONSTANTS
  Key,        \* the keys fitted
  Col,        \* Col[k]: the scan pin of key k
  Stretch,    \* calls that kb_key_pressed stretches its answer over
  Bounce,     \* calls during which a key bounces
  Hold        \* calls a key stays as it is after that

ASSUME KeyScanAssumption ==
  /\ IsFiniteSet(Key) /\ Col \in [Key -> Nat]
  /\ Stretch \in Nat \ {0} /\ Bounce \in Nat /\ Hold \in Nat \ {0}

VARIABLES
  down,       \* the keys the finger holds down
  moved,      \* the calls left until the user may move the key again
  scanning,   \* key_not_released of kb_scan_key
  poweron,    \* the next call is the one of deep_wakeup_proc
  scanPinNeed, \* scan_pin_need
  retLast,    \* ret_last of kb_key_pressed
  releaseCnt, \* release_cnt of kb_key_pressed
  pre,        \* mtrx_pre, the last matrix read
  last,       \* mtrx_last, the matrix let through, which the caller is told
  may         \* history: the reports of each key there still is a reason for

contacts == <<down, moved>>
scanVars == <<contacts, scanning, poweron, scanPinNeed, retLast, releaseCnt, pre, last, may>>

Shaky == {k \in Key : moved[k] > Hold}
Columns(keys) == {Col[k] : k \in keys}

ScanInit ==
  /\ down = {} /\ moved = [k \in Key |-> 0]
  /\ scanning = FALSE /\ poweron = FALSE /\ scanPinNeed = {} /\ retLast = {} /\ releaseCnt = 0
  /\ pre = {} /\ last = {} /\ may = [k \in Key |-> 0]

-----------------------------------------------------------------------------
(* The user presses or releases a key that has been left alone.  The call  *)
(* of deep_wakeup_proc is not filtered: what bounces in it may be reported *)
(* there, back, and again.                                                 *)
Move(k) ==
  /\ moved[k] = 0
  /\ down' = (IF k \in down THEN down \ {k} ELSE down \cup {k})
  /\ moved' = [moved EXCEPT ![k] = Bounce + Hold]
  /\ may' = [may EXCEPT ![k] = IF poweron THEN 3 ELSE 1]
  /\ UNCHANGED <<scanning, poweron, scanPinNeed, retLast, releaseCnt, pre, last>>

(* Deep sleep and the reset out of it clear the RAM; a key still down has  *)
(* to be scanned anew.  The reset takes as long as a call.  A key that is  *)
(* up may be the one that woke the chip, with a press to be reported too.  *)
Reset ==
  /\ poweron' \in BOOLEAN
  /\ moved' = [k \in Key |->
       IF k \in down /\ moved[k] <= Hold THEN Hold ELSE IF moved[k] = 0 THEN 0 ELSE moved[k] - 1]
  /\ scanning' = FALSE /\ scanPinNeed' = {} /\ retLast' = {} /\ releaseCnt' = 0
  /\ pre' = {} /\ last' = {}
  /\ may' = [k \in Key |-> IF k \in down THEN 1 ELSE IF moved[k] > 0 THEN 2 ELSE 0]
  /\ UNCHANGED down

-----------------------------------------------------------------------------
(* What one reading of the contacts may find closed.                       *)
Readings == {(down \ Shaky) \cup s : s \in SUBSET Shaky}

(* The interrupt flag is set by any contact closed since the last call.    *)
Flags ==
  IF down \ Shaky # {} THEN {TRUE}
  ELSE IF \E k \in Key : moved[k] >= Hold THEN BOOLEAN ELSE {FALSE}

Called ==
  /\ moved' = [k \in Key |-> IF moved[k] = 0 THEN 0 ELSE moved[k] - 1]
  /\ poweron' = FALSE
  /\ UNCHANGED down

Wanted == scanning \/ poweron

(* Mutants: the answer is not stretched; the stretch never ends; the count *)
(* goes below zero.                                                        *)
KbKeyPressedPlain(closed) ==
  /\ retLast' = Columns(closed) /\ scanPinNeed' = retLast' /\ releaseCnt' = 0

KbKeyPressedForever(closed) ==
  LET ret == Columns(closed)
      cnt == IF ret # {} THEN Stretch ELSE releaseCnt
  IN /\ retLast' = (IF ret # {} THEN ret ELSE retLast)
     /\ scanPinNeed' = (IF cnt > 0 THEN retLast' ELSE {})
     /\ releaseCnt' = cnt

KbKeyPressedBelow(closed) ==
  LET ret == Columns(closed)
  IN /\ retLast' = (IF ret # {} THEN ret ELSE retLast)
     /\ releaseCnt' = (IF ret # {} THEN Stretch ELSE releaseCnt) - 1
     /\ scanPinNeed' = (IF releaseCnt' >= 0 THEN retLast' ELSE {})

(* kb_key_pressed on the contacts closed.                                  *)
KbKeyPressed(closed) ==
  LET ret == Columns(closed)
      cnt == IF ret # {} THEN Stretch ELSE releaseCnt
  IN /\ retLast' = (IF ret # {} THEN ret ELSE retLast)
     /\ scanPinNeed' = (IF cnt > 0 THEN retLast' ELSE {})
     /\ releaseCnt' = (IF cnt > 0 THEN cnt - 1 ELSE 0)

(* Mutant: the last reading decides.                                       *)
FilteredRaw(read) == read

(* A key comes through when both readings show it, and goes when neither   *)
(* does.                                                                   *)
Filtered(read) == ((pre \cap read) \ last) \cup (last \cap (pre \cup read))

(* key_debounce_filter on the matrix read.                                 *)
KeyDebounceFilter(read) ==
  /\ last' = (IF poweron THEN read ELSE Filtered(read))
  /\ pre' = read

Changed(k) == (k \in last) # (k \in last')

(* Nothing to do: no key has been touched.                                 *)
ScanIdle ==
  /\ ~Wanted /\ FALSE \in Flags
  /\ Called
  /\ UNCHANGED <<scanning, scanPinNeed, retLast, releaseCnt, pre, last, may>>

(* The rows of the columns found are read and filtered.                    *)
ScanMatrix ==
  /\ Wanted \/ TRUE \in Flags
  /\ Called /\ scanning' = TRUE
  /\ \E closed \in Readings, rows \in Readings :
       /\ KbKeyPressed(closed) /\ scanPinNeed' # {}
       /\ KeyDebounceFilter({k \in rows : Col[k] \in scanPinNeed'})
  /\ may' = [k \in Key |-> IF Changed(k) /\ may[k] > 0 THEN may[k] - 1 ELSE may[k]]

(* No contact is closed any more: wait for the next interrupt.             *)
ScanReleased ==
  /\ Wanted \/ TRUE \in Flags
  /\ Called /\ scanning' = FALSE
  /\ \E closed \in Readings : KbKeyPressed(closed) /\ scanPinNeed' = {}
  /\ UNCHANGED <<pre, last, may>>

KbScanKey == ScanIdle \/ ScanMatrix \/ ScanReleased

ScanNext == Reset \/ ScanIdle \/ ScanMatrix \/ ScanReleased \/ \E k \in Key : Move(k)

ScanSpec == ScanInit /\ [][ScanNext]_scanVars

(* main_loop calls kb_scan_key again and again.                            *)
FairScanSpec == ScanSpec /\ WF_scanVars(KbScanKey)

-----------------------------------------------------------------------------
ScanTypeOK ==
  /\ down \subseteq Key /\ moved \in [Key -> 0 .. Bounce + Hold]
  /\ scanning \in BOOLEAN /\ poweron \in BOOLEAN
  /\ scanPinNeed \subseteq Columns(Key) /\ retLast \subseteq Columns(Key)
  /\ releaseCnt \in 0 .. Stretch
  /\ pre \subseteq Key /\ last \subseteq Key
  /\ may \in [Key -> 0 .. 3]

(* keyboard.c:220, 361-372, keyboard.h:89-115: once a key has stopped      *)
(* bouncing and was left alone for two calls, what the caller was told of  *)
(* it is how it is, whatever the other keys do: no press is missed and no  *)
(* key is left pressed when scanning ends.                                 *)
SettledIsReported == \A k \in Key : moved[k] = 0 => (k \in last <=> k \in down)

ScanInv == ScanTypeOK /\ SettledIsReported

(* keyboard.c:220: a key that moves is reported once: the bouncing of its  *)
(* contact makes no second report.                                         *)
OneReport ==
  [][\A k \in Key : scanning' /\ Changed(k) => may[k] > 0]_scanVars

(* keyboard.c:369-372, keyboard.h:113: when every key has been let go for  *)
(* good scan_pin_need gets empty, without which the remote never sleeps.   *)
QuietWhenReleased == <>[](down = {}) => <>[](scanPinNeed = {})

=============================================================================
