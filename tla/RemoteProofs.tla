---------------------------- MODULE RemoteProofs -----------------------------
(***************************************************************************)
(* Proofs about the remote control.  First its key matrix (KeyScan), for   *)
(* any keys on any scan pins: for any Stretch, Bounce and Hold that leave  *)
(* the filter two good readings of a key before kb_key_pressed forgets it. *)
(* Then what RemotePm does with the keys the filter lets through: when the *)
(* remote sleeps, what the central sees pressed, and when it streams.      *)
(***************************************************************************)
EXTENDS RemotePm, KeyScan, TLAPS

(***************************************************************************)
(* The key matrix.                                                         *)
(***************************************************************************)
-----------------------------------------------------------------------------
(* The pins found are remembered for as long as the answer is stretched.   *)
Stretched == releaseCnt > 0 => retLast # {}

(* A key that is down and has stopped bouncing keeps the scan going, and   *)
(* is let through by the second call that finds it.                        *)
DownInv ==
  \A k \in down :
    /\ moved[k] < Hold => scanning /\ releaseCnt >= Stretch - 1 /\ k \in pre
    /\ moved[k] < Hold - 1 => k \in last

(* A key let go was scanned when it moved: the stretch counts down no      *)
(* faster than the calls, so that two good readings are still to come; or  *)
(* it has been forgotten in a reset, and nothing was found since.          *)
UpInv ==
  \A k \in Key \ down :
    /\ moved[k] >= Hold - 1 => \/ scanning /\ releaseCnt >= moved[k] + 2 - Hold
                               \/ k \notin pre /\ k \notin last /\ releaseCnt = 0
    /\ moved[k] < Hold => k \notin pre
    /\ moved[k] < Hold - 1 => k \notin last

SettleInv == ScanTypeOK /\ Stretched /\ DownInv /\ UpInv

(* What may still be reported of a key: its last move, as long as the      *)
(* caller has not been told of it; and where the filter was not fed for    *)
(* all of the bouncing, a report to and fro.                               *)
Told(k) == k \in last <=> k \in down
Read(k) == k \in pre <=> k \in down
MayInv ==
  \A k \in Key :
    /\ ~Told(k) => may[k] >= IF poweron /\ moved[k] > Hold + 2 THEN 3 ELSE 1
    /\ ~Told(k) /\ Read(k) => moved[k] <= Hold + 2
    /\ Told(k) /\ Read(k) /\ moved[k] >= Hold + 2 => may[k] >= 2
    /\ Told(k) /\ ~Read(k) /\ moved[k] >= Hold + 1 => may[k] >= 2
    /\ poweron /\ k \notin down /\ moved[k] >= Hold + 1 => may[k] >= 2

Fresh == poweron => pre = {} /\ last = {}

-----------------------------------------------------------------------------
(* A key that does not bounce reads as it is.                              *)
LEMMA GoodReading ==
  ASSUME ScanTypeOK, NEW read \in Readings
  PROVE  /\ read \subseteq Key
         /\ \A k \in Key : moved[k] <= Hold => (k \in read <=> k \in down)
BY KeyScanAssumption DEF Readings, Shaky, ScanTypeOK

(* kb_key_pressed: pins that are found start the stretch, none count it    *)
(* down.                                                                   *)
LEMMA PinsFound ==
  ASSUME ScanTypeOK, Stretched, NEW closed \in SUBSET Key, KbKeyPressed(closed)
  PROVE  /\ scanPinNeed' \subseteq Columns(Key) /\ retLast' \subseteq Columns(Key)
         /\ releaseCnt' \in 0 .. Stretch /\ Stretched'
         /\ closed # {} => scanPinNeed' = Columns(closed) /\ scanPinNeed' # {} /\ releaseCnt' = Stretch - 1
         /\ closed = {} /\ releaseCnt > 0 => scanPinNeed' # {} /\ releaseCnt' = releaseCnt - 1
         /\ closed = {} /\ releaseCnt = 0 => scanPinNeed' = {} /\ releaseCnt' = 0
<1> DEFINE ret == Columns(closed)
<1>0. Stretch \in Nat \ {0} /\ releaseCnt \in 0 .. Stretch BY KeyScanAssumption DEF ScanTypeOK
<1>1. ret \subseteq Columns(Key) /\ (ret = {} <=> closed = {}) BY DEF Columns
<1>2. CASE closed # {}
  <2>1. retLast' = ret /\ scanPinNeed' = ret /\ releaseCnt' = Stretch - 1
    BY <1>0, <1>1, <1>2 DEF KbKeyPressed
  <2> QED BY <1>0, <1>1, <1>2, <2>1 DEF Stretched
<1>3. CASE closed = {}
  <2>1. /\ retLast' = retLast /\ scanPinNeed' = (IF releaseCnt > 0 THEN retLast ELSE {})
        /\ releaseCnt' = (IF releaseCnt > 0 THEN releaseCnt - 1 ELSE 0)
    BY <1>1, <1>3 DEF KbKeyPressed
  <2> QED BY <1>0, <1>3, <2>1 DEF Stretched, ScanTypeOK
<1> QED BY <1>2, <1>3

(* A call that reads the matrix.                                           *)
LEMMA MatrixRead ==
  ASSUME ScanTypeOK, Stretched, ScanMatrix
  PROVE  \E read \in SUBSET Key :
           /\ \A k \in Key : moved[k] <= Hold => (k \in read <=> k \in down)
           /\ last' = (IF poweron THEN read ELSE Filtered(read)) /\ pre' = read
           /\ \/ releaseCnt' = Stretch - 1
              \/ /\ releaseCnt > 0 /\ releaseCnt' = releaseCnt - 1
                 /\ \A k \in down : moved[k] > Hold
           /\ scanPinNeed' \subseteq Columns(Key) /\ retLast' \subseteq Columns(Key)
           /\ releaseCnt' \in 0 .. Stretch /\ Stretched'
<1>1. PICK closed \in Readings, rows \in Readings :
        /\ KbKeyPressed(closed) /\ scanPinNeed' # {}
        /\ KeyDebounceFilter({k \in rows : Col[k] \in scanPinNeed'})
  BY DEF ScanMatrix
<1> DEFINE read == {k \in rows : Col[k] \in scanPinNeed'}
<1>2. closed \subseteq Key /\ rows \subseteq Key
      /\ \A k \in Key : moved[k] <= Hold => (k \in closed <=> k \in down) /\ (k \in rows <=> k \in down)
  BY GoodReading
<1>3. /\ scanPinNeed' \subseteq Columns(Key) /\ retLast' \subseteq Columns(Key)
      /\ releaseCnt' \in 0 .. Stretch /\ Stretched'
      /\ closed # {} => scanPinNeed' = Columns(closed) /\ releaseCnt' = Stretch - 1
      /\ closed = {} /\ releaseCnt > 0 => releaseCnt' = releaseCnt - 1
      /\ closed = {} /\ releaseCnt = 0 => scanPinNeed' = {}
  BY <1>1, <1>2, PinsFound
<1>4. \A k \in Key : moved[k] <= Hold => (k \in read <=> k \in down)
  <2> SUFFICES ASSUME NEW k \in Key, moved[k] <= Hold PROVE k \in read <=> k \in down OBVIOUS
  <2>1. k \in down => Col[k] \in scanPinNeed' BY <1>2, <1>3 DEF Columns
  <2> QED BY <1>2, <2>1
<1>5. releaseCnt \in Nat BY KeyScanAssumption DEF ScanTypeOK
<1>6. closed = {} => \A k \in down : moved[k] > Hold
  BY <1>2, KeyScanAssumption DEF ScanTypeOK
<1>7. last' = (IF poweron THEN read ELSE Filtered(read)) /\ pre' = read
  BY <1>1 DEF KeyDebounceFilter
<1>8. read \in SUBSET Key BY <1>2
<1> HIDE DEF read
<1>9. \/ releaseCnt' = Stretch - 1
      \/ /\ releaseCnt > 0 /\ releaseCnt' = releaseCnt - 1
         /\ \A k \in down : moved[k] > Hold
  BY <1>1, <1>3, <1>5, <1>6
<1> QED BY <1>3, <1>4, <1>7, <1>8, <1>9

(* A call that finds nothing, the stretch being over.                      *)
LEMMA NothingFound ==
  ASSUME ScanTypeOK, Stretched, ScanReleased
  PROVE  /\ releaseCnt = 0 /\ releaseCnt' = 0 /\ scanPinNeed' = {} /\ retLast' \subseteq Columns(Key)
         /\ Stretched' /\ \A k \in down : moved[k] > Hold
<1>1. PICK closed \in Readings : KbKeyPressed(closed) /\ scanPinNeed' = {} BY DEF ScanReleased
<1>2. closed \subseteq Key /\ \A k \in Key : moved[k] <= Hold => (k \in closed <=> k \in down)
  BY GoodReading
<1>3. closed = {} /\ ~(releaseCnt > 0) BY <1>1, <1>2, PinsFound
<1>4. releaseCnt \in Nat BY KeyScanAssumption DEF ScanTypeOK
<1>5. \A k \in down : moved[k] > Hold BY <1>2, <1>3, KeyScanAssumption DEF ScanTypeOK
<1> QED BY <1>1, <1>2, <1>3, <1>4, <1>5, PinsFound

LEMMA CalledMoves ==
  ASSUME ScanTypeOK, Called
  PROVE  /\ down' = down /\ poweron' = FALSE /\ moved' \in [Key -> 0 .. Bounce + Hold]
         /\ \A k \in Key : /\ moved[k] = 0 => moved'[k] = 0
                           /\ moved[k] > 0 => moved'[k] = moved[k] - 1
BY KeyScanAssumption DEF Called, ScanTypeOK

-----------------------------------------------------------------------------
LEMMA ScanTypeStep == ASSUME ScanTypeOK, Stretched, ScanNext PROVE ScanTypeOK' /\ Stretched'
<1>0. Stretch \in Nat \ {0} /\ Bounce \in Nat /\ Hold \in Nat \ {0} BY KeyScanAssumption
<1>1. CASE Reset
  <2>1. moved' \in [Key -> 0 .. Bounce + Hold]
    BY <1>0, <1>1 DEF Reset, ScanTypeOK
  <2>2. may' \in [Key -> 0 .. 3] BY <1>0, <1>1 DEF Reset, ScanTypeOK
  <2>3. /\ poweron' \in BOOLEAN /\ scanning' = FALSE /\ scanPinNeed' = {} /\ retLast' = {}
        /\ releaseCnt' = 0 /\ pre' = {} /\ last' = {} /\ down' = down
    BY <1>1 DEF Reset
  <2>4. releaseCnt' \in 0 .. Stretch /\ Stretched' BY <1>0, <2>3 DEF Stretched
  <2> QED BY <2>1, <2>2, <2>3, <2>4 DEF ScanTypeOK
<1>2. CASE ScanIdle
  BY <1>2, CalledMoves DEF ScanIdle, ScanTypeOK, Stretched
<1>3. CASE ScanMatrix
  <2>1. PICK read \in SUBSET Key :
           /\ last' = (IF poweron THEN read ELSE Filtered(read)) /\ pre' = read
           /\ scanPinNeed' \subseteq Columns(Key) /\ retLast' \subseteq Columns(Key)
           /\ releaseCnt' \in 0 .. Stretch /\ Stretched'
    BY <1>3, MatrixRead
  <2>2. last' \subseteq Key BY <2>1 DEF Filtered, ScanTypeOK
  <2>3. may' \in [Key -> 0 .. 3]
    <3>1. may' = [k \in Key |-> IF Changed(k) /\ may[k] > 0 THEN may[k] - 1 ELSE may[k]]
      BY <1>3 DEF ScanMatrix
    <3>2. \A k \in Key : may[k] \in 0 .. 3 /\ (may[k] > 0 => may[k] - 1 \in 0 .. 3)
      BY DEF ScanTypeOK
    <3> QED BY <3>1, <3>2
  <2>4. scanning' = TRUE /\ Called BY <1>3 DEF ScanMatrix
  <2> QED BY <2>1, <2>2, <2>3, <2>4, CalledMoves DEF ScanTypeOK
<1>4. CASE ScanReleased
  <2>1. scanning' = FALSE /\ Called /\ UNCHANGED <<pre, last, may>> BY <1>4 DEF ScanReleased
  <2> QED BY <1>0, <1>4, <2>1, NothingFound, CalledMoves DEF ScanTypeOK
<1>5. ASSUME NEW k \in Key, Move(k) PROVE ScanTypeOK' /\ Stretched'
  <2>1. moved' \in [Key -> 0 .. Bounce + Hold] BY <1>0, <1>5 DEF Move, ScanTypeOK
  <2>2. may' \in [Key -> 0 .. 3] BY <1>5 DEF Move, ScanTypeOK
  <2>3. down' \subseteq Key BY <1>5 DEF Move, ScanTypeOK
  <2> QED BY <1>5, <2>1, <2>2, <2>3 DEF Move, ScanTypeOK, Stretched
<1> QED BY <1>1, <1>2, <1>3, <1>4, <1>5 DEF ScanNext

-----------------------------------------------------------------------------
(* A key takes Bounce calls to settle, and the stretch is that and the two *)
(* good readings long.                                                     *)
Settles == Bounce + 3 <= Stretch /\ Hold >= 2

LEMMA ResetSettles == ASSUME Settles, SettleInv, Reset PROVE DownInv' /\ UpInv'
<1>0. Bounce \in Nat /\ Hold \in Nat /\ Hold >= 2 BY KeyScanAssumption DEF Settles
<1>1. /\ scanning' = FALSE /\ releaseCnt' = 0 /\ pre' = {} /\ last' = {} /\ down' = down
      /\ moved' = [k \in Key |-> IF k \in down /\ moved[k] <= Hold THEN Hold
                                 ELSE IF moved[k] = 0 THEN 0 ELSE moved[k] - 1]
  BY DEF Reset
<1>2. \A k \in Key : moved[k] \in 0 .. Bounce + Hold BY DEF SettleInv, ScanTypeOK
<1>3. \A k \in down : moved'[k] >= Hold
  <2> TAKE k \in down
  <2>1. k \in Key BY DEF SettleInv, ScanTypeOK
  <2> QED BY <1>0, <1>1, <1>2, <2>1
<1>4. \A k \in down : moved'[k] \in Int /\ ~(moved'[k] < Hold) /\ ~(moved'[k] < Hold - 1)
  <2> TAKE k \in down
  <2>1. k \in Key BY DEF SettleInv, ScanTypeOK
  <2>2. moved'[k] \in Int BY <1>0, <1>1, <1>2, <2>1
  <2> QED BY <1>0, <1>3, <2>2
<1> QED BY <1>1, <1>4 DEF DownInv, UpInv

LEMMA MoveSettles ==
  ASSUME Settles, SettleInv, NEW j \in Key, Move(j) PROVE DownInv' /\ UpInv'
<1>0. Bounce \in Nat /\ Hold \in Nat /\ Hold >= 2 /\ Stretch \in Nat /\ Bounce + 3 <= Stretch
  BY KeyScanAssumption DEF Settles
<1>1. /\ moved[j] = 0 /\ moved' = [moved EXCEPT ![j] = Bounce + Hold]
      /\ down' = (IF j \in down THEN down \ {j} ELSE down \cup {j})
      /\ UNCHANGED <<scanning, releaseCnt, pre, last>>
  BY DEF Move
<1>2. moved \in [Key -> 0 .. Bounce + Hold] /\ releaseCnt \in 0 .. Stretch /\ down \subseteq Key
  BY DEF SettleInv, ScanTypeOK
<1>3. DownInv'
  <2> SUFFICES ASSUME NEW k \in down'
               PROVE  /\ moved'[k] < Hold => scanning /\ releaseCnt >= Stretch - 1 /\ k \in pre
                      /\ moved'[k] < Hold - 1 => k \in last
    BY <1>1 DEF DownInv
  <2>1. CASE k = j
    <3>1. moved'[k] = Bounce + Hold BY <1>1, <1>2, <2>1
    <3> QED BY <1>0, <3>1
  <2>2. CASE k # j
    <3>1. k \in down /\ moved'[k] = moved[k] BY <1>1, <1>2, <2>2
    <3> QED BY <3>1 DEF SettleInv, DownInv
  <2> QED BY <2>1, <2>2
<1>4. UpInv'
  <2> SUFFICES ASSUME NEW k \in Key \ down'
               PROVE  /\ moved'[k] >= Hold - 1 => \/ scanning /\ releaseCnt >= moved'[k] + 2 - Hold
                                                  \/ k \notin pre /\ k \notin last /\ releaseCnt = 0
                      /\ moved'[k] < Hold => k \notin pre
                      /\ moved'[k] < Hold - 1 => k \notin last
    BY <1>1 DEF UpInv
  <2>1. CASE k = j
    <3>1. moved'[k] = Bounce + Hold /\ k \in down BY <1>1, <1>2, <2>1
    <3>2. scanning /\ releaseCnt >= Stretch - 1
      BY <1>0, <1>1, <2>1, <3>1 DEF SettleInv, DownInv
    <3>3. releaseCnt >= moved'[k] + 2 - Hold BY <1>0, <1>2, <3>1, <3>2
    <3>4. ~(moved'[k] < Hold) /\ ~(moved'[k] < Hold - 1) BY <1>0, <3>1
    <3> QED BY <3>2, <3>3, <3>4
  <2>2. CASE k # j
    <3>1. k \in Key \ down /\ moved'[k] = moved[k] BY <1>1, <1>2, <2>2
    <3> QED BY <3>1 DEF SettleInv, UpInv
  <2> QED BY <2>1, <2>2
<1> QED BY <1>3, <1>4

(* While nothing is scanned, no key is down that has settled.              *)
LEMMA IdleSettles == ASSUME Settles, SettleInv, ScanIdle PROVE DownInv' /\ UpInv'
<1>0. Bounce \in Nat /\ Hold \in Nat /\ Hold >= 2 BY KeyScanAssumption DEF Settles
<1>1. ~scanning /\ FALSE \in Flags /\ UNCHANGED <<down, scanning, releaseCnt, pre, last>> /\ Called
  BY DEF ScanIdle, Wanted, Called
<1>2. moved \in [Key -> 0 .. Bounce + Hold] /\ down \subseteq Key BY DEF SettleInv, ScanTypeOK
<1>3. \A k \in down : moved[k] > Hold
  <2>1. down \ Shaky = {} BY <1>1 DEF Flags
  <2> QED BY <2>1 DEF Shaky
<1>4. \A k \in Key : /\ moved[k] = 0 => moved'[k] = 0
                     /\ moved[k] > 0 => moved'[k] = moved[k] - 1
  BY <1>1, CalledMoves DEF SettleInv
<1>5. DownInv'
  <2> SUFFICES ASSUME NEW k \in down PROVE ~(moved'[k] < Hold) /\ ~(moved'[k] < Hold - 1)
    BY <1>1 DEF DownInv
  <2> QED BY <1>0, <1>2, <1>3, <1>4
<1>6. UpInv'
  <2> SUFFICES ASSUME NEW k \in Key \ down
               PROVE  /\ moved'[k] >= Hold - 1 => k \notin pre /\ k \notin last /\ releaseCnt = 0
                      /\ moved'[k] < Hold => k \notin pre
                      /\ moved'[k] < Hold - 1 => k \notin last
    BY <1>1 DEF UpInv
  <2>1. /\ moved[k] >= Hold - 1 => k \notin pre /\ k \notin last /\ releaseCnt = 0
        /\ moved[k] < Hold => k \notin pre
        /\ moved[k] < Hold - 1 => k \notin last
    BY <1>1 DEF SettleInv, UpInv
  <2>2. moved[k] \in 0 .. Bounce + Hold /\ moved'[k] \in {moved[k], moved[k] - 1} /\ moved'[k] <= moved[k]
    BY <1>2, <1>4
  <2> QED BY <1>0, <2>1, <2>2
<1> QED BY <1>5, <1>6

LEMMA ReleasedSettles == ASSUME Settles, SettleInv, ScanReleased PROVE DownInv' /\ UpInv'
<1>0. Bounce \in Nat /\ Hold \in Nat /\ Hold >= 2 BY KeyScanAssumption DEF Settles
<1>1. UNCHANGED <<down, pre, last>> /\ Called BY DEF ScanReleased, Called
<1>2. moved \in [Key -> 0 .. Bounce + Hold] /\ down \subseteq Key BY DEF SettleInv, ScanTypeOK
<1>3. releaseCnt = 0 /\ releaseCnt' = 0 /\ \A k \in down : moved[k] > Hold
  BY NothingFound DEF SettleInv
<1>4. \A k \in Key : /\ moved[k] = 0 => moved'[k] = 0
                     /\ moved[k] > 0 => moved'[k] = moved[k] - 1
  BY <1>1, CalledMoves DEF SettleInv
<1>5. DownInv'
  <2> SUFFICES ASSUME NEW k \in down PROVE ~(moved'[k] < Hold) /\ ~(moved'[k] < Hold - 1)
    BY <1>1 DEF DownInv
  <2> QED BY <1>0, <1>2, <1>3, <1>4
<1>6. UpInv'
  <2> SUFFICES ASSUME NEW k \in Key \ down
               PROVE  /\ moved'[k] >= Hold - 1 => k \notin pre /\ k \notin last
                      /\ moved'[k] < Hold => k \notin pre
                      /\ moved'[k] < Hold - 1 => k \notin last
    BY <1>1, <1>3 DEF UpInv
  <2>1. moved[k] \in 0 .. Bounce + Hold /\ moved'[k] \in {moved[k], moved[k] - 1} /\ moved'[k] <= moved[k]
    BY <1>2, <1>4
  <2>2. /\ moved[k] >= Hold - 1 => k \notin pre /\ k \notin last
        /\ moved[k] < Hold => k \notin pre
        /\ moved[k] < Hold - 1 => k \notin last
    <3>1. /\ moved[k] >= Hold - 1 => \/ scanning /\ releaseCnt >= moved[k] + 2 - Hold
                                     \/ k \notin pre /\ k \notin last /\ releaseCnt = 0
          /\ moved[k] < Hold => k \notin pre
          /\ moved[k] < Hold - 1 => k \notin last
      BY DEF SettleInv, UpInv
    <3>2. moved[k] >= Hold - 1 => ~(releaseCnt >= moved[k] + 2 - Hold) BY <1>0, <1>3, <2>1
    <3> QED BY <3>1, <3>2
  <2> QED BY <1>0, <2>1, <2>2
<1> QED BY <1>5, <1>6

(* The readings of a key that has settled: the first goes into mtrx_pre,   *)
(* the second decides.                                                     *)
LEMMA MatrixSettles == ASSUME Settles, SettleInv, ScanMatrix PROVE DownInv' /\ UpInv'
<1>0. Bounce \in Nat /\ Hold \in Nat /\ Hold >= 2 /\ Stretch \in Nat /\ Bounce + 3 <= Stretch
  BY KeyScanAssumption DEF Settles
<1>1. scanning' = TRUE /\ down' = down /\ Called BY DEF ScanMatrix, Called
<1>2. moved \in [Key -> 0 .. Bounce + Hold] /\ down \subseteq Key /\ releaseCnt \in 0 .. Stretch
  BY DEF SettleInv, ScanTypeOK
<1>3. PICK read \in SUBSET Key :
        /\ \A k \in Key : moved[k] <= Hold => (k \in read <=> k \in down)
        /\ last' = (IF poweron THEN read ELSE Filtered(read)) /\ pre' = read
        /\ \/ releaseCnt' = Stretch - 1
           \/ /\ releaseCnt > 0 /\ releaseCnt' = releaseCnt - 1
              /\ \A k \in down : moved[k] > Hold
  BY MatrixRead DEF SettleInv
<1>4. \A k \in Key : /\ moved[k] = 0 => moved'[k] = 0
                     /\ moved[k] > 0 => moved'[k] = moved[k] - 1
  BY <1>1, CalledMoves DEF SettleInv
<1>5. \A k \in Key : /\ k \in read /\ (k \in pre \/ k \in last) => k \in last'
                     /\ k \notin read /\ (k \notin pre \/ k \notin last) => k \notin last'
  BY <1>3 DEF Filtered
<1>6. DownInv'
  <2> SUFFICES ASSUME NEW k \in down
               PROVE  /\ moved'[k] < Hold => releaseCnt' >= Stretch - 1 /\ k \in read
                      /\ moved'[k] < Hold - 1 => k \in last'
    BY <1>1, <1>3 DEF DownInv
  <2>0. k \in Key /\ moved[k] \in 0 .. Bounce + Hold BY <1>2
  <2>1. ASSUME moved'[k] < Hold PROVE moved[k] <= Hold BY <1>0, <1>4, <2>0, <2>1
  <2>2. ASSUME moved'[k] < Hold PROVE k \in read /\ releaseCnt' = Stretch - 1
    BY <1>0, <1>3, <2>0, <2>1, <2>2
  <2>3. ASSUME moved'[k] < Hold - 1 PROVE k \in last'
    <3>1. moved[k] < Hold /\ moved'[k] < Hold BY <1>0, <1>4, <2>0, <2>3
    <3>2. k \in pre BY <3>1 DEF SettleInv, DownInv
    <3> QED BY <1>5, <2>0, <2>2, <3>1, <3>2
  <2> QED BY <1>0, <2>2, <2>3
<1>7. UpInv'
  <2> SUFFICES ASSUME NEW k \in Key \ down
               PROVE  /\ moved'[k] >= Hold - 1 => releaseCnt' >= moved'[k] + 2 - Hold
                      /\ moved'[k] < Hold => k \notin read
                      /\ moved'[k] < Hold - 1 => k \notin last'
    BY <1>1, <1>3 DEF UpInv
  <2>0. moved[k] \in 0 .. Bounce + Hold BY <1>2
  <2>1. ASSUME moved'[k] >= Hold - 1 PROVE releaseCnt' >= moved'[k] + 2 - Hold
    <3>1. moved[k] > 0 /\ moved'[k] = moved[k] - 1 BY <1>0, <1>4, <2>0, <2>1
    <3>2. CASE releaseCnt' = Stretch - 1 BY <1>0, <2>0, <3>1, <3>2
    <3>3. CASE releaseCnt > 0 /\ releaseCnt' = releaseCnt - 1
      <4>1. moved[k] >= Hold - 1 BY <1>0, <2>0, <2>1, <3>1
      <4>2. releaseCnt >= moved[k] + 2 - Hold BY <3>3, <4>1 DEF SettleInv, UpInv
      <4> QED BY <1>0, <1>2, <2>0, <3>1, <3>3, <4>2
    <3> QED BY <1>3, <3>2, <3>3
  <2>2. ASSUME moved'[k] < Hold PROVE k \notin read
    <3>1. moved[k] <= Hold BY <1>0, <1>4, <2>0, <2>2
    <3> QED BY <1>3, <3>1
  <2>3. ASSUME moved'[k] < Hold - 1 PROVE k \notin last'
    <3>1. moved[k] < Hold /\ moved'[k] < Hold BY <1>0, <1>4, <2>0, <2>3
    <3>2. k \notin pre BY <3>1 DEF SettleInv, UpInv
    <3> QED BY <1>5, <2>2, <3>1, <3>2
  <2> QED BY <2>1, <2>2, <2>3
<1> QED BY <1>6, <1>7

LEMMA SettleInit == ScanInit => SettleInv
<1> SUFFICES ASSUME ScanInit PROVE SettleInv OBVIOUS
<1>0. Stretch \in Nat \ {0} /\ Bounce \in Nat /\ Hold \in Nat \ {0} BY KeyScanAssumption
<1>1. moved \in [Key -> 0 .. Bounce + Hold] /\ may \in [Key -> 0 .. 3] /\ releaseCnt \in 0 .. Stretch
  BY <1>0 DEF ScanInit
<1>2. ScanTypeOK BY <1>1 DEF ScanInit, ScanTypeOK
<1> QED BY <1>0, <1>2 DEF ScanInit, SettleInv, Stretched, DownInv, UpInv

LEMMA SettleStep == ASSUME Settles, SettleInv, [ScanNext]_scanVars PROVE SettleInv'
<1>1. CASE ScanNext
  <2>1. ScanTypeOK' /\ Stretched' BY <1>1, ScanTypeStep DEF SettleInv
  <2>2. DownInv' /\ UpInv'
    BY <1>1, ResetSettles, MoveSettles, IdleSettles, ReleasedSettles, MatrixSettles DEF ScanNext
  <2> QED BY <2>1, <2>2 DEF SettleInv
<1>2. CASE UNCHANGED scanVars
  BY <1>2 DEF scanVars, contacts, SettleInv, ScanTypeOK, Stretched, DownInv, UpInv
<1> QED BY <1>1, <1>2

LEMMA AlwaysSettles == ASSUME Settles PROVE ScanSpec => []SettleInv
<1>1. SettleInv /\ [ScanNext]_scanVars => SettleInv' BY SettleStep
<1> QED BY <1>1, SettleInit, PTL DEF ScanSpec

(* keyboard.c:220, 361-372, keyboard.h:89-115: whatever the keys and the   *)
(* pins they are on, once a key has been left alone for the two calls      *)
(* behind its bouncing the caller has been told how it is.                 *)
THEOREM SettledKeysReported ==
  ASSUME Bounce + 3 <= Stretch, Hold >= 2 PROVE ScanSpec => []ScanInv
<1>1. SettleInv => ScanInv
  <2> SUFFICES ASSUME SettleInv, NEW k \in Key, moved[k] = 0 PROVE k \in last <=> k \in down
    BY DEF SettleInv, ScanInv, SettledIsReported
  <2>1. moved[k] < Hold - 1 BY KeyScanAssumption
  <2> QED BY <2>1 DEF SettleInv, DownInv, UpInv
<1>2. Settles BY DEF Settles
<1> QED BY <1>1, <1>2, AlwaysSettles, PTL

-----------------------------------------------------------------------------
(* The filter is one call behind the contacts, so that what bounces in the *)
(* last of three shaky calls is over before it is let through.             *)
Brief == Bounce <= 3

ReportsInv == SettleInv /\ MayInv /\ Fresh

LEMMA MovedRange ==
  ASSUME ScanTypeOK, Brief, NEW k \in Key
  PROVE  /\ Hold \in Nat \ {0} /\ moved[k] \in 0 .. Hold + 3 /\ may[k] \in 0 .. 3
BY KeyScanAssumption DEF ScanTypeOK, Brief

LEMMA ResetReports == ASSUME Settles, Brief, ReportsInv, Reset PROVE MayInv' /\ Fresh'
<1>1. /\ pre' = {} /\ last' = {} /\ down' = down
      /\ \A k \in Key : /\ k \in down => may'[k] = 1
                        /\ k \notin down /\ moved[k] > 0 => may'[k] = 2
                        /\ moved'[k] = (IF k \in down /\ moved[k] <= Hold THEN Hold
                                        ELSE IF moved[k] = 0 THEN 0 ELSE moved[k] - 1)
  BY DEF Reset
<1>2. ASSUME NEW k \in Key, k \in down PROVE may'[k] = 1 /\ ~(moved'[k] > Hold + 2) /\ ~(k \in last' <=> k \in down')
                                             /\ ~(k \in pre' <=> k \in down')
  BY <1>1, <1>2, MovedRange DEF ReportsInv, SettleInv
<1>3. ASSUME NEW k \in Key, k \notin down
      PROVE  /\ moved'[k] > 0 => may'[k] = 2
             /\ (k \in last' <=> k \in down') /\ (k \in pre' <=> k \in down')
  BY <1>1, <1>3, MovedRange DEF ReportsInv, SettleInv
<1>4. ASSUME NEW k \in Key, moved'[k] >= Hold + 1 \/ moved'[k] >= Hold + 2 PROVE moved'[k] > 0
  BY <1>1, <1>4, MovedRange DEF ReportsInv, SettleInv
<1>5. MayInv'
  <2> SUFFICES ASSUME NEW k \in Key
               PROVE  /\ ~(k \in last' <=> k \in down')
                           => may'[k] >= IF poweron' /\ moved'[k] > Hold + 2 THEN 3 ELSE 1
                      /\ ~(k \in last' <=> k \in down') /\ (k \in pre' <=> k \in down')
                           => moved'[k] <= Hold + 2
                      /\ (k \in last' <=> k \in down') /\ (k \in pre' <=> k \in down')
                           /\ moved'[k] >= Hold + 2 => may'[k] >= 2
                      /\ (k \in last' <=> k \in down') /\ ~(k \in pre' <=> k \in down')
                           /\ moved'[k] >= Hold + 1 => may'[k] >= 2
                      /\ poweron' /\ k \notin down' /\ moved'[k] >= Hold + 1 => may'[k] >= 2
    BY DEF MayInv, Told, Read
  <2>1. CASE k \in down BY <1>1, <1>2, <2>1
  <2>2. CASE k \notin down BY <1>1, <1>3, <1>4, <2>2
  <2> QED BY <2>1, <2>2
<1> QED BY <1>1, <1>5 DEF Fresh

(* A key that may move has been reported as it was.                        *)
LEMMA MoveReports ==
  ASSUME Settles, Brief, ReportsInv, NEW j \in Key, Move(j) PROVE MayInv' /\ Fresh'
<1>0. Hold \in Nat /\ Hold >= 2 BY KeyScanAssumption DEF Settles
<1>1. /\ moved[j] = 0 /\ moved' = [moved EXCEPT ![j] = Bounce + Hold]
      /\ down' = (IF j \in down THEN down \ {j} ELSE down \cup {j})
      /\ may' = [may EXCEPT ![j] = IF poweron THEN 3 ELSE 1]
      /\ UNCHANGED <<poweron, pre, last>>
  BY DEF Move
<1>2. moved \in [Key -> 0 .. Bounce + Hold] /\ may \in [Key -> 0 .. 3] /\ down \subseteq Key
  BY DEF ReportsInv, SettleInv, ScanTypeOK
<1>3. (j \in last <=> j \in down) /\ (j \in pre <=> j \in down)
  <2>1. moved[j] < Hold /\ moved[j] < Hold - 1 BY <1>0, <1>1
  <2> QED BY <2>1 DEF ReportsInv, SettleInv, DownInv, UpInv
<1>4. MayInv'
  <2> SUFFICES ASSUME NEW k \in Key
               PROVE  /\ ~(k \in last <=> k \in down')
                           => may'[k] >= IF poweron /\ moved'[k] > Hold + 2 THEN 3 ELSE 1
                      /\ ~(k \in last <=> k \in down') /\ (k \in pre <=> k \in down')
                           => moved'[k] <= Hold + 2
                      /\ (k \in last <=> k \in down') /\ (k \in pre <=> k \in down')
                           /\ moved'[k] >= Hold + 2 => may'[k] >= 2
                      /\ (k \in last <=> k \in down') /\ ~(k \in pre <=> k \in down')
                           /\ moved'[k] >= Hold + 1 => may'[k] >= 2
                      /\ poweron /\ k \notin down' /\ moved'[k] >= Hold + 1 => may'[k] >= 2
    BY <1>1 DEF MayInv, Told, Read
  <2>1. CASE k = j
    <3>1. ~(k \in last <=> k \in down') /\ ~(k \in pre <=> k \in down')
      BY <1>1, <1>3, <2>1
    <3>2. may'[k] = (IF poweron THEN 3 ELSE 1) BY <1>1, <1>2, <2>1
    <3> QED BY <3>1, <3>2
  <2>2. CASE k # j
    <3>1. (k \in down' <=> k \in down) /\ moved'[k] = moved[k] /\ may'[k] = may[k]
      BY <1>1, <1>2, <2>2
    <3> QED BY <3>1 DEF ReportsInv, MayInv, Told, Read
  <2> QED BY <2>1, <2>2
<1> QED BY <1>1, <1>4 DEF ReportsInv, Fresh

(* A call that reads no row leaves less bouncing to come.                  *)
LEMMA UnreadReports ==
  ASSUME Settles, Brief, ReportsInv, Called, UNCHANGED <<pre, last, may>>
  PROVE  MayInv' /\ Fresh'
<1>1. down' = down /\ poweron' = FALSE BY DEF Called
<1>2. ASSUME NEW k \in Key PROVE moved'[k] \in Nat /\ moved'[k] <= moved[k]
  BY CalledMoves, MovedRange DEF ReportsInv, SettleInv
<1>3. MayInv'
  <2> SUFFICES ASSUME NEW k \in Key
               PROVE  /\ ~Told(k) => may[k] >= 1
                      /\ ~Told(k) /\ Read(k) => moved'[k] <= Hold + 2
                      /\ Told(k) /\ Read(k) /\ moved'[k] >= Hold + 2 => may[k] >= 2
                      /\ Told(k) /\ ~Read(k) /\ moved'[k] >= Hold + 1 => may[k] >= 2
    BY <1>1 DEF MayInv, Told, Read
  <2>1. /\ ~Told(k) => may[k] >= IF poweron /\ moved[k] > Hold + 2 THEN 3 ELSE 1
        /\ ~Told(k) /\ Read(k) => moved[k] <= Hold + 2
        /\ Told(k) /\ Read(k) /\ moved[k] >= Hold + 2 => may[k] >= 2
        /\ Told(k) /\ ~Read(k) /\ moved[k] >= Hold + 1 => may[k] >= 2
    BY DEF ReportsInv, MayInv
  <2>2. /\ Hold \in Nat /\ moved[k] \in Nat /\ may[k] \in Nat
        /\ moved'[k] \in Nat /\ moved'[k] <= moved[k]
    BY <1>2, MovedRange DEF ReportsInv, SettleInv
  <2> QED BY <2>1, <2>2
<1> QED BY <1>1, <1>3 DEF Fresh

(* What one reading of the rows reports of a key, and what there is to     *)
(* report of it afterwards.                                                *)
LEMMA MatrixReports ==
  ASSUME Settles, Brief, ReportsInv, ScanMatrix
  PROVE  MayInv' /\ Fresh' /\ \A k \in Key : Changed(k) => may[k] > 0
<1>1. Called /\ down' = down /\ poweron' = FALSE
      /\ may' = [k \in Key |-> IF Changed(k) /\ may[k] > 0 THEN may[k] - 1 ELSE may[k]]
  BY DEF ScanMatrix, Called
<1>2. PICK read \in SUBSET Key :
        /\ \A k \in Key : moved[k] <= Hold => (k \in read <=> k \in down)
        /\ last' = (IF poweron THEN read ELSE Filtered(read)) /\ pre' = read
  BY MatrixRead DEF ReportsInv, SettleInv
<1>3. ASSUME NEW k \in Key
      PROVE  /\ ~(k \in last' <=> k \in down) => may'[k] >= 1
             /\ ~(k \in last' <=> k \in down) /\ (k \in read <=> k \in down) => moved'[k] <= Hold + 2
             /\ (k \in last' <=> k \in down) /\ (k \in read <=> k \in down)
                  /\ moved'[k] >= Hold + 2 => may'[k] >= 2
             /\ (k \in last' <=> k \in down) /\ ~(k \in read <=> k \in down)
                  /\ moved'[k] >= Hold + 1 => may'[k] >= 2
             /\ Changed(k) => may[k] > 0
  <2>1. /\ Hold \in Nat /\ moved[k] \in 0 .. Hold + 3 /\ may[k] \in 0 .. 3
        /\ moved[k] = 0 => moved'[k] = 0
        /\ moved[k] > 0 => moved'[k] = moved[k] - 1
    BY <1>1, CalledMoves, MovedRange DEF ReportsInv, SettleInv
  <2>2. /\ Changed(k) <=> ~(k \in last <=> k \in last')
        /\ Changed(k) /\ may[k] > 0 => may'[k] = may[k] - 1
        /\ ~Changed(k) => may'[k] = may[k]
        /\ moved[k] <= Hold => (k \in read <=> k \in down)
    <3>1. may'[k] = IF Changed(k) /\ may[k] > 0 THEN may[k] - 1 ELSE may[k] BY <1>1
    <3> QED BY <1>2, <3>1 DEF Changed
  <2>3. /\ ~Told(k) => may[k] >= IF poweron /\ moved[k] > Hold + 2 THEN 3 ELSE 1
        /\ ~Told(k) /\ Read(k) => moved[k] <= Hold + 2
        /\ Told(k) /\ Read(k) /\ moved[k] >= Hold + 2 => may[k] >= 2
        /\ Told(k) /\ ~Read(k) /\ moved[k] >= Hold + 1 => may[k] >= 2
        /\ poweron /\ k \notin down /\ moved[k] >= Hold + 1 => may[k] >= 2
    BY DEF ReportsInv, MayInv
  <2>4. CASE poweron
    <3>1. (k \in last' <=> k \in read) /\ k \notin pre /\ k \notin last
      BY <1>2, <2>4 DEF ReportsInv, Fresh
    <3>2. CASE k \in read <=> k \in down BY <2>1, <2>2, <2>3, <2>4, <3>1, <3>2 DEF Told, Read
    <3>3. CASE ~(k \in read <=> k \in down) BY <2>1, <2>2, <2>3, <2>4, <3>1, <3>3 DEF Told, Read
    <3> QED BY <3>2, <3>3
  <2>5. CASE ~poweron
    <3>1. k \in last' <=> IF k \in read <=> k \in pre THEN k \in read ELSE k \in last
      BY <1>2, <2>5 DEF Filtered
    <3>2. CASE k \in read <=> k \in down BY <2>1, <2>2, <2>3, <3>1, <3>2 DEF Told, Read
    <3>3. CASE ~(k \in read <=> k \in down) BY <2>1, <2>2, <2>3, <3>1, <3>3 DEF Told, Read
    <3> QED BY <3>2, <3>3
  <2> QED BY <2>4, <2>5
<1> QED BY <1>1, <1>2, <1>3 DEF MayInv, Told, Read, Fresh

LEMMA ReportsStep ==
  ASSUME Settles, Brief, ReportsInv, [ScanNext]_scanVars
  PROVE  ReportsInv' /\ \A k \in Key : scanning' /\ Changed(k) => may[k] > 0
<1>1. SettleInv' BY SettleStep DEF ReportsInv
<1>2. CASE Reset BY <1>1, <1>2, ResetReports DEF ReportsInv, Reset
<1>3. CASE ScanIdle BY <1>1, <1>3, UnreadReports DEF ReportsInv, ScanIdle, Changed
<1>4. CASE ScanMatrix BY <1>1, <1>4, MatrixReports DEF ReportsInv
<1>5. CASE ScanReleased BY <1>1, <1>5, UnreadReports DEF ReportsInv, ScanReleased, Changed
<1>6. ASSUME NEW j \in Key, Move(j)
      PROVE  ReportsInv' /\ \A k \in Key : scanning' /\ Changed(k) => may[k] > 0
  BY <1>1, <1>6, MoveReports DEF ReportsInv, Move, Changed
<1>7. CASE UNCHANGED scanVars
  <2>1. MayInv' /\ Fresh' BY <1>7 DEF ReportsInv, MayInv, Fresh, Told, Read, scanVars, contacts
  <2> QED BY <1>1, <1>7, <2>1 DEF ReportsInv, Changed, scanVars, contacts
<1> QED BY <1>2, <1>3, <1>4, <1>5, <1>6, <1>7 DEF ScanNext

LEMMA ReportsInit == ASSUME Settles, ScanInit PROVE ReportsInv
<1>1. Hold \in Nat /\ Hold >= 2 BY KeyScanAssumption DEF Settles
<1>2. \A k \in Key : moved[k] = 0 /\ k \notin down /\ k \notin pre /\ k \notin last BY DEF ScanInit
<1> QED BY <1>1, <1>2, SettleInit DEF ReportsInv, MayInv, Fresh, Told, Read, ScanInit

(* keyboard.c:220: whatever the keys, a key that moves is reported once,   *)
(* however its contact bounces in the three calls behind the move, and one *)
(* that a reset finds in motion no more often than the unfiltered reading  *)
(* of deep_wakeup_proc explains.                                           *)
THEOREM BouncingReportedOnce ==
  ASSUME Bounce <= 3, Bounce + 3 <= Stretch, Hold >= 2 PROVE ScanSpec => OneReport
<1>0. Settles /\ Brief BY DEF Settles, Brief
<1>1. ScanInit => ReportsInv BY <1>0, ReportsInit
<1>2. ReportsInv /\ [ScanNext]_scanVars => ReportsInv' BY <1>0, ReportsStep
<1>3. ReportsInv /\ [ScanNext]_scanVars => [\A k \in Key : scanning' /\ Changed(k) => may[k] > 0]_scanVars
  BY <1>0, ReportsStep
<1> QED BY <1>1, <1>2, <1>3, PTL DEF ScanSpec, OneReport

(***************************************************************************)
(* Keys, replay and sleep.                                                 *)
(***************************************************************************)
-----------------------------------------------------------------------------
(* What the central sees pressed: nothing without a link; the keyboard key *)
(* that was sent last only while a key is down or the manual release of a  *)
(* replayed one is still to come, which comes unless the key is down.      *)
ReleaseInv ==
  /\ link # "conn" => host = {}
  /\ Hears /\ type = "kb" /\ "kb" \in host => seen # None \/ deepback = "wait"
  /\ deepback = "cache" /\ notReleased => seen # None

(* A press of VOICE ends with its key or is a replayed tap; the cache is   *)
(* filled by the boot alone.                                               *)
TaskInv ==
  /\ voice => seen = "voice" \/ tapped
  /\ at \in {"deep", "boot"} => deepback = "idle"

RemoteInv == SleepInv /\ ReleaseInv /\ TaskInv
-----------------------------------------------------------------------------
(* What is left of it by a reset.                                          *)
LEMMA FreshFacts ==
  ASSUME FreshRam
  PROVE  /\ term' = FALSE /\ leaving' = 0 /\ type' = None /\ voice' = FALSE /\ mic' = FALSE
         /\ ota' = FALSE /\ led' = FALSE /\ elapsed' = {} /\ host' = {} /\ tapped' = FALSE
         /\ term' \in BOOLEAN /\ voice' \in BOOLEAN /\ mic' \in BOOLEAN /\ ota' \in BOOLEAN
         /\ led' \in BOOLEAN /\ tapped' \in BOOLEAN
         /\ elapsed' \subseteq Waits /\ host' \subseteq {"kb", "media"}
<1>1. /\ term' = FALSE /\ leaving' = 0 /\ type' = None /\ voice' = FALSE /\ mic' = FALSE
      /\ ota' = FALSE /\ led' = FALSE /\ elapsed' = {} /\ host' = {} /\ tapped' = FALSE
  BY DEF FreshRam
<1>2. /\ term' \in BOOLEAN /\ voice' \in BOOLEAN /\ mic' \in BOOLEAN /\ ota' \in BOOLEAN
      /\ led' \in BOOLEAN /\ tapped' \in BOOLEAN
  BY <1>1
<1> QED BY <1>1, <1>2

LEMMA PowerFacts ==
  ASSUME NoPower
  PROVE  /\ link' = "off" /\ adv' = FALSE /\ adv' \in BOOLEAN /\ deepback' = "idle" /\ cache' = None
         /\ seen' = None /\ need' \in BOOLEAN /\ notReleased' \in BOOLEAN
<1>1. /\ link' = "off" /\ adv' = FALSE /\ deepback' = "idle" /\ cache' = None
      /\ seen' = None /\ need' = FALSE /\ notReleased' = FALSE
  BY DEF NoPower
<1>2. need' \in BOOLEAN /\ notReleased' \in BOOLEAN /\ adv' \in BOOLEAN
  BY <1>1
<1> QED BY <1>1, <1>2

(* A key change, whether scanned or replayed.                              *)
LEMMA ChangeTypes ==
  ASSUME TypeOK, NEW k \in Press \cup {None}, KeyChange(k)
  PROVE  /\ notReleased' \in BOOLEAN /\ type' \in {None, "kb", "media"} /\ voice' \in BOOLEAN
         /\ mic' \in BOOLEAN /\ led' \in BOOLEAN /\ elapsed' \subseteq Waits
         /\ host' \subseteq {"kb", "media"}
<1>1. /\ notReleased' \in BOOLEAN /\ voice' \in BOOLEAN /\ mic' \in BOOLEAN /\ led' \in BOOLEAN
  BY DEF KeyChange
<1>2. type' \in {None, "kb", "media"} /\ elapsed' \subseteq Waits
  BY DEF KeyChange, TypeOK
<1>3. host' \subseteq {"kb", "media"}
  <2>1. host \subseteq {"kb", "media"} /\ Reported(k) \subseteq {"kb", "media"}
    BY DEF TypeOK, Reported
  <2> QED BY <2>1 DEF KeyChange
<1> QED BY <1>1, <1>2, <1>3

(* The parts of proc_keyboard that reach its filter.                       *)
LEMMA KeyboardFrame ==
  ASSUME KeyTooSoon \/ KeyScanned \/ KeyReplayed \/ KeyQuiet
  PROVE  /\ at \in {"sdk", "woken"} /\ at' \in {"woken", "pm"}
         /\ UNCHANGED <<link, adv, term, leaving, ana, pads, ota>>
BY DEF KeyTooSoon, KeyScanned, KeyReplayed, KeyQuiet, Unchanged, ProcKeyboard, radioVars

LEMMA TypeStep == ASSUME TypeOK, Next PROVE TypeOK'
<1>0. /\ pads \in Press \cup {None} /\ seen \in Press \cup {None} /\ cache \in Press \cup {None}
      /\ None \in Press \cup {None} /\ 0 \in 0 .. 2
  BY DEF TypeOK
<1>1. CASE Pads
  BY <1>0, <1>1 DEF Pads, radioVars, keyVars, TypeOK
<1>2. CASE Connected
  BY <1>2 DEF Connected, keyVars, TypeOK
<1>3. CASE Terminated
  <2>1. term' \in BOOLEAN /\ mic' \in BOOLEAN /\ host' \subseteq {"kb", "media"}
    BY <1>3 DEF Terminated
  <2>2. link' \in {"adv", "conn", "off"} /\ leaving' \in 0 .. 2 /\ elapsed' \subseteq Waits
    BY <1>3 DEF Terminated, TypeOK
  <2> QED BY <1>3, <2>1, <2>2 DEF Terminated, keyVars, TypeOK
<1>4. CASE LedDone
  <2>1. led' \in BOOLEAN
    BY <1>4 DEF LedDone
  <2> QED BY <1>4, <2>1 DEF LedDone, radioVars, keyVars, TypeOK
<1>5. CASE EntryOtaMode
  <2>1. led' \in BOOLEAN /\ ota' \in BOOLEAN
    BY <1>5 DEF EntryOtaMode
  <2> QED BY <1>5, <2>1 DEF EntryOtaMode, radioVars, keyVars, TypeOK
<1>6. CASE OtaEnd
  <2>1. FreshRam /\ NoPower /\ at' = "boot" /\ UNCHANGED <<ana, pads>>
    BY <1>6 DEF OtaEnd, NoPower
  <2> QED BY <1>0, <2>1, FreshFacts, PowerFacts DEF TypeOK
<1>7. ASSUME NEW w \in Waits, Elapse(w) PROVE TypeOK'
  BY <1>7 DEF Elapse, radioVars, keyVars, TypeOK
<1>8. CASE KeyTooSoon
  BY <1>8 DEF KeyTooSoon, radioVars, keyVars, TypeOK
<1>9. CASE KeyScanned
  <2>1. /\ KeyChange(pads) /\ seen' = pads /\ cache' = cache
        /\ deepback' \in {"idle", deepback}
    BY <1>9 DEF KeyScanned
  <2>2. need' \in BOOLEAN /\ tapped' \in BOOLEAN
    BY <1>9 DEF KeyScanned
  <2>3. /\ notReleased' \in BOOLEAN /\ type' \in {None, "kb", "media"} /\ voice' \in BOOLEAN
        /\ mic' \in BOOLEAN /\ led' \in BOOLEAN /\ elapsed' \subseteq Waits
        /\ host' \subseteq {"kb", "media"}
    BY <1>0, <2>1, ChangeTypes
  <2>4. at' \in {"woken", "pm"} /\ UNCHANGED <<link, adv, term, leaving, ana, pads, ota>>
    BY <1>9, KeyboardFrame
  <2> QED BY <1>0, <2>1, <2>2, <2>3, <2>4 DEF TypeOK
<1>10. CASE KeyReplayed
  <2>1. /\ KeyChange(cache) /\ seen' = seen /\ cache' = None /\ deepback' \in {"idle", "wait"}
    BY <1>10 DEF KeyReplayed, Unchanged
  <2>2. need' \in BOOLEAN /\ tapped' \in BOOLEAN
    BY <1>10 DEF KeyReplayed, Unchanged, TypeOK
  <2>3. /\ notReleased' \in BOOLEAN /\ type' \in {None, "kb", "media"} /\ voice' \in BOOLEAN
        /\ mic' \in BOOLEAN /\ led' \in BOOLEAN /\ elapsed' \subseteq Waits
        /\ host' \subseteq {"kb", "media"}
    BY <1>0, <2>1, ChangeTypes
  <2>4. at' \in {"woken", "pm"} /\ UNCHANGED <<link, adv, term, leaving, ana, pads, ota>>
    BY <1>10, KeyboardFrame
  <2> QED BY <1>0, <2>1, <2>2, <2>3, <2>4 DEF TypeOK
<1>11. CASE KeyQuiet
  <2>1. need' \in BOOLEAN /\ voice' \in BOOLEAN /\ mic' \in BOOLEAN /\ notReleased' \in BOOLEAN
    BY <1>11 DEF KeyQuiet, Unchanged, TypeOK
  <2>2. /\ deepback' \in {"idle", deepback} /\ elapsed' \subseteq elapsed /\ host' \subseteq host
        /\ UNCHANGED <<type, led, tapped, cache, seen>>
    BY <1>11 DEF KeyQuiet, Unchanged
  <2>3. at' \in {"woken", "pm"} /\ UNCHANGED <<link, adv, term, leaving, ana, pads, ota>>
    BY <1>11, KeyboardFrame
  <2>4. elapsed' \subseteq Waits /\ host' \subseteq {"kb", "media"} /\ deepback' \in {"idle", "cache", "wait"}
    BY <2>2 DEF TypeOK
  <2> QED BY <1>0, <2>1, <2>2, <2>3, <2>4 DEF TypeOK
<1>12. CASE PmMic \/ PmNothing
  <2>1. at' = "sdk" /\ UNCHANGED <<radioVars, ana, pads, keyVars, mic, ota, led, elapsed>>
    BY <1>12 DEF PmMic, PmNothing
  <2> QED BY <2>1 DEF radioVars, keyVars, TypeOK
<1>13. CASE PmTerminated \/ PmAdvIdle
  <2>1. FreshRam /\ NoPower /\ at' = "deep" /\ pads' = pads
    BY <1>13 DEF PmTerminated, PmAdvIdle, Sleep, NoPower
  <2>2. ana' \in BOOLEAN
    BY <1>13 DEF PmTerminated, PmAdvIdle, Sleep, TypeOK
  <2> QED BY <1>0, <2>1, <2>2, FreshFacts, PowerFacts DEF TypeOK
<1>14. CASE PmLeave
  <2>1. term' \in BOOLEAN /\ adv' \in BOOLEAN
    BY <1>14 DEF PmLeave
  <2>2. leaving' \in 0 .. 2 /\ at' = "sdk"
    BY <1>14 DEF PmLeave
  <2>3. UNCHANGED <<link, host, ana, pads, keyVars, mic, ota, led, elapsed>>
    BY <1>14 DEF PmLeave
  <2> QED BY <2>1, <2>2, <2>3 DEF keyVars, TypeOK
<1>15. CASE PmStay
  <2>1. adv' \in BOOLEAN /\ leaving' \in 0 .. 2
    BY <1>15 DEF PmStay
  <2> QED BY <1>15, <2>1 DEF PmStay, keyVars, TypeOK
<1>16. CASE WakeUp
  BY <1>16 DEF WakeUp, radioVars, keyVars, TypeOK
<1>17. CASE Boot
  <2>1. FreshRam /\ at' = "sdk" /\ link' = "adv" /\ pads' = pads
    BY <1>17 DEF Boot
  <2>2. adv' \in BOOLEAN /\ ana' \in BOOLEAN /\ notReleased' \in BOOLEAN /\ need' \in BOOLEAN
    BY <1>17 DEF Boot
  <2>3. deepback' \in {"idle", "cache"} /\ cache' \in Press \cup {None} /\ seen' \in Press \cup {None}
    BY <1>0, <1>17 DEF Boot
  <2> QED BY <1>0, <2>1, <2>2, <2>3, FreshFacts DEF TypeOK
<1> QED BY <1>1, <1>2, <1>3, <1>4, <1>5, <1>6, <1>7, <1>8, <1>9, <1>10, <1>11, <1>12, <1>13, <1>14,
           <1>15, <1>16, <1>17 DEF Next
-----------------------------------------------------------------------------
(* Sleep.                                                                  *)
LEMMA SleepStep == ASSUME SleepInv, Next PROVE LeavingEnds'
<1>0. /\ leaving = 1 => link = "conn" /\ term /\ ~adv
      /\ leaving = 2 => link = "off" /\ ~adv
      /\ at \in {"sdk", "woken", "pm"} /\ leaving = 0 => adv /\ link # "off"
      /\ leaving \in 0 .. 2
  BY DEF SleepInv, LeavingEnds, Awake, TypeOK
<1>1. CASE \/ Pads \/ LedDone \/ EntryOtaMode \/ (\E w \in Waits : Elapse(w))
           \/ KeyTooSoon \/ KeyScanned \/ KeyReplayed \/ KeyQuiet \/ PmMic \/ PmNothing
  <2>1. /\ UNCHANGED <<link, adv, term, leaving>>
        /\ at' = at \/ at \in {"sdk", "woken", "pm"}
    <3>1. CASE KeyTooSoon \/ KeyScanned \/ KeyReplayed \/ KeyQuiet
      BY <3>1, KeyboardFrame
    <3>2. CASE Pads \/ LedDone \/ EntryOtaMode \/ (\E w \in Waits : Elapse(w)) \/ PmMic \/ PmNothing
      BY <3>2 DEF Pads, LedDone, EntryOtaMode, Elapse, PmMic, PmNothing, radioVars
    <3> QED BY <1>1, <3>1, <3>2
  <2> QED BY <1>0, <2>1 DEF LeavingEnds, Awake
<1>2. CASE Connected
  BY <1>0, <1>2 DEF Connected, LeavingEnds, Awake
<1>3. CASE Terminated
  <2>1. /\ at = "sdk" /\ link = "conn" /\ at' = at /\ adv' = adv
        /\ link' = (IF adv THEN "adv" ELSE "off")
        /\ leaving' = (IF leaving = 1 THEN 2 ELSE leaving)
    BY <1>3 DEF Terminated
  <2> QED BY <1>0, <2>1 DEF LeavingEnds, Awake
<1>4. CASE OtaEnd \/ PmTerminated \/ PmAdvIdle
  <2>1. at' \in {"boot", "deep"} /\ leaving' = 0
    BY <1>4, FreshFacts DEF OtaEnd, PmTerminated, PmAdvIdle, Sleep, NoPower
  <2> QED BY <2>1 DEF LeavingEnds, Awake
<1>5. CASE PmLeave
  <2>1. link = "conn" /\ link' = link /\ term' /\ ~adv' /\ leaving' = 1
    BY <1>5 DEF PmLeave, ConnIdle
  <2> QED BY <2>1 DEF LeavingEnds
<1>6. CASE PmStay
  <2>1. leaving = 1 /\ link' = link /\ adv' /\ leaving' = 0
    BY <1>6 DEF PmStay
  <2> QED BY <1>0, <2>1 DEF LeavingEnds
<1>7. CASE WakeUp
  <2>1. at' = "boot" /\ UNCHANGED <<link, adv, term, leaving>>
    BY <1>7 DEF WakeUp, radioVars
  <2> QED BY <1>0, <2>1 DEF LeavingEnds, Awake
<1>8. CASE Boot
  <2>1. leaving' = 0 /\ link' = "adv" /\ adv'
    BY <1>8, FreshFacts DEF Boot
  <2> QED BY <2>1 DEF LeavingEnds
<1> QED BY <1>1, <1>2, <1>3, <1>4, <1>5, <1>6, <1>7, <1>8 DEF Next

-----------------------------------------------------------------------------
(* Keys.                                                                   *)
LEMMA ReleaseStep == ASSUME RemoteInv, Next PROVE ReleaseInv'
<1>0. /\ link # "conn" => host = {}
      /\ link = "conn" /\ ~term /\ type = "kb" /\ "kb" \in host => seen # None \/ deepback = "wait"
      /\ deepback = "cache" /\ notReleased => seen # None
      /\ seen \in Press \cup {None} /\ deepback \in {"idle", "cache", "wait"}
      /\ host \subseteq {"kb", "media"} /\ type \in {None, "kb", "media"}
  BY DEF RemoteInv, SleepInv, TypeOK, ReleaseInv, Hears
<1>1. CASE \/ Pads \/ LedDone \/ EntryOtaMode \/ (\E w \in Waits : Elapse(w))
           \/ KeyTooSoon \/ PmMic \/ PmNothing \/ PmStay \/ PmLeave \/ WakeUp
  <2>1. /\ UNCHANGED <<link, host, type, seen, deepback, notReleased>>
        /\ ~term' => ~term
    BY <1>1 DEF Pads, LedDone, EntryOtaMode, Elapse, KeyTooSoon, PmMic, PmNothing, PmStay, PmLeave,
                WakeUp, radioVars, keyVars
  <2> QED BY <1>0, <2>1 DEF ReleaseInv, Hears
<1>2. CASE Connected
  <2>1. link = "adv" /\ UNCHANGED <<host, type, seen, deepback, notReleased>>
    BY <1>2 DEF Connected, keyVars
  <2> QED BY <1>0, <2>1 DEF ReleaseInv, Hears
<1>3. CASE Terminated
  <2>1. host' = {} /\ UNCHANGED <<type, seen, deepback, notReleased>>
    BY <1>3 DEF Terminated, keyVars
  <2> QED BY <1>0, <2>1 DEF ReleaseInv, Hears
<1>4. CASE OtaEnd \/ PmTerminated \/ PmAdvIdle
  <2>1. FreshRam /\ NoPower
    BY <1>4 DEF OtaEnd, PmTerminated, PmAdvIdle, Sleep, NoPower
  <2> QED BY <2>1, FreshFacts, PowerFacts DEF ReleaseInv, Hears
<1>5. CASE Boot
  <2>1. host' = {}
    BY <1>5, FreshFacts DEF Boot
  <2>2. deepback' = "cache" => seen' # None
    BY <1>5 DEF Boot, None
  <2> QED BY <2>1, <2>2 DEF ReleaseInv, Hears
<1>6. ASSUME NEW k \in Press \cup {None}, KeyChange(k), link' = link, term' = term
      PROVE  /\ link' # "conn" => host' = {}
             /\ ManualRelease /\ link = "conn" /\ ~term => "kb" \notin host'
             /\ type' = "kb" /\ "kb" \in host' /\ link = "conn" /\ ~term => k = "kb" \/ (type = "kb" /\ "kb" \in host /\ k # None)
  <2>1. host' = (IF ~Hears THEN host ELSE IF ManualRelease THEN Reported(k) \ {"kb"} ELSE Reported(k))
        /\ type' = (IF k \in {"kb", "media"} THEN k ELSE type)
    BY <1>6 DEF KeyChange
  <2>2. link # "conn" => host' = {}
    BY <1>0, <2>1 DEF Hears
  <2>3. ManualRelease /\ link = "conn" /\ ~term => "kb" \notin host'
    BY <2>1 DEF Hears
  <2>4. link = "conn" /\ ~term => host' \subseteq Reported(k)
    BY <2>1 DEF Hears
  <2>5. ASSUME type' = "kb", "kb" \in host', link = "conn", ~term, k # "kb"
        PROVE  type = "kb" /\ "kb" \in host /\ k # None
    <3>1. type = "kb" /\ k # "media" /\ "kb" \in Reported(k)
      BY <2>1, <2>4, <2>5
    <3> QED BY <2>5, <3>1 DEF Reported
  <2> QED BY <1>6, <2>2, <2>3, <2>5
<1>7. CASE KeyScanned
  <2>1. /\ KeyChange(pads) /\ seen' = pads /\ link' = link /\ term' = term
        /\ notReleased' = (pads # None /\ ~ManualRelease)
        /\ pads \in Press \cup {None} /\ "kb" # None
    BY <1>7 DEF KeyScanned, KeyChange, RemoteInv, SleepInv, TypeOK, None
  <2>2. link' # "conn" => host' = {}
    BY <1>6, <2>1
  <2>3. link = "conn" /\ ~term /\ type' = "kb" /\ "kb" \in host' => seen' # None
    BY <1>6, <2>1
  <2>4. notReleased' => seen' # None
    BY <2>1
  <2> QED BY <2>1, <2>2, <2>3, <2>4 DEF ReleaseInv, Hears
<1>8. CASE KeyReplayed
  <2>1. /\ KeyChange(cache) /\ seen' = seen /\ link' = link /\ term' = term /\ deepback = "cache"
        /\ deepback' = (IF notReleased \/ cache = "voice" THEN "idle" ELSE "wait")
        /\ cache \in Press \cup {None}
    BY <1>8 DEF KeyReplayed, Unchanged, Replays, RemoteInv, SleepInv, TypeOK
  <2>2. link' # "conn" => host' = {}
    BY <1>6, <2>1
  <2>3. ASSUME link = "conn", ~term, type' = "kb", "kb" \in host' PROVE seen' # None \/ deepback' = "wait"
    <3>1. CASE cache = "kb"
      <4>1. cache # "voice"
        BY <3>1
      <4> QED BY <1>0, <2>1, <4>1
    <3>2. CASE cache # "kb"
      <4>1. type = "kb" /\ "kb" \in host
        BY <1>6, <2>1, <2>3, <3>2
      <4> QED BY <1>0, <2>1, <2>3, <4>1
    <3> QED BY <3>1, <3>2
  <2> QED BY <2>1, <2>2, <2>3 DEF ReleaseInv, Hears
<1>9. CASE KeyQuiet
  <2>1. /\ UNCHANGED <<link, term, seen, type>>
        /\ host' = (IF ManualRelease /\ Hears THEN host \ {"kb"} ELSE host)
        /\ deepback' = (IF ManualRelease THEN "idle" ELSE deepback)
    BY <1>9 DEF KeyQuiet, Unchanged
  <2>2. notReleased' => notReleased
    BY <1>9 DEF KeyQuiet
  <2>3. deepback' = "cache" => deepback = "cache"
    BY <2>1
  <2>4. host' \subseteq host
    BY <2>1
  <2>5. ASSUME link = "conn", ~term, type = "kb", "kb" \in host' PROVE seen # None \/ deepback' = "wait"
    <3>1. ~ManualRelease
      BY <2>1, <2>5 DEF Hears
    <3> QED BY <1>0, <2>1, <2>4, <2>5, <3>1
  <2> QED BY <1>0, <2>1, <2>2, <2>3, <2>4, <2>5 DEF ReleaseInv, Hears
<1> QED BY <1>1, <1>2, <1>3, <1>4, <1>5, <1>7, <1>8, <1>9 DEF Next

LEMMA TaskStep == ASSUME RemoteInv, Next PROVE TaskInv'
<1>0. /\ voice => seen = "voice" \/ tapped
      /\ at \in {"deep", "boot"} => deepback = "idle"
      /\ at \in {"sdk", "woken", "pm", "deep", "boot"}
  BY DEF RemoteInv, SleepInv, TypeOK, TaskInv
<1>1. CASE \/ Pads \/ LedDone \/ (\E w \in Waits : Elapse(w))
           \/ KeyTooSoon \/ PmMic \/ PmNothing \/ PmStay \/ PmLeave \/ WakeUp
  <2>1. /\ UNCHANGED <<voice, seen, tapped, deepback>>
        /\ \/ at' = at
           \/ at' \in {"sdk", "pm"}
           \/ at = "deep"
    BY <1>1 DEF Pads, LedDone, Elapse, KeyTooSoon, PmMic, PmNothing, PmStay, PmLeave,
                WakeUp, radioVars, keyVars
  <2> QED BY <1>0, <2>1 DEF TaskInv
<1>2. CASE Connected \/ Terminated \/ EntryOtaMode
  <2>1. at' = at /\ UNCHANGED <<voice, seen, tapped, deepback>>
    BY <1>2 DEF Connected, Terminated, EntryOtaMode, radioVars, keyVars
  <2> QED BY <1>0, <2>1 DEF TaskInv
<1>3. CASE OtaEnd \/ PmTerminated \/ PmAdvIdle
  <2>1. FreshRam /\ NoPower
    BY <1>3 DEF OtaEnd, PmTerminated, PmAdvIdle, Sleep, NoPower
  <2> QED BY <2>1, FreshFacts, PowerFacts DEF TaskInv
<1>4. CASE Boot
  <2>1. ~voice' /\ at' = "sdk"
    BY <1>4, FreshFacts DEF Boot
  <2> QED BY <2>1 DEF TaskInv
<1>5. CASE KeyScanned \/ KeyReplayed \/ KeyQuiet
  <2>1. at' \in {"woken", "pm"}
    BY <1>5, KeyboardFrame
  <2>2. voice' => seen' = "voice" \/ tapped'
    <3>1. CASE KeyScanned
      BY <3>1 DEF KeyScanned, KeyChange
    <3>2. CASE KeyReplayed
      BY <3>2 DEF KeyReplayed, Unchanged, KeyChange
    <3>3. CASE KeyQuiet
      BY <1>0, <3>3 DEF KeyQuiet, Unchanged
    <3> QED BY <1>5, <3>1, <3>2, <3>3
  <2> QED BY <1>0, <2>1, <2>2 DEF TaskInv
<1> QED BY <1>1, <1>2, <1>3, <1>4, <1>5 DEF Next

-----------------------------------------------------------------------------
LEMMA RemoteInit == Init => RemoteInv
<1> SUFFICES ASSUME Init PROVE RemoteInv
  OBVIOUS
<1>1. /\ term \in BOOLEAN /\ adv \in BOOLEAN /\ ana \in BOOLEAN /\ need \in BOOLEAN
      /\ notReleased \in BOOLEAN /\ voice \in BOOLEAN /\ mic \in BOOLEAN /\ ota \in BOOLEAN
      /\ led \in BOOLEAN /\ tapped \in BOOLEAN
  BY DEF Init
<1>2. TypeOK
  BY <1>1 DEF Init, TypeOK
<1>3. LeavingEnds
  BY DEF Init, LeavingEnds
<1>4. ReleaseInv /\ TaskInv
  BY DEF Init, ReleaseInv, TaskInv
<1> QED BY <1>2, <1>3, <1>4 DEF RemoteInv, SleepInv

LEMMA RemoteKept == Spec => []RemoteInv
<1>1. ASSUME RemoteInv, [Next]_vars PROVE RemoteInv'
  <2>1. CASE Next
    BY <1>1, <2>1, TypeStep, SleepStep, ReleaseStep, TaskStep DEF RemoteInv, SleepInv
  <2>2. CASE UNCHANGED vars
    BY <1>1, <2>2 DEF RemoteInv, SleepInv, TypeOK, LeavingEnds, Awake, ReleaseInv, TaskInv, Hears,
                      vars, radioVars, keyVars
  <2> QED BY <1>1, <2>1, <2>2
<1> QED BY <1>1, RemoteInit, PTL DEF Spec

(* A remote that waits for its terminate packet has the link it wants to   *)
(* end, one that was told of the end has none, and one that is not leaving *)
(* is on the air (blt_pm_proc, ble_remote_terminate).                      *)
THEOREM LeavingComesToAnEnd == Spec => []SleepInv
<1>1. RemoteInv => SleepInv
  BY DEF RemoteInv
<1> QED BY <1>1, RemoteKept, PTL

(* When no key is down the central does not see the keyboard key still     *)
(* pressed that was sent last (key_change_proc, deep_wakeup_proc).         *)
THEOREM NoKeyStaysDown == Spec => []KeyboardReleased
<1>1. RemoteInv => KeyboardReleased
  BY DEF RemoteInv, ReleaseInv, KeyboardReleased
<1> QED BY <1>1, RemoteKept, PTL

(* The microphone is turned on by a VOICE that is pressed or was replayed, *)
(* and the chip goes to deep sleep with no link and no microphone: an      *)
(* update is slept over only when its link is gone (proc_keyboard,         *)
(* blt_pm_proc, ble_remote_terminate).                                     *)
THEOREM StreamsAndSleepsRight == Spec => StreamsAndSleeps
<1>1. ASSUME RemoteInv, [Next]_vars PROVE [mic' /\ ~mic => seen = "voice" \/ tapped]_vars
  <2>1. SUFFICES ASSUME Next, mic', ~mic PROVE seen = "voice" \/ tapped
    BY <1>1
  <2>2. CASE KeyQuiet
    <3>1. voice
      BY <2>1, <2>2 DEF KeyQuiet, LongPress
    <3> QED BY <1>1, <3>1 DEF RemoteInv, TaskInv
  <2>3. CASE KeyScanned \/ KeyReplayed
    BY <2>1, <2>3 DEF KeyScanned, KeyReplayed, KeyChange
  <2>4. CASE OtaEnd \/ PmTerminated \/ PmAdvIdle \/ Boot
    BY <2>1, <2>4, FreshFacts DEF OtaEnd, PmTerminated, PmAdvIdle, Sleep, NoPower, Boot
  <2>5. CASE Connected \/ Terminated
    BY <2>1, <2>5 DEF Connected, Terminated
  <2>6. CASE \/ Pads \/ LedDone \/ EntryOtaMode \/ (\E w \in Waits : Elapse(w))
             \/ KeyTooSoon \/ PmMic \/ PmNothing \/ PmStay \/ PmLeave \/ WakeUp
    BY <2>1, <2>6 DEF Pads, LedDone, EntryOtaMode, Elapse, KeyTooSoon, PmMic, PmNothing, PmStay,
                      PmLeave, WakeUp
  <2> QED BY <2>1, <2>2, <2>3, <2>4, <2>5, <2>6 DEF Next
<1>2. ASSUME RemoteInv, [Next]_vars
      PROVE  [at' = "deep" /\ at # "deep" => link # "conn" /\ ~mic]_vars
  <2>1. SUFFICES ASSUME Next, at' = "deep", at # "deep" PROVE link # "conn" /\ ~mic
    BY <1>2
  <2>2. CASE PmTerminated \/ PmAdvIdle
    <3>1. ~mic /\ (leaving = 2 \/ link = "adv")
      BY <2>2 DEF PmTerminated, PmAdvIdle, AdvIdle
    <3>2. link # "conn"
      BY <1>2, <3>1 DEF RemoteInv, SleepInv, LeavingEnds
    <3> QED BY <3>1, <3>2
  <2>3. CASE KeyTooSoon \/ KeyScanned \/ KeyReplayed \/ KeyQuiet
    BY <2>1, <2>3, KeyboardFrame
  <2>4. CASE \/ Pads \/ Connected \/ Terminated \/ LedDone \/ EntryOtaMode \/ (\E w \in Waits : Elapse(w))
    BY <2>1, <2>4 DEF Pads, Connected, Terminated, LedDone, EntryOtaMode, Elapse
  <2>5. CASE OtaEnd \/ PmMic \/ PmNothing \/ PmStay \/ PmLeave \/ WakeUp \/ Boot
    BY <2>1, <2>5 DEF OtaEnd, PmMic, PmNothing, PmStay, PmLeave, WakeUp, Boot
  <2> QED BY <2>1, <2>2, <2>3, <2>4, <2>5 DEF Next
<1> QED BY <1>1, <1>2, RemoteKept, PTL DEF Spec, StreamsAndSleeps, StreamsOnLongPress, SleepsAlone

(* A key that woke the remote stays cached until a central is connected,   *)
(* and is then what that central sees pressed (proc_keyboard).             *)
THEOREM CachedKeyReachesCentral == Spec => CachedKeySent
<1> DEFINE A == deepback = "cache" /\ deepback' # "cache" /\ at' \notin {"deep", "boot"}
                  => link = "conn" /\ (Hears /\ cache \in {"kb", "media"} => cache \in host')
<1>1. ASSUME RemoteInv, [Next]_vars PROVE [A]_vars
  <2>1. SUFFICES ASSUME Next, deepback = "cache", deepback' # "cache", at' \notin {"deep", "boot"}
                 PROVE  link = "conn" /\ (Hears /\ cache \in {"kb", "media"} => cache \in host')
    BY <1>1
  <2>2. ~ManualRelease
    BY <2>1 DEF ManualRelease
  <2>3. CASE KeyReplayed
    <3>1. link = "conn" /\ KeyChange(cache)
      BY <2>3 DEF KeyReplayed, Replays
    <3>2. Hears => host' = Reported(cache)
      BY <2>2, <3>1 DEF KeyChange
    <3> QED BY <3>1, <3>2 DEF Reported
  <2>4. CASE KeyScanned \/ KeyQuiet
    BY <2>1, <2>2, <2>4 DEF KeyScanned, KeyQuiet
  <2>5. CASE OtaEnd \/ PmTerminated \/ PmAdvIdle
    BY <2>1, <2>5 DEF OtaEnd, PmTerminated, PmAdvIdle, Sleep
  <2>6. CASE Boot
    <3>1. at = "boot"
      BY <2>6 DEF Boot
    <3> QED BY <1>1, <2>1, <3>1 DEF RemoteInv, TaskInv
  <2>7. CASE \/ Pads \/ Connected \/ Terminated \/ LedDone \/ EntryOtaMode \/ (\E w \in Waits : Elapse(w))
             \/ KeyTooSoon \/ PmMic \/ PmNothing \/ PmStay \/ PmLeave \/ WakeUp
    BY <2>1, <2>7 DEF Pads, Connected, Terminated, LedDone, EntryOtaMode, Elapse, KeyTooSoon, PmMic,
                      PmNothing, PmStay, PmLeave, WakeUp, keyVars
  <2> QED BY <2>1, <2>3, <2>4, <2>5, <2>6, <2>7 DEF Next
<1> QED BY <1>1, RemoteKept, PTL DEF Spec, CachedKeySent
==============================================================================
