--------------------------- MODULE OtaBootProofs -----------------------------
(* Proofs about OtaBoot for sectors, images and download areas of any size *)
(* and any number of power failures and bad pages.                         *)
EXTENDS OtaBoot, TLAPS

(* The images that pass main's test, and where the OTA flag is set.        *)
Bounded == pc \in {"rest", "first", "flag", "erase"} => size <= MaxSize
Flagged == /\ pc \in {"check", "rest", "first", "flag"} => flag = "set"
           /\ pc \in {"erase", "app"} => flag # "set"

(* What the copy has done: all sectors but the first up to i, then the     *)
(* first, and behind the flag everything.                                  *)
NewIn(set) == \A p \in Page : p \in set /\ p < size => app[p] = "new"
Copied ==
  /\ pc = "rest" => i >= Sec /\ NewIn(Sec .. (i - 1))
  /\ pc = "first" => i \in 0 .. Sec /\ NewIn(Sec .. MaxSize) /\ NewIn(0 .. (i - 1))
  /\ pc = "flag" \/ flag # "set" => NewIn(Page)

(* The first sector starts: it is all of one firmware.                     *)
FirstWhole == \/ \A p \in Page : p < Sec => app[p] = "old"
              \/ \A p \in Page : p < Sec /\ p < size => app[p] = "new"
FirstKept == ~firstCut /\ pc \in {"off", "check", "rest"} => FirstWhole

(* The erase loop is at the start of a sector, with blank pages behind it. *)
Erasing == pc = "erase" => i \in Nat /\ i % Sec = 0
Erased ==
  ~eraseCut => /\ pc = "erase" => \A p \in Page : p >= i + Sec => new[p] = "blank"
               /\ flag # "set" /\ pc # "erase" => \A p \in Page : new[p] = "blank"

IInv == /\ TypeOK /\ DownloadKept /\ StartsUnlessFirstCut
        /\ Bounded /\ Flagged /\ Copied /\ FirstKept /\ Erasing /\ Erased

-----------------------------------------------------------------------------
(* Sectors.                                                                *)
LEMMA DivMod ==
  ASSUME NEW p \in Nat
  PROVE  p \div Sec \in Nat /\ p = Sec * (p \div Sec) + (p % Sec) /\ p % Sec \in 0 .. (Sec - 1)
BY SizeAssumption

LEMMA DivModUnique ==
  ASSUME NEW p \in Nat, NEW r \in 0 .. (Sec - 1), NEW k \in Nat, p = Sec * k + r
  PROVE  p \div Sec = k /\ p % Sec = r
BY SizeAssumption

LEMMA StartFacts ==
  ASSUME NEW p \in Nat
  PROVE  /\ Start(p) \in Nat /\ Start(p) <= p /\ p < Start(p) + Sec
         /\ Start(p) % Sec = 0
         /\ p >= Sec => Start(p) >= Sec
<1>1. p \div Sec \in Nat /\ p = Sec * (p \div Sec) + (p % Sec) /\ p % Sec \in 0 .. (Sec - 1)
  BY DivMod
<1>2. Sec * (p \div Sec) \in Nat BY <1>1, SizeAssumption
<1>3. Start(p) % Sec = 0
  <2>1. Start(p) = Sec * (p \div Sec) + 0 BY <1>2 DEF Start
  <2>2. Start(p) \in Nat /\ 0 \in 0 .. (Sec - 1) BY <1>2, <2>1, SizeAssumption
  <2> QED BY <1>1, <2>1, <2>2, DivModUnique
<1>4. ASSUME p >= Sec PROVE Start(p) >= Sec
  <2>1. p \div Sec # 0 BY <1>1, <1>4, SizeAssumption
  <2>2. Sec * (p \div Sec) >= Sec BY <1>1, <2>1, SizeAssumption
  <2> QED BY <2>2 DEF Start
<1> QED BY <1>1, <1>2, <1>3, <1>4, SizeAssumption DEF Start

(* A sector holds the pages from its start up to the next.                 *)
LEMMA SectorFacts ==
  ASSUME NEW p \in Nat, p % Sec = 0, NEW q \in Nat
  PROVE  q \div Sec = p \div Sec <=> p <= q /\ q < p + Sec
<1>1. p \div Sec \in Nat /\ p = Sec * (p \div Sec) BY DivMod, SizeAssumption
<1>2. q \div Sec \in Nat /\ q = Sec * (q \div Sec) + (q % Sec) /\ q % Sec \in 0 .. (Sec - 1)
  BY DivMod
<1>3. ASSUME q \div Sec = p \div Sec PROVE p <= q /\ q < p + Sec
  BY <1>1, <1>2, <1>3, SizeAssumption
<1>4. ASSUME p <= q, q < p + Sec PROVE q \div Sec = p \div Sec
  <2>1. q - p \in 0 .. (Sec - 1) /\ q = Sec * (p \div Sec) + (q - p)
    BY <1>1, <1>4, SizeAssumption
  <2> QED BY <1>1, <2>1, DivModUnique
<1> QED BY <1>3, <1>4

(* The sector before a sector that is not the first.                       *)
LEMMA SectorBefore ==
  ASSUME NEW p \in Nat, p % Sec = 0
  PROVE  /\ p < Sec => p = 0
         /\ p >= Sec => (p - Sec) % Sec = 0
<1>1. p \div Sec \in Nat /\ p = Sec * (p \div Sec) BY DivMod, SizeAssumption
<1>2. ASSUME p < Sec PROVE p = 0 BY <1>1, <1>2, SizeAssumption
<1>3. ASSUME p >= Sec PROVE (p - Sec) % Sec = 0
  <2>1. p - Sec \in Nat /\ 0 \in 0 .. (Sec - 1) BY <1>3, SizeAssumption
  <2>2. p \div Sec # 0 BY <1>1, <1>3, SizeAssumption
  <2>3. p - Sec = Sec * ((p \div Sec) - 1) + 0 BY <1>1, SizeAssumption
  <2> QED BY <1>1, <2>1, <2>2, <2>3, DivModUnique
<1> QED BY <1>2, <1>3

LEMMA FirstSectorFits == Sec \in Nat \ {0} /\ MaxSize \in Nat /\ Sec <= MaxSize
<1>1. MaxSize = Sec * (MaxSize \div Sec) /\ MaxSize \div Sec \in Nat BY DivMod, SizeAssumption
<1>2. MaxSize \div Sec # 0 BY <1>1, SizeAssumption
<1> QED BY <1>1, <1>2, SizeAssumption

LEMMA FilledFacts ==
  ASSUME NEW f \in [Page -> Data], NEW set, NEW x \in Data
  PROVE  /\ Filled(f, set, x) \in [Page -> Data]
         /\ \A p \in Page : Filled(f, set, x)[p] = IF p \in set THEN x ELSE f[p]
BY DEF Filled

LEMMA DownloadFacts ==
  ASSUME NEW n \in Nat
  PROVE  /\ Download(n) \in [Page -> Data]
         /\ \A p \in Page : Download(n)[p] = IF p < n THEN "new" ELSE "blank"
BY DEF Download, Data
-----------------------------------------------------------------------------
LEMMA InitInv == Init => IInv
<1> SUFFICES ASSUME Init PROVE IInv OBVIOUS
<1>1. size \in Sizes /\ size \in Nat BY SizeAssumption DEF Init
<1>2. TypeOK
  <2>1. new \in [Page -> Data] BY <1>1, DownloadFacts DEF Init
  <2>2. app \in [Page -> Data] BY DEF Init, Data
  <2>3. i \in (-Sec) .. MaxSize /\ cuts \in 0 .. MaxCuts /\ faults \in 0 .. MaxFaults
    BY SizeAssumption DEF Init
  <2> QED BY <1>1, <2>1, <2>2, <2>3 DEF Init, TypeOK
<1> QED BY <1>2 DEF Init, IInv, DownloadKept, StartsUnlessFirstCut, Bounded, Flagged, Copied,
           FirstKept, FirstWhole, Erasing, Erased

(* A first sector that is all of one firmware starts.                      *)
LEMMA FirstStarts == ASSUME TypeOK, FirstWhole PROVE Startup
BY FirstSectorFits, SizeAssumption DEF FirstWhole, Startup, Page

LEMMA NewIsFirstWhole == ASSUME NewIn(Page) PROVE FirstWhole
BY DEF NewIn, FirstWhole

LEMMA ResetInv == ASSUME IInv, Reset PROVE IInv'
<1>1. TypeOK /\ DownloadKept /\ Flagged /\ Copied /\ FirstKept /\ Erased BY DEF IInv
<1>2. TypeOK' BY <1>1 DEF Reset, TypeOK, bounds, history
<1>3. StartsUnlessFirstCut'
  <2>1. ASSUME ~firstCut PROVE Startup
    <3>1. FirstWhole BY <2>1 , <1>1 DEF Reset, FirstKept
    <3> QED BY <1>1, <3>1, FirstStarts
  <2> QED BY <2>1 DEF Reset, StartsUnlessFirstCut, history
<1>4. DownloadKept' BY <1>1 DEF Reset, DownloadKept, Download
<1>5. Copied' BY <1>1 DEF Reset, Copied, NewIn
<1>6. FirstKept' BY <1>1 DEF Reset, FirstKept, FirstWhole, history
<1>7. Erased' BY <1>1 DEF Reset, Erased, history
<1> QED BY <1>2, <1>3, <1>4, <1>5, <1>6, <1>7 DEF Reset, IInv, Bounded, Flagged, Erasing

LEMMA CheckInv == ASSUME IInv, Check PROVE IInv'
<1>1. TypeOK /\ DownloadKept /\ Flagged /\ Copied /\ FirstKept /\ Erased BY DEF IInv
<1>2. pc' \in {"trap", "rest"} /\ (pc' = "rest" => size <= MaxSize /\ i' = Sec)
  BY <1>1, SizeAssumption DEF Check, TypeOK
<1>3. TypeOK'
  <2>1. i' \in (-Sec) .. MaxSize BY <1>1, FirstSectorFits DEF Check, TypeOK
  <2> QED BY <1>1, <1>2, <2>1 DEF Check, TypeOK, bounds, history
<1>4. DownloadKept' /\ StartsUnlessFirstCut'
  BY <1>1, <1>2 DEF Check, DownloadKept, Download, StartsUnlessFirstCut
<1>5. Copied'
  BY <1>1, <1>2, FirstSectorFits DEF Check, Copied, NewIn, Flagged
<1>6. FirstKept' BY <1>1, <1>2 DEF Check, FirstKept, FirstWhole, history
<1>7. Erased' BY <1>1, <1>2 DEF Check, Erased, history, Flagged
<1> QED BY <1>1, <1>2, <1>3, <1>4, <1>5, <1>6, <1>7
        DEF Check, IInv, Bounded, Flagged, Erasing

(* While the copy runs its page is one of the image or of the first        *)
(* sector, and in the first loop behind the first sector.                  *)
LEMMA CopyingFacts ==
  ASSUME IInv, Copying
  PROVE  /\ i \in Page /\ i \in Nat /\ size \in Nat /\ size <= MaxSize
         /\ flag = "set"
         /\ pc = "rest" => i >= Sec /\ i < size
         /\ pc = "first" => i < Sec
         /\ new[i] = IF i < size THEN "new" ELSE "blank"
<1>1. TypeOK /\ DownloadKept /\ Bounded /\ Flagged /\ Copied BY DEF IInv
<1>2. size \in Nat /\ size <= MaxSize /\ flag = "set"
  BY <1>1, SizeAssumption DEF Copying, TypeOK, Bounded, Flagged
<1>3. i \in Page
  BY <1>1, <1>2, FirstSectorFits DEF Copying, Limit, Copied, Page, TypeOK
<1>4. new = Download(size) BY <1>1, <1>2 DEF DownloadKept
<1> QED BY <1>1, <1>2, <1>3, <1>4, DownloadFacts DEF Copying, Limit, Copied, Page

LEMMA EraseSectorInv == ASSUME IInv, EraseSector PROVE IInv'
<1>1. TypeOK /\ DownloadKept /\ Bounded /\ Flagged /\ Copied /\ FirstKept /\ Erased /\ Erasing
  BY DEF IInv
<1>2. /\ i \in Page /\ i \in Nat /\ size \in Nat /\ size <= MaxSize /\ flag = "set"
      /\ pc = "rest" => i >= Sec /\ i < size
      /\ pc = "first" => i < Sec
  BY CopyingFacts DEF EraseSector
<1>3. \A p \in Page : app'[p] = IF i <= p /\ p < i + Sec THEN "blank" ELSE app[p]
  <2>1. app' = Filled(app, SectorOf(i), "blank") BY DEF EraseSector
  <2>2. \A p \in Page : p \in SectorOf(i) <=> i <= p /\ p < i + Sec
    <3>1. i % Sec = 0 BY DEF EraseSector
    <3>2. \A p \in Page : p \in Nat BY DEF Page
    <3>3. \A p \in Page : p \div Sec = i \div Sec <=> i <= p /\ p < i + Sec
      BY <1>2, <3>1, <3>2, SectorFacts
    <3> QED BY <3>3 DEF SectorOf
  <2> QED BY <1>1, <2>1, <2>2, FilledFacts DEF TypeOK, Data
<1>4. pc' = pc /\ i' = i /\ size' = size /\ flag' = flag /\ new' = new
  BY DEF EraseSector
<1>5. TypeOK'
  <2>1. app' \in [Page -> Data] BY <1>1, FilledFacts DEF EraseSector, TypeOK, Data
  <2> QED BY <1>1, <2>1 DEF EraseSector, TypeOK, bounds, history
<1>6. Copied'
  <2>1. pc = "rest" => i >= Sec /\ NewIn(Sec .. (i - 1))'
    BY <1>1, <1>2, <1>3, <1>4, SizeAssumption DEF Copied, NewIn, Page
  <2>2. pc = "first" => i = 0
    BY <1>2, SectorBefore DEF EraseSector
  <2>3. pc = "first" => i \in 0 .. Sec /\ NewIn(Sec .. MaxSize)' /\ NewIn(0 .. (i - 1))'
    BY <1>1, <1>2, <1>3, <1>4, <2>2, SizeAssumption DEF Copied, NewIn, Page
  <2> QED BY <1>2, <1>4, <2>1, <2>3 DEF Copied, EraseSector, Copying
<1>7. FirstKept'
  <2>1. pc = "rest" => \A p \in Page : p < Sec => app'[p] = app[p]
    BY <1>2, <1>3, SizeAssumption DEF Page
  <2> QED BY <1>1, <1>4, <2>1 DEF FirstKept, FirstWhole, EraseSector, Copying, history
<1> QED BY <1>1, <1>2, <1>4, <1>5, <1>6, <1>7
        DEF EraseSector, Copying, IInv, DownloadKept, Download, StartsUnlessFirstCut, Bounded,
            Flagged, Erasing, Erased, history

LEMMA WritePageInv == ASSUME IInv, WritePage PROVE IInv'
<1>1. TypeOK /\ DownloadKept /\ Bounded /\ Flagged /\ Copied /\ FirstKept /\ Erased /\ Erasing
  BY DEF IInv
<1>2. /\ i \in Page /\ i \in Nat /\ size \in Nat /\ size <= MaxSize /\ flag = "set"
      /\ pc = "rest" => i >= Sec /\ i < size
      /\ pc = "first" => i < Sec
      /\ new[i] = IF i < size THEN "new" ELSE "blank"
  BY CopyingFacts DEF WritePage
<1>3. PICK x \in Data : app' = [app EXCEPT ![i] = x] /\ ((i' = i + 1 /\ x = new[i]) \/ i' = Retry)
  <2>1. Over(new[i], app[i]) \in Data BY <1>1, <1>2 DEF TypeOK, Over, Data
  <2>2. app[i] \in Data /\ "junk" \in Data BY <1>1, <1>2 DEF TypeOK, Data
  <2> QED BY <1>1, <1>2, <2>1, <2>2 DEF WritePage, TypeOK
<1>4. pc' = pc /\ size' = size /\ flag' = flag /\ new' = new /\ erased' = FALSE
  BY DEF WritePage
<1>5. \A p \in Page : p # i => app'[p] = app[p]
  BY <1>1, <1>3 DEF TypeOK
<1>6. app'[i] = x BY <1>1, <1>2, <1>3 DEF TypeOK
<1>7. Retry \in Nat /\ Retry <= i /\ (i >= Sec => Retry >= Sec)
  BY <1>2, StartFacts DEF Retry
<1>8. TypeOK'
  <2>1. app' \in [Page -> Data] BY <1>1, <1>3 DEF TypeOK
  <2>2. i' \in (-Sec) .. MaxSize
    BY <1>2, <1>3, <1>7, SizeAssumption DEF Page
  <2>3. faults' \in 0 .. MaxFaults /\ cuts' = cuts
    BY <1>1, SizeAssumption DEF WritePage, TypeOK
  <2> QED BY <1>1, <1>4, <2>1, <2>2, <2>3 DEF WritePage, TypeOK, history
<1>9. Copied'
  <2>1. ASSUME pc = "rest" PROVE i' >= Sec /\ NewIn(Sec .. (i - 1))'
    <3>1. i' >= Sec BY <1>2, <1>3, <1>7, <2>1, SizeAssumption
    <3>2. ASSUME NEW p \in Page, p \in Sec .. (i' - 1), p < size PROVE app'[p] = "new"
      <4>1. CASE p = i BY <1>2, <1>3, <1>6, <1>7, <2>1, <3>2, <4>1, SizeAssumption
      <4>2. CASE p # i
        <5>1. p \in Sec .. (i - 1)
          BY <1>2, <1>3, <1>7, <3>2, <4>2, SizeAssumption DEF Page
        <5> QED BY <1>1, <1>5, <2>1, <3>2, <4>2, <5>1 DEF Copied, NewIn
      <4> QED BY <4>1, <4>2
    <3> QED BY <1>4, <3>1, <3>2 DEF NewIn
  <2>2. ASSUME pc = "first"
        PROVE i' \in 0 .. Sec /\ NewIn(Sec .. MaxSize)' /\ NewIn(0 .. (i - 1))'
    <3>1. i' \in 0 .. Sec BY <1>2, <1>3, <1>7, <2>2, SizeAssumption
    <3>2. ASSUME NEW p \in Page, p \in Sec .. MaxSize, p < size PROVE app'[p] = "new"
      <4>1. p # i BY <1>2, <2>2, <3>2, SizeAssumption
      <4> QED BY <1>1, <1>5, <2>2, <3>2, <4>1 DEF Copied, NewIn
    <3>3. ASSUME NEW p \in Page, p \in 0 .. (i' - 1), p < size PROVE app'[p] = "new"
      <4>1. CASE p = i BY <1>2, <1>3, <1>6, <1>7, <3>3, <4>1
      <4>2. CASE p # i
        <5>1. p \in 0 .. (i - 1) BY <1>2, <1>3, <1>7, <3>3, <4>2 DEF Page
        <5> QED BY <1>1, <1>5, <2>2, <3>3, <4>2, <5>1 DEF Copied, NewIn
      <4> QED BY <4>1, <4>2
    <3> QED BY <1>4, <3>1, <3>2, <3>3 DEF NewIn
  <2> QED BY <1>2, <1>4, <2>1, <2>2 DEF Copied, WritePage, Copying
<1>10. FirstKept'
  <2>1. pc = "rest" => \A p \in Page : p < Sec => app'[p] = app[p]
    BY <1>2, <1>5, SizeAssumption DEF Page
  <2> QED BY <1>1, <1>4, <2>1 DEF FirstKept, FirstWhole, WritePage, Copying, history
<1> QED BY <1>1, <1>2, <1>4, <1>8, <1>9, <1>10
        DEF WritePage, Copying, IInv, DownloadKept, Download, StartsUnlessFirstCut, Bounded,
            Flagged, Erasing, Erased, history

LEMMA RestDoneInv == ASSUME IInv, RestDone PROVE IInv'
<1>1. TypeOK /\ DownloadKept /\ Bounded /\ Flagged /\ Copied BY DEF IInv
<1>2. size \in Nat /\ size <= MaxSize /\ i \in Int /\ i >= size /\ i >= Sec
  BY <1>1, SizeAssumption DEF RestDone, TypeOK, Bounded, Copied
<1>3. TypeOK' BY <1>1, SizeAssumption DEF RestDone, TypeOK, bounds, history
<1>4. Copied'
  <2>1. NewIn(Sec .. MaxSize)'
    BY <1>1, <1>2, SizeAssumption DEF RestDone, Copied, NewIn, Page
  <2>2. NewIn(0 .. (i - 1))' BY SizeAssumption DEF RestDone, NewIn, Page
  <2> QED BY <1>1, <2>1, <2>2, SizeAssumption DEF RestDone, Copied, Flagged
<1> QED BY <1>1, <1>3, <1>4 DEF RestDone, IInv, DownloadKept, Download, StartsUnlessFirstCut,
           Bounded, Flagged, FirstKept, Erasing, Erased, history

LEMMA FirstDoneInv == ASSUME IInv, FirstDone PROVE IInv'
<1>1. TypeOK /\ DownloadKept /\ Bounded /\ Flagged /\ Copied BY DEF IInv
<1>2. i = Sec BY <1>1, SizeAssumption DEF FirstDone, Copied
<1>3. TypeOK' BY <1>1 DEF FirstDone, TypeOK, bounds, history
<1>4. NewIn(Page)
  BY <1>1, <1>2, SizeAssumption DEF FirstDone, Copied, NewIn, Page
<1>5. Copied' BY <1>1, <1>4 DEF FirstDone, Copied, NewIn
<1> QED BY <1>1, <1>3, <1>5 DEF FirstDone, IInv, DownloadKept, Download, StartsUnlessFirstCut,
           Bounded, Flagged, FirstKept, Erasing, Erased, history

LEMMA BehindLast ==
  ASSUME NEW p \in Int, NEW j \in Int, NEW s \in Int, NEW n \in Int, n - 1 < j + s, p >= j + s
  PROVE  ~(p < n)
OBVIOUS

LEMMA ClearFlagInv == ASSUME IInv, ClearFlag PROVE IInv'
<1>1. TypeOK /\ DownloadKept /\ Bounded /\ Flagged /\ Copied BY DEF IInv
<1>2. /\ size \in Nat /\ size - 1 \in Nat /\ size <= MaxSize
      /\ new = Download(size)
  BY <1>1, SizeAssumption DEF ClearFlag, TypeOK, Bounded, Flagged, DownloadKept
<1>3. i' \in Nat /\ i' <= size - 1 /\ size - 1 < i' + Sec /\ i' % Sec = 0
  BY <1>2, StartFacts DEF ClearFlag
<1>4. TypeOK'
  <2>1. i' \in (-Sec) .. MaxSize BY <1>2, <1>3, SizeAssumption
  <2> QED BY <1>1, <2>1 DEF ClearFlag, TypeOK, bounds, history
<1>5. \A p \in Page : p >= i' + Sec => new[p] = "blank"
  <2>1. ASSUME NEW p \in Page, p >= i' + Sec PROVE ~(p < size)
    <3>1. p \in Int /\ i' \in Int /\ Sec \in Int /\ size \in Int
      BY <1>2, <1>3, SizeAssumption DEF Page
    <3>2. size - 1 < i' + Sec BY <1>3
    <3> QED BY <2>1, <3>1, <3>2, BehindLast
  <2> QED BY <1>2, <2>1, DownloadFacts
<1>6. Copied' BY <1>1 DEF ClearFlag, Copied, NewIn
<1>7. Erased' BY <1>5 DEF ClearFlag, Erased, history
<1> QED BY <1>1, <1>3, <1>4, <1>6, <1>7 DEF ClearFlag, IInv, DownloadKept, StartsUnlessFirstCut,
           Bounded, Flagged, FirstKept, Erasing, history

(* What the erase of the sector of i, whole or torn, does to the download. *)
LEMMA ErasedSector ==
  ASSUME IInv, pc = "erase", NEW x \in Data
  PROVE  /\ Filled(new, SectorOf(i), x) \in [Page -> Data]
         /\ \A p \in Page : Filled(new, SectorOf(i), x)[p] =
                              IF i <= p /\ p < i + Sec THEN x ELSE new[p]
<1>1. TypeOK /\ Erasing BY DEF IInv
<1>2. i \in Nat /\ i % Sec = 0 BY <1>1 DEF Erasing
<1>3. \A p \in Page : p \in SectorOf(i) <=> i <= p /\ p < i + Sec
  <2>1. \A p \in Page : p \in Nat BY DEF Page
  <2>2. \A p \in Page : p \div Sec = i \div Sec <=> i <= p /\ p < i + Sec
    BY <1>2, <2>1, SectorFacts
  <2> QED BY <2>2 DEF SectorOf
<1> QED BY <1>1, <1>3, FilledFacts DEF TypeOK

LEMMA EraseNewInv == ASSUME IInv, EraseNew PROVE IInv'
<1>1. TypeOK /\ Bounded /\ Flagged /\ Copied /\ Erasing /\ Erased BY DEF IInv
<1>2. i \in Nat /\ i % Sec = 0 /\ i <= MaxSize /\ Sec \in Nat \ {0}
  BY <1>1, SizeAssumption DEF EraseNew, Erasing, TypeOK
<1>3. /\ new' \in [Page -> Data]
      /\ \A p \in Page : new'[p] = IF i <= p /\ p < i + Sec THEN "blank" ELSE new[p]
  BY ErasedSector DEF EraseNew, Data
<1>4. flag # "set" /\ flag' = flag /\ i' = i - Sec /\ pc' = IF i' < 0 THEN "off" ELSE "erase"
  BY <1>1 DEF EraseNew, Flagged
<1>5. TypeOK'
  <2>1. i' \in (-Sec) .. MaxSize BY <1>2, <1>4, SizeAssumption
  <2> QED BY <1>1, <1>3, <1>4, <2>1 DEF EraseNew, TypeOK, bounds, history
<1>6. Copied' BY <1>1, <1>4 DEF EraseNew, Copied, NewIn
<1>7. NewIn(Page) BY <1>1, <1>4 DEF Copied
<1>8. FirstKept'
  <2>1. FirstWhole BY <1>7, NewIsFirstWhole
  <2> QED BY <2>1 DEF EraseNew, FirstKept, FirstWhole
<1>9. Erasing' BY <1>2, <1>4, SectorBefore DEF Erasing
<1>10. Erased'
  <2>1. ASSUME ~eraseCut, NEW p \in Page, p >= i PROVE new'[p] = "blank"
    BY <1>1, <1>2, <1>3, <2>1 DEF EraseNew, Erased, Page
  <2>2. i' < 0 => i = 0 BY <1>2, <1>4, SectorBefore
  <2>3. i' + Sec = i BY <1>2, <1>4
  <2>4. \A p \in Page : p >= 0 BY DEF Page
  <2> QED BY <1>4, <2>1, <2>2, <2>3, <2>4 DEF EraseNew, Erased, history
<1> QED BY <1>1, <1>4, <1>5, <1>6, <1>8, <1>9, <1>10
        DEF EraseNew, IInv, DownloadKept, StartsUnlessFirstCut, Bounded, Flagged, history

LEMMA PowerCutInv == ASSUME IInv, PowerCut PROVE IInv'
<1>1. TypeOK /\ DownloadKept /\ Bounded /\ Flagged /\ Copied /\ FirstKept /\ Erased /\ Erasing
  BY DEF IInv
<1>2. /\ pc' = "off" /\ i' = 0 /\ size' = size /\ erased' = FALSE /\ faults' = faults
      /\ cuts' \in 0 .. MaxCuts
      /\ firstCut' = (firstCut \/ pc = "first")
      /\ eraseCut' = (eraseCut \/ pc \in {"flag", "erase"})
  BY <1>1, SizeAssumption DEF PowerCut, TypeOK
<1>3. 0 \in (-Sec) .. MaxSize BY SizeAssumption
<1>t. ASSUME app' \in [Page -> Data], new' \in [Page -> Data], flag' \in {"set", "clear", "torn"}
      PROVE  TypeOK'
  BY <1>1, <1>2, <1>3, <1>t DEF TypeOK
<1>4. CASE UNCHANGED <<app, new, flag>>
  <2>1. TypeOK' BY <1>1, <1>4, <1>t DEF TypeOK
  <2>2. Copied' BY <1>1, <1>2, <1>4 DEF Copied, NewIn
  <2>3. FirstKept'
    <3>1. ASSUME ~firstCut, pc # "first" PROVE FirstWhole
      <4>1. CASE pc \in {"off", "check", "rest"} BY <1>1, <3>1, <4>1 DEF FirstKept
      <4>2. CASE pc \notin {"off", "check", "rest"}
        <5>1. NewIn(Page)
          BY <1>1, <3>1, <4>2 DEF PowerCut, TypeOK, Copied, Flagged
        <5> QED BY <5>1, NewIsFirstWhole
      <4> QED BY <4>1, <4>2
    <3> QED BY <1>2, <1>4, <3>1 DEF FirstKept, FirstWhole
  <2>4. Erased' BY <1>1, <1>2, <1>4 DEF Erased
  <2> QED BY <1>1, <1>2, <1>4, <2>1, <2>2, <2>3, <2>4
          DEF IInv, DownloadKept, StartsUnlessFirstCut, Bounded, Flagged, Erasing
<1>5. ASSUME Copying, UNCHANGED <<new, flag>>,
             IF i % Sec = 0 /\ ~erased
               THEN \E x \in {"blank", "junk"} : app' = Filled(app, SectorOf(i), x)
               ELSE \E x \in {new[i], "junk"} : app' = [app EXCEPT ![i] = x]
      PROVE  IInv'
  <2>1. /\ i \in Page /\ i \in Nat /\ size \in Nat /\ size <= MaxSize /\ flag = "set"
        /\ pc = "rest" => i >= Sec /\ i < size
        /\ pc = "first" => i < Sec
    BY <1>5, CopyingFacts
  <2>2. app' \in [Page -> Data] /\ (pc = "rest" => \A p \in Page : p < Sec => app'[p] = app[p])
    <3>1. CASE i % Sec = 0 /\ ~erased
      <4>1. PICK x \in {"blank", "junk"} : app' = Filled(app, SectorOf(i), x) BY <1>5, <3>1
      <4>2. x \in Data BY DEF Data
      <4>3. \A p \in Page : p \in Nat BY DEF Page
      <4>4. \A p \in Page : p \div Sec = i \div Sec <=> i <= p /\ p < i + Sec
        BY <2>1, <3>1, <4>3, SectorFacts
      <4>5. pc = "rest" => \A p \in Page : p < Sec => p \notin SectorOf(i)
        BY <2>1, <4>3, <4>4, SizeAssumption DEF SectorOf
      <4> QED BY <1>1, <4>1, <4>2, <4>5, FilledFacts DEF TypeOK
    <3>2. CASE ~(i % Sec = 0 /\ ~erased)
      <4>1. PICK x \in {new[i], "junk"} : app' = [app EXCEPT ![i] = x] BY <1>5, <3>2
      <4>2. x \in Data BY <1>1, <2>1 DEF TypeOK, Data
      <4>3. pc = "rest" => \A p \in Page : p < Sec => p # i
        BY <2>1, SizeAssumption DEF Page
      <4> QED BY <1>1, <4>1, <4>2, <4>3 DEF TypeOK
    <3> QED BY <3>1, <3>2
  <2>3. TypeOK' BY <1>1, <1>5, <1>t, <2>2 DEF TypeOK
  <2>4. FirstKept'
    BY <1>1, <1>2, <1>5, <2>2 DEF FirstKept, FirstWhole, Copying
  <2> QED BY <1>1, <1>2, <1>5, <2>1, <2>3, <2>4
          DEF IInv, DownloadKept, StartsUnlessFirstCut, Bounded, Flagged, Copied, Erasing, Erased
<1>6. ASSUME pc = "flag", UNCHANGED <<app, new>>, flag' \in {"clear", "torn"} PROVE IInv'
  <2>1. TypeOK' BY <1>1, <1>6, <1>t DEF TypeOK
  <2>2. NewIn(Page) BY <1>1, <1>6 DEF Copied
  <2>3. Copied' BY <1>2, <1>6, <2>2 DEF Copied, NewIn
  <2>4. FirstKept'
    <3>1. FirstWhole BY <2>2, NewIsFirstWhole
    <3> QED BY <1>2, <1>6, <3>1 DEF FirstKept, FirstWhole
  <2> QED BY <1>1, <1>2, <1>6, <2>1, <2>3, <2>4
          DEF IInv, DownloadKept, StartsUnlessFirstCut, Bounded, Flagged, Erasing, Erased
<1>7. ASSUME pc = "erase", UNCHANGED <<app, flag>>,
             \E x \in {"blank", "junk"} : new' = Filled(new, SectorOf(i), x)
      PROVE  IInv'
  <2>1. new' \in [Page -> Data] BY <1>7, ErasedSector DEF Data
  <2>2. TypeOK' BY <1>1, <1>7, <1>t, <2>1 DEF TypeOK
  <2>3. flag # "set" /\ NewIn(Page) BY <1>1, <1>7 DEF Copied, Flagged
  <2>4. Copied' BY <1>2, <1>7, <2>3 DEF Copied, NewIn
  <2>5. FirstKept'
    <3>1. FirstWhole BY <2>3, NewIsFirstWhole
    <3> QED BY <1>2, <1>7, <3>1 DEF FirstKept, FirstWhole
  <2> QED BY <1>1, <1>2, <1>7, <2>2, <2>3, <2>4, <2>5
          DEF IInv, DownloadKept, StartsUnlessFirstCut, Bounded, Flagged, Erasing, Erased
<1> QED BY <1>4, <1>5, <1>6, <1>7 DEF PowerCut

LEMMA NextUpdateInv == ASSUME IInv, NextUpdate PROVE IInv'
<1>1. size' \in Sizes /\ size' \in Nat BY SizeAssumption DEF NextUpdate
<1>2. TypeOK'
  <2>1. new' \in [Page -> Data] BY <1>1, DownloadFacts DEF NextUpdate
  <2>2. app' \in [Page -> Data] BY DEF NextUpdate, Data
  <2>3. i' \in (-Sec) .. MaxSize /\ cuts' \in 0 .. MaxCuts /\ faults' \in 0 .. MaxFaults
    BY SizeAssumption DEF NextUpdate
  <2> QED BY <1>1, <2>1, <2>2, <2>3 DEF NextUpdate, TypeOK
<1> QED BY <1>2 DEF NextUpdate, IInv, DownloadKept, Download, StartsUnlessFirstCut, Bounded,
           Flagged, Copied, FirstKept, FirstWhole, Erasing, Erased

LEMMA StutterInv == ASSUME IInv, UNCHANGED vars PROVE IInv'
BY DEF vars, bounds, history, IInv, TypeOK, DownloadKept, Download, StartsUnlessFirstCut, Bounded,
   Flagged, Copied, NewIn, FirstKept, FirstWhole, Erasing, Erased

LEMMA Inductive == Spec => []IInv
<1>1. ASSUME IInv, [Next]_vars PROVE IInv'
  BY <1>1, ResetInv, CheckInv, EraseSectorInv, WritePageInv, RestDoneInv, FirstDoneInv,
     ClearFlagInv, EraseNewInv, PowerCutInv, NextUpdateInv, StutterInv DEF Next, Boot
<1> QED BY <1>1, InitInv, PTL DEF Spec

-----------------------------------------------------------------------------
(* The variables keep their types: the copy and the erase stay inside the  *)
(* firmware's and the download's area.                                     *)
THEOREM TypeCorrect == Spec => []TypeOK
BY Inductive, PTL DEF IInv

(* A firmware that runs is complete: the flag is cleared behind the last   *)
(* page that was read back, and a firmware runs behind a cleared flag.     *)
THEOREM OnlyWholeFirmware == Spec => []RunsWholeFirmware
<1>1. IInv => RunsWholeFirmware
  BY DEF IInv, Flagged, Copied, NewIn, RunsWholeFirmware
<1> QED BY <1>1, Inductive, PTL

(* As long as the flag asks for the update the download is whole, so that  *)
(* an interrupted update can be resumed.                                   *)
THEOREM DownloadSurvives == Spec => []DownloadKept
BY Inductive, PTL DEF IInv

(* Only a power failure while the first sector is rewritten leaves a chip  *)
(* that does not start: the sector is written last.                        *)
THEOREM StartsAlways == Spec => []StartsUnlessFirstCut
BY Inductive, PTL DEF IInv

(* The next update finds a blank download area unless the power failed at  *)
(* the end of this one.                                                    *)
THEOREM ReadyForNext == Spec => []ErasedForNext
<1>1. IInv => ErasedForNext
  BY DEF IInv, TypeOK, Flagged, Erased, ErasedForNext
<1> QED BY <1>1, Inductive, PTL
=============================================================================
