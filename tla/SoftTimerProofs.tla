-------------------------- MODULE SoftTimerProofs ----------------------------
(***************************************************************************)
(* Proofs about the software timers, for any callbacks, any intervals and  *)
(* a table of any size: each timer keeps the time its callback asked for,  *)
(* the bubble sort puts the one due first first, and none is overlooked    *)
(* until its time has passed.                                              *)
(***************************************************************************)
EXTENDS SoftTimer, SequenceTheorems, TLAPS

-----------------------------------------------------------------------------
(* A callback has one timer, and ends it by what it returns.               *)
Distinct == \A j, k \in DOMAIN table : table[j].cb = table[k].cb => j = k

OwnInv == TypeOK /\ Distinct /\ KeepsOwnTime /\ at # "trap"

-----------------------------------------------------------------------------
(* The ticks until the timer of an entry is due.                           *)
R(p) == rem[table[p].cb]

(* How late the timer at p may be right behind a pass.  A pass that leaves *)
(* a due timer out has deleted one ahead of it, so that the timer is one   *)
(* place further to the front in every pass that it waits.                 *)
Floor(p) == 1 - Turn * (MaxTimers - p)

Waited == \A p \in DOMAIN table : R(p) >= Floor(p) - since

(* In the loop, once a timer was deleted the others have moved; until then *)
(* every due timer has been called.                                        *)
Walked ==
  /\ since = 0
  /\ \/ \A p \in DOMAIN table : R(p) >= Floor(p)
     \/ \A p \in DOMAIN table : R(p) >= IF p < i THEN 1 ELSE Floor(p) - Turn

(* The times in the table are close enough to be told apart.               *)
Soon == \A p \in DOMAIN table : R(p) + Post - Pre <= Wrap \div 4

LateInv == Soon /\ IF at = "loop" THEN Walked ELSE Waited

-----------------------------------------------------------------------------
(* The entries that have moved up to the end are in order and behind all   *)
(* others, and the one at pos is the last so far of this round.            *)
Ordered(from) == \A p, q \in DOMAIN table : p <= q /\ q > from => R(p) <= R(q)

SortInv ==
  /\ at # "sort" => round = 0 /\ pos = 1
  /\ at = "idle" \/ (at = "loop" /\ ~changed) => Ordered(0)
  /\ at = "sort" =>
       /\ round < Len(table) /\ pos <= Len(table) - round
       /\ Ordered(Len(table) - round)
       /\ \A p \in 1 .. pos : R(p) <= R(pos)

TableInv == OwnInv /\ LateInv /\ SortInv

-----------------------------------------------------------------------------
(* Remainders: of a sum, and of a number less than n away from 0.          *)
LEMMA DivMod ==
  ASSUME NEW n \in Nat \ {0}, NEW x \in Int
  PROVE  x % n \in 0 .. n - 1 /\ x \div n \in Int /\ x = n * (x \div n) + (x % n)
OBVIOUS

LEMMA SmallMultiple ==
  ASSUME NEW n \in Nat \ {0}, NEW d \in Int, NEW r \in Int, n * d = r, -n < r, r < n
  PROVE  r = 0
<1>1. CASE d >= 1
  <2>1. n * d >= n BY <1>1
  <2> QED BY <2>1
<1>2. CASE d <= -1
  <2>1. n * d <= -n BY <1>2
  <2> QED BY <2>1
<1>3. CASE d = 0 BY <1>3
<1> QED BY <1>1, <1>2, <1>3

LEMMA Remainder ==
  ASSUME NEW n \in Nat \ {0}, NEW x \in Int, NEW q \in Int, NEW r \in 0 .. n - 1, x = n * q + r
  PROVE  x % n = r
<1> DEFINE d == x \div n
           z == x % n
<1>1. z \in 0 .. n - 1 /\ d \in Int /\ x = n * d + z BY DivMod
<1> HIDE DEF d, z
<1>2. n * (q - d) = n * q - n * d BY <1>1
<1>3. n * (q - d) = z - r BY <1>1, <1>2
<1>4. q - d \in Int /\ z - r \in Int /\ -n < z - r /\ z - r < n BY <1>1
<1>5. z - r = 0 BY <1>3, <1>4, SmallMultiple
<1> QED BY <1>1, <1>5 DEF z

(* Two numbers that differ by a multiple have one remainder.               *)
LEMMA SameRemainder ==
  ASSUME NEW n \in Nat \ {0}, NEW x \in Int, NEW y \in Int, NEW k \in Int, x = y + n * k
  PROVE  x % n = y % n
<1> DEFINE d == y \div n
           r == y % n
<1>1. d \in Int /\ r \in 0 .. n - 1 /\ y = n * d + r BY DivMod
<1> HIDE DEF d, r
<1>2. x = n * (d + k) + r BY <1>1
<1>3. d + k \in Int BY <1>1
<1>4. x % n = r BY <1>1, <1>2, <1>3, Remainder
<1> QED BY <1>4 DEF r

LEMMA ClockSum ==
  ASSUME NEW a \in Int, NEW b \in Int
  PROVE  /\ ((a % Wrap) + b) % Wrap = (a + b) % Wrap
         /\ (a - (b % Wrap)) % Wrap = (a - b) % Wrap
<1>0. Wrap \in Nat \ {0} BY SoftTimerAssumption
<1> DEFINE d == a \div Wrap
           r == a % Wrap
           e == b \div Wrap
           s == b % Wrap
<1>1. d \in Int /\ r \in Int /\ a = Wrap * d + r /\ e \in Int /\ s \in Int /\ b = Wrap * e + s
  BY <1>0, DivMod
<1> HIDE DEF d, r, e, s
<1>2. (r + b) % Wrap = (a + b) % Wrap
  <2>1. r + b = (a + b) + Wrap * (-d) BY <1>0, <1>1
  <2>2. r + b \in Int /\ a + b \in Int /\ -d \in Int BY <1>1
  <2> QED BY <1>0, <2>1, <2>2, SameRemainder
<1>3. (a - s) % Wrap = (a - b) % Wrap
  <2> DEFINE x == a - s
             y == a - b
  <2>1. x = y + Wrap * e BY <1>0, <1>1
  <2>2. x \in Int /\ y \in Int BY <1>1
  <2> HIDE DEF x, y
  <2>3. x % Wrap = y % Wrap BY <1>0, <1>1, <2>1, <2>2, SameRemainder
  <2> QED BY <2>3 DEF x, y
<1> QED BY <1>2, <1>3 DEF r, s

LEMMA NearZero ==
  ASSUME NEW x \in Int, -Wrap <= x, x < Wrap
  PROVE  x % Wrap = IF x >= 0 THEN x ELSE x + Wrap
<1>0. Wrap \in Nat \ {0} BY SoftTimerAssumption
<1>1. CASE x >= 0
  <2>1. x = Wrap * 0 + x /\ x \in 0 .. Wrap - 1 BY <1>0, <1>1
  <2>2. x % Wrap = x BY <1>0, <2>1, Remainder
  <2> QED BY <1>1, <2>2
<1>2. CASE x < 0
  <2>1. x = Wrap * (-1) + (x + Wrap) /\ x + Wrap \in 0 .. Wrap - 1 BY <1>0, <1>2
  <2>2. x % Wrap = x + Wrap BY <1>0, <2>1, Remainder
  <2> QED BY <1>2, <2>2
<1> QED BY <1>1, <1>2

-----------------------------------------------------------------------------
(* A timer is due as long as it is no further away than Pre, and of two    *)
(* timers the one with more ticks to go counts as the later one.           *)
LEMMA ExpiredIs ==
  ASSUME NEW c \in Int, NEW r \in Int, Pre - Post < r, r + Post - Pre <= Wrap \div 4
  PROVE  (c + Pre - ((c + r) % Wrap)) % Wrap < Post <=> r <= Pre
<1>0. Wrap \in Nat \ {0} /\ Pre \in Nat /\ Post \in Nat BY SoftTimerAssumption
<1>1. (c + Pre - ((c + r) % Wrap)) % Wrap = (Pre - r) % Wrap
  <2> DEFINE a == c + Pre
             b == c + r
             d == a - b
  <2>1. a \in Int /\ b \in Int BY <1>0
  <2>2. d = Pre - r BY <1>0
  <2> HIDE DEF a, b, d
  <2>3. (a - (b % Wrap)) % Wrap = d % Wrap BY <2>1, ClockSum DEF d
  <2>4. d % Wrap = (Pre - r) % Wrap BY <2>2
  <2>5. a - (b % Wrap) = c + Pre - (b % Wrap)
    <3>1. b % Wrap \in Int BY <1>0, <2>1, DivMod
    <3> QED BY <1>0, <3>1 DEF a
  <2> QED BY <2>3, <2>4, <2>5, Zenon DEF b
<1>2. Wrap \div 4 \in Nat /\ Wrap \div 4 <= Wrap BY <1>0
<1>3. Pre - r \in Int /\ -Wrap <= Pre - r /\ Pre - r < Post BY <1>0, <1>2
<1>4. CASE Post <= Wrap
  <2>1. (Pre - r) % Wrap = IF Pre - r >= 0 THEN Pre - r ELSE Pre - r + Wrap
    BY <1>0, <1>3, <1>4, NearZero
  <2>2. Pre - r < 0 => Pre - r + Wrap >= Post BY <1>0, <1>2
  <2> QED BY <1>0, <1>1, <1>3, <2>1, <2>2
<1> QED BY <1>0, <1>2, <1>4

LEMMA CompareIs ==
  ASSUME NEW c \in Int, NEW r \in Int, NEW s \in Int,
         Pre - Post < r, r + Post - Pre <= Wrap \div 4, Pre - Post < s, s + Post - Pre <= Wrap \div 4
  PROVE  TimeCompareBig((c + r) % Wrap, (c + s) % Wrap) <=> r >= s
<1>0. Wrap \in Nat \ {0} /\ Pre \in Nat /\ Post \in Nat BY SoftTimerAssumption
<1> DEFINE q == Wrap \div 4
           x == (c + s) % Wrap
<1>1. q \in Nat /\ 4 * q <= Wrap BY <1>0
<1>2. x \in Int /\ -x \in Int BY <1>0, DivMod
<1> HIDE DEF x
<1>3. (((c + r) % Wrap) - x) % Wrap = (r - s) % Wrap
  <2>1. (((c + r) % Wrap) + (-x)) % Wrap = ((c + r) + (-x)) % Wrap BY <1>2, ClockSum
  <2>2. ((c + r) - x) % Wrap = ((c + r) - (c + s)) % Wrap BY ClockSum DEF x
  <2>3. (c + r) - (c + s) = r - s /\ (c + r) + (-x) = (c + r) - x BY <1>2
  <2>4. ((c + r) % Wrap) + (-x) = ((c + r) % Wrap) - x
    <3>1. (c + r) % Wrap \in Int BY <1>0, DivMod
    <3> QED BY <1>2, <3>1
  <2> QED BY <2>1, <2>2, <2>3, <2>4, Zenon
<1>4. r - s < q /\ -q < r - s BY <1>0, <1>1
<1>5. (r - s) % Wrap = IF r - s >= 0 THEN r - s ELSE r - s + Wrap
  BY <1>0, <1>1, <1>4, NearZero
<1>6. (r - s) % Wrap < q <=> r >= s BY <1>0, <1>1, <1>4, <1>5
<1> QED BY <1>3, <1>6, Zenon DEF TimeCompareBig, x

-----------------------------------------------------------------------------
(* What is left of table s after deletions: t[p] was at f[p], in order and *)
(* no further to the front.                                                *)
Picks(t, s, f) ==
  /\ f \in [1 .. Len(t) -> 1 .. Len(s)]
  /\ \A p \in 1 .. Len(t) : t[p] = s[f[p]] /\ p <= f[p]
  /\ \A p, q \in 1 .. Len(t) : p < q => f[p] < f[q]

LEMMA RemoveFacts ==
  ASSUME NEW s \in Seq(Timer), NEW k \in 1 .. Len(s)
  PROVE  /\ RemoveAt(s, k) \in Seq(Timer)
         /\ Len(RemoveAt(s, k)) = Len(s) - 1
         /\ \A p \in 1 .. (Len(s) - 1) : RemoveAt(s, k)[p] = s[IF p < k THEN p ELSE p + 1]
<1> DEFINE a == SubSeq(s, 1, k - 1)
           b == SubSeq(s, k + 1, Len(s))
<1>0. Len(s) \in Nat
  OBVIOUS
<1>1. /\ a \in Seq(Timer) /\ Len(a) = k - 1
      /\ \A p \in 1 .. (k - 1) : a[p] = s[p]
  BY <1>0, SubSeqProperties
<1>2. /\ b \in Seq(Timer) /\ Len(b) = Len(s) - k
      /\ \A p \in 1 .. (Len(s) - k) : b[p] = s[p + k]
  BY <1>0, SubSeqProperties
<1>3. RemoveAt(s, k) = a \o b
  BY DEF RemoveAt
<1> HIDE DEF a, b
<1>4. /\ a \o b \in Seq(Timer)
      /\ Len(a \o b) = Len(a) + Len(b)
      /\ \A p \in 1 .. (Len(a) + Len(b)) :
           (a \o b)[p] = IF p <= Len(a) THEN a[p] ELSE b[p - Len(a)]
  BY <1>1, <1>2, ConcatProperties
<1>5. ASSUME NEW p \in 1 .. (Len(s) - 1)
      PROVE  RemoveAt(s, k)[p] = s[IF p < k THEN p ELSE p + 1]
  <2>1. CASE p < k
    BY <1>0, <1>1, <1>2, <1>3, <1>4, <2>1
  <2>2. CASE ~(p < k)
    <3>1. p - (k - 1) \in 1 .. (Len(s) - k) /\ (p - (k - 1)) + k = p + 1
      BY <1>0, <2>2
    <3>2. b[p - (k - 1)] = s[p + 1]
      BY <1>2, <3>1
    <3>3. (a \o b)[p] = b[p - (k - 1)]
      BY <1>0, <1>1, <1>2, <1>4, <2>2
    <3> QED BY <1>3, <2>2, <3>2, <3>3
  <2> QED BY <2>1, <2>2
<1>6. Len(RemoveAt(s, k)) = Len(s) - 1
  BY <1>0, <1>1, <1>2, <1>3, <1>4
<1> QED BY <1>3, <1>4, <1>5, <1>6

(* The entries behind k move up by one.                                    *)
LEMMA RemovePicks ==
  ASSUME NEW s \in Seq(Timer), NEW k \in 1 .. Len(s)
  PROVE  LET t == RemoveAt(s, k)
             f == [p \in 1 .. Len(t) |-> IF p < k THEN p ELSE p + 1]
         IN  t \in Seq(Timer) /\ Len(t) = Len(s) - 1 /\ Picks(t, s, f)
<1> DEFINE t == RemoveAt(s, k)
           f == [p \in 1 .. Len(t) |-> IF p < k THEN p ELSE p + 1]
<1>1. Len(s) \in Nat
  OBVIOUS
<1>2. t \in Seq(Timer) /\ Len(t) = Len(s) - 1
      /\ \A p \in 1 .. Len(t) : t[p] = s[f[p]]
  BY <1>1, RemoveFacts
<1> HIDE DEF t
<1>3. f \in [1 .. Len(t) -> 1 .. Len(s)]
  BY <1>1, <1>2
<1>4. \A p \in 1 .. Len(t) : p <= f[p]
  BY <1>1, <1>2
<1>5. \A p, q \in 1 .. Len(t) : p < q => f[p] < f[q]
  BY <1>1, <1>2
<1> HIDE DEF f
<1>6. Picks(t, s, f)
  BY <1>2, <1>3, <1>4, <1>5 DEF Picks
<1> QED BY <1>2, <1>6 DEF t, f

(* What a callback leaves behind: itself, and all before it.               *)
LEMMA LeftPicks ==
  ASSUME TypeOK, ~SelfDelete, i <= Len(table), NEW s \in Left
  PROVE  /\ s \in Seq(Timer) /\ Len(s) \in i .. Len(table)
         /\ \E f : Picks(s, table, f) /\ \A p \in 1 .. i : f[p] = p
<1>1. table \in Seq(Timer) /\ Len(table) \in Nat /\ i \in 1 .. Len(table)
  BY DEF TypeOK
<1>2. CASE s = table
  <2> DEFINE f == [p \in 1 .. Len(table) |-> p]
  <2>1. Picks(table, table, f)
    BY <1>1 DEF Picks
  <2>2. \A p \in 1 .. i : f[p] = p
    BY <1>1
  <2> QED BY <1>1, <1>2, <2>1, <2>2
<1>3. ASSUME NEW k \in (i + 1) .. Len(table), s = RemoveAt(table, k)
      PROVE  /\ s \in Seq(Timer) /\ Len(s) \in i .. Len(table)
             /\ \E f : Picks(s, table, f) /\ \A p \in 1 .. i : f[p] = p
  <2> DEFINE f == [p \in 1 .. Len(s) |-> IF p < k THEN p ELSE p + 1]
  <2>1. k \in 1 .. Len(table)
    BY <1>1
  <2>2. s \in Seq(Timer) /\ Len(s) = Len(table) - 1 /\ Picks(s, table, f)
    BY <1>1, <1>3, <2>1, RemovePicks
  <2>3. \A p \in 1 .. i : f[p] = p
    BY <1>1, <2>2
  <2> QED BY <1>1, <2>2, <2>3
<1> QED BY <1>2, <1>3 DEF Left

LEMMA PicksTwice ==
  ASSUME NEW s, NEW t, NEW u, NEW f, NEW g, Picks(t, s, f), Picks(u, t, g),
         Len(s) \in Nat, Len(t) \in Nat, Len(u) \in Nat
  PROVE  Picks(u, s, [p \in 1 .. Len(u) |-> f[g[p]]])
<1> DEFINE h == [p \in 1 .. Len(u) |-> f[g[p]]]
<1>1. /\ f \in [1 .. Len(t) -> 1 .. Len(s)] /\ g \in [1 .. Len(u) -> 1 .. Len(t)]
      /\ \A p \in 1 .. Len(t) : t[p] = s[f[p]] /\ p <= f[p]
      /\ \A p \in 1 .. Len(u) : u[p] = t[g[p]] /\ p <= g[p]
  BY DEF Picks
<1>2. h \in [1 .. Len(u) -> 1 .. Len(s)]
  BY <1>1
<1>3. ASSUME NEW p \in 1 .. Len(u) PROVE u[p] = s[h[p]] /\ p <= h[p]
  <2>1. g[p] \in 1 .. Len(t) /\ f[g[p]] \in 1 .. Len(s)
    BY <1>1
  <2> QED BY <1>1, <2>1
<1>4. ASSUME NEW p \in 1 .. Len(u), NEW q \in 1 .. Len(u), p < q PROVE h[p] < h[q]
  <2>1. g[p] \in 1 .. Len(t) /\ g[q] \in 1 .. Len(t) /\ g[p] < g[q]
    BY <1>1, <1>4 DEF Picks
  <2> QED BY <2>1 DEF Picks
<1> HIDE DEF h
<1> QED BY <1>2, <1>3, <1>4 DEF Picks, h

LEMMA PicksFewer ==
  ASSUME NEW s, NEW t, NEW f, Picks(t, s, f), Len(s) \in Nat, Len(t) \in Nat
  PROVE  Len(t) <= Len(s)
<1>1. CASE Len(t) = 0 BY <1>1
<1>2. CASE Len(t) # 0
  <2>1. Len(t) \in 1 .. Len(t) BY <1>2
  <2>2. f[Len(t)] \in 1 .. Len(s) /\ Len(t) <= f[Len(t)] BY <2>1 DEF Picks
  <2> QED BY <2>2
<1> QED BY <1>1, <1>2

-----------------------------------------------------------------------------
(* A step that deletes timers and leaves the time of the others alone.     *)
Shrunk(h) ==
  /\ table' \in Seq(Timer) /\ Picks(table', table, h)
  /\ \A p \in 1 .. Len(table') : rem'[table'[p].cb] = R(h[p])
  /\ rem' \in [Fn -> Int]

LEMMA TableFacts ==
  ASSUME OwnInv
  PROVE  /\ table \in Seq(Timer) /\ Len(table) \in Nat /\ Len(table) <= MaxTimers
         /\ DOMAIN table = 1 .. Len(table) /\ MaxTimers \in Nat
         /\ clock \in 0 .. Wrap - 1 /\ clock \in Int
         /\ \A p \in 1 .. Len(table) :
              /\ table[p] \in Timer /\ table[p].cb \in Fn /\ table[p].interval \in Interval
              /\ R(p) \in Int /\ table[p].t = Due(R(p))
<1>1. /\ table \in Seq(Timer) /\ Len(table) \in Nat /\ Len(table) <= MaxTimers
      /\ DOMAIN table = 1 .. Len(table) /\ MaxTimers \in Nat
      /\ clock \in 0 .. Wrap - 1 /\ clock \in Int /\ rem \in [Fn -> Int]
  BY SoftTimerAssumption DEF OwnInv, TypeOK
<1>2. ASSUME NEW p \in 1 .. Len(table)
      PROVE  /\ table[p] \in Timer /\ table[p].cb \in Fn /\ table[p].interval \in Interval
             /\ R(p) \in Int /\ table[p].t = Due(R(p))
  <2>1. table[p] \in Timer
    BY <1>1
  <2>2. table[p].cb \in Fn /\ table[p].interval \in Interval
    BY <2>1 DEF Timer
  <2>3. R(p) \in Int
    BY <1>1, <2>2 DEF R
  <2>4. table[p].t = Due(R(p))
    BY <1>1 DEF OwnInv, KeepsOwnTime, R
  <2> QED BY <2>1, <2>2, <2>3, <2>4
<1> QED BY <1>1, <1>2

(* A step that puts a timer at the end of the table.                       *)
LEMMA AddMoves ==
  ASSUME OwnInv, NEW fn \in Fn, NEW ticks \in Interval, Add(fn, ticks)
  PROVE  /\ Len(table') = Len(table) + 1 /\ Len(table') <= MaxTimers
         /\ \A p \in 1 .. Len(table) : rem'[table'[p].cb] = R(p)
         /\ rem'[table'[Len(table) + 1].cb] = ticks
<1> DEFINE e == [cb |-> fn, t |-> Due(ticks), interval |-> ticks]
<1>1. /\ table' = Append(table, e) /\ rem' = [rem EXCEPT ![fn] = ticks] /\ fn \notin Running
      /\ Len(table) < MaxTimers /\ Len(table) \in Nat /\ MaxTimers \in Nat /\ table \in Seq(Timer)
      /\ rem \in [Fn -> Int]
  BY TableFacts DEF Add, OwnInv, TypeOK
<1>2. e.cb = fn
  OBVIOUS
<1> HIDE DEF e
<1>3. Len(table') = Len(table) + 1 /\ table'[Len(table) + 1] = e
  BY <1>1
<1>4. ASSUME NEW p \in 1 .. Len(table) PROVE rem'[table'[p].cb] = R(p)
  <2>1. table'[p] = table[p]
    BY <1>1
  <2>2. table[p].cb \in Fn /\ table[p].cb # fn
    BY <1>1, TableFacts DEF Running
  <2> QED BY <1>1, <2>1, <2>2 DEF R
<1> QED BY <1>1, <1>2, <1>3, <1>4

LEMMA DeleteShrinks ==
  ASSUME OwnInv, NEW fn \in Fn, Delete(fn)
  PROVE  \E h : Shrunk(h)
<1>1. PICK k \in 1 .. Len(table) : table[k].cb = fn /\ table' = RemoveAt(table, k)
  BY TableFacts DEF Delete
<1> DEFINE h == [p \in 1 .. Len(table') |-> IF p < k THEN p ELSE p + 1]
<1>2. table' \in Seq(Timer) /\ Len(table') = Len(table) - 1 /\ Picks(table', table, h)
  BY <1>1, RemovePicks, TableFacts
<1>3. rem' = [rem EXCEPT ![fn] = 0] /\ rem \in [Fn -> Int]
  BY DEF Delete, OwnInv, TypeOK
<1>4. ASSUME NEW p \in 1 .. Len(table') PROVE rem'[table'[p].cb] = R(h[p])
  <2>1. h[p] \in 1 .. Len(table) /\ table'[p] = table[h[p]] /\ h[p] # k
    BY <1>2, TableFacts DEF Picks
  <2>2. table[h[p]].cb # fn
    BY <1>1, <2>1, TableFacts DEF OwnInv, Distinct
  <2>3. table[h[p]].cb \in Fn
    BY <2>1, TableFacts
  <2> HIDE DEF h
  <2> QED BY <1>3, <2>1, <2>2, <2>3 DEF R
<1> HIDE DEF h
<1> QED BY <1>2, <1>3, <1>4 DEF Shrunk

(* After RunEnds every entry behind the index has moved.                   *)
LEMMA RunEndsShrinks ==
  ASSUME OwnInv, ~SelfDelete, RunEnds
  PROVE  /\ at' = at /\ i \in 1 .. Len(table)
         /\ \E h : /\ Shrunk(h)
                  /\ \A p \in 1 .. Len(table') : IF p < i THEN h[p] = p ELSE p + 1 <= h[p]
<1>1. i \in 1 .. Len(table)
  BY TableFacts DEF RunEnds, Called, OwnInv, TypeOK
<1>2. PICK s \in Left : /\ at' = (IF i <= Len(s) THEN at ELSE "trap")
                        /\ table' = (IF i <= Len(s) THEN RemoveAt(s, i) ELSE s)
                        /\ Asked(s, 0)
  BY DEF RunEnds
<1>3. s \in Seq(Timer) /\ Len(s) \in i .. Len(table) /\ Len(s) \in Nat
  BY <1>1, LeftPicks DEF OwnInv
<1>4. PICK f : Picks(s, table, f) /\ \A p \in 1 .. i : f[p] = p
  BY <1>1, LeftPicks DEF OwnInv
<1>5. at' = at /\ table' = RemoveAt(s, i) /\ i \in 1 .. Len(s)
  BY <1>1, <1>2, <1>3
<1> DEFINE g == [p \in 1 .. Len(table') |-> IF p < i THEN p ELSE p + 1]
           h == [p \in 1 .. Len(table') |-> f[g[p]]]
<1>6. table' \in Seq(Timer) /\ Len(table') = Len(s) - 1 /\ Picks(table', s, g)
  BY <1>3, <1>5, RemovePicks
<1>7. Picks(table', table, h)
  <2>1. Len(table) \in Nat /\ Len(table') \in Nat
    BY <1>3, <1>6, TableFacts
  <2> HIDE DEF g
  <2> QED BY <1>3, <1>4, <1>6, <2>1, PicksTwice
<1>8. ASSUME NEW p \in 1 .. Len(table') PROVE IF p < i THEN h[p] = p ELSE p + 1 <= h[p]
  <2>1. h[p] = f[g[p]]
    OBVIOUS
  <2>2. CASE p < i
    <3>1. g[p] = p /\ p \in 1 .. i
      BY <1>1, <2>2
    <3> QED BY <1>4, <2>1, <2>2, <3>1
  <2>3. CASE ~(p < i)
    <3>1. g[p] = p + 1 /\ p + 1 \in 1 .. Len(s)
      BY <1>1, <1>3, <1>6, <2>3
    <3>2. p + 1 <= f[p + 1]
      BY <1>4, <3>1 DEF Picks
    <3> HIDE DEF h, g
    <3> QED BY <2>1, <2>3, <3>1, <3>2
  <2> QED BY <2>2, <2>3
<1>9. rem' = [fn \in Fn |-> IF fn \notin {s[k].cb : k \in DOMAIN s} THEN 0
                            ELSE IF fn = table[i].cb THEN 0 ELSE rem[fn]]
  BY <1>2 DEF Asked
<1>10. rem \in [Fn -> Int] /\ rem' \in [Fn -> Int]
  BY <1>9 DEF OwnInv, TypeOK
<1>11. ASSUME NEW p \in 1 .. Len(table') PROVE rem'[table'[p].cb] = R(h[p])
  <2>1. h[p] \in 1 .. Len(table) /\ table'[p] = table[h[p]]
    BY <1>7 DEF Picks
  <2>2. h[p] # i
    BY <1>1, <1>6, <1>8, <2>1
  <2>3. table'[p].cb \in Fn /\ table'[p].cb # table[i].cb
    BY <1>1, <2>1, <2>2, TableFacts DEF OwnInv, Distinct
  <2>4. g[p] \in 1 .. Len(s) /\ table'[p] = s[g[p]]
    BY <1>6 DEF Picks
  <2>5. table'[p].cb \in {s[k].cb : k \in DOMAIN s}
    BY <1>3, <2>4
  <2> HIDE DEF h, g
  <2> QED BY <1>9, <2>1, <2>3, <2>5 DEF R
<1> HIDE DEF h, g
<1> QED BY <1>1, <1>5, <1>6, <1>7, <1>8, <1>10, <1>11 DEF Shrunk

(* A step that sets the timer at the index to ticks from now.              *)
Reset(h, ticks) ==
  /\ table' \in Seq(Timer) /\ Len(table') \in i .. Len(table)
  /\ h \in [1 .. Len(table') -> 1 .. Len(table)] /\ \A p \in 1 .. i : h[p] = p
  /\ \A p, q \in 1 .. Len(table') : p < q => h[p] < h[q]
  /\ \A p \in 1 .. Len(table') :
       /\ p <= h[p] /\ table'[p].cb = table[h[p]].cb
       /\ table'[p].t = Due(rem'[table'[p].cb])
       /\ rem'[table'[p].cb] = (IF p = i THEN ticks ELSE R(h[p]))
  /\ rem' \in [Fn -> Int]

LEMMA RunResets ==
  ASSUME OwnInv, ~SelfDelete, i \in 1 .. Len(table), NEW s \in Left, NEW ticks \in Interval,
         table' = Again(s, ticks), Asked(s, ticks)
  PROVE  \E h : Reset(h, ticks)
<1>1. s \in Seq(Timer) /\ Len(s) \in i .. Len(table) /\ Len(s) \in Nat
  BY LeftPicks, TableFacts DEF OwnInv
<1>2. PICK h : Picks(s, table, h) /\ \A p \in 1 .. i : h[p] = p
  BY LeftPicks, TableFacts DEF OwnInv
<1>3. i \in 1 .. Len(s) /\ s[i] \in Timer
  BY <1>1
<1>4. table' = [s EXCEPT ![i].interval = ticks, ![i].t = Due(ticks)]
  BY <1>3 DEF Again
<1>5. Due(ticks) \in 0 .. Wrap - 1
  <2>1. Wrap \in Nat \ {0} /\ clock + ticks \in Int
    BY SoftTimerAssumption, TableFacts
  <2> QED BY <2>1, DivMod DEF Due
<1> DEFINE e == [s[i] EXCEPT !.interval = ticks, !.t = Due(ticks)]
<1>6. e \in Timer /\ e.cb = s[i].cb /\ e.t = Due(ticks)
  BY <1>3, <1>5 DEF Timer
<1>7. table' = [s EXCEPT ![i] = e]
  BY <1>3, <1>4
<1> HIDE DEF e
<1>8. /\ table' \in Seq(Timer) /\ Len(table') = Len(s)
      /\ \A p \in 1 .. Len(s) : table'[p] = IF p = i THEN e ELSE s[p]
  BY <1>1, <1>3, <1>6, <1>7
<1>9. rem' = [fn \in Fn |-> IF fn \notin {s[k].cb : k \in DOMAIN s} THEN 0
                            ELSE IF fn = table[i].cb THEN ticks ELSE rem[fn]]
  BY DEF Asked
<1>10. rem \in [Fn -> Int] /\ rem' \in [Fn -> Int]
  BY <1>9, SoftTimerAssumption DEF OwnInv, TypeOK
<1>11. ASSUME NEW p \in 1 .. Len(table')
       PROVE  /\ p <= h[p] /\ table'[p].cb = table[h[p]].cb
              /\ table'[p].t = Due(rem'[table'[p].cb])
              /\ rem'[table'[p].cb] = (IF p = i THEN ticks ELSE R(h[p]))
  <2>1. p \in 1 .. Len(s) /\ h[p] \in 1 .. Len(table) /\ s[p] = table[h[p]] /\ p <= h[p]
    BY <1>2, <1>8 DEF Picks
  <2>2. table'[p].cb = s[p].cb /\ s[p].cb \in Fn /\ s[p].cb \in {s[k].cb : k \in DOMAIN s}
    <3>1. s[p].cb \in Fn
      BY <2>1, TableFacts
    <3>2. DOMAIN s = 1 .. Len(s)
      BY <1>1
    <3>3. table'[p] = IF p = i THEN e ELSE s[p]
      BY <1>8, <2>1
    <3> QED BY <1>6, <2>1, <3>1, <3>2, <3>3
  <2>3. CASE p = i
    <3>1. h[p] = i
      BY <1>2, <2>3
    <3>2. rem'[table'[p].cb] = ticks
      BY <1>9, <2>1, <2>2, <3>1
    <3> QED BY <1>6, <1>8, <2>1, <2>2, <2>3, <3>2
  <2>4. CASE p # i
    <3>1. h[p] # i
      BY <1>2, <1>3, <2>1, <2>4 DEF Picks
    <3>2. s[p].cb # table[i].cb
      BY <2>1, <3>1, TableFacts DEF OwnInv, Distinct
    <3>3. rem'[table'[p].cb] = R(h[p])
      BY <1>9, <2>1, <2>2, <3>2 DEF R
    <3>4. table'[p].t = Due(R(h[p]))
      BY <1>8, <2>1, <2>4, TableFacts
    <3> QED BY <2>1, <2>2, <2>4, <3>3, <3>4
  <2> QED BY <2>3, <2>4
<1>12. /\ h \in [1 .. Len(table') -> 1 .. Len(table)]
       /\ \A p, q \in 1 .. Len(table') : p < q => h[p] < h[q]
  BY <1>2, <1>8 DEF Picks
<1>13. Len(table') \in i .. Len(table)
  BY <1>1, <1>8
<1> QED BY <1>2, <1>8, <1>10, <1>11, <1>12, <1>13 DEF Reset

LEMMA RunSets ==
  ASSUME OwnInv, ~SelfDelete, RunRepeats \/ \E ticks \in Interval : RunChanges(ticks)
  PROVE  /\ at = "loop" /\ at' = "loop" /\ changed' = TRUE /\ i \in 1 .. Len(table)
         /\ Expired(table[i].t) /\ i' = i + 1 /\ UNCHANGED <<clock, since, sortVars>>
         /\ \E h, ticks : ticks \in Interval /\ Reset(h, ticks)
<1>1. i \in 1 .. Len(table)
  BY TableFacts DEF RunRepeats, RunChanges, Called, OwnInv, TypeOK
<1>2. CASE RunRepeats
  <2>1. PICK s \in Left : table' = Again(s, AtIndex(s)) /\ Asked(s, table[i].interval)
    BY <1>2 DEF RunRepeats
  <2>2. s \in Seq(Timer) /\ i \in 1 .. Len(s)
    BY <1>1, LeftPicks, TableFacts DEF OwnInv
  <2>3. PICK f : Picks(s, table, f) /\ \A p \in 1 .. i : f[p] = p
    BY <1>1, LeftPicks, TableFacts DEF OwnInv
  <2>4. s[i] = table[i]
    BY <1>1, <2>2, <2>3 DEF Picks
  <2>5. AtIndex(s) = table[i].interval
    BY <2>2, <2>4 DEF AtIndex
  <2>6. table[i].interval \in Interval
    BY <1>1, TableFacts
  <2>7. \E h : Reset(h, table[i].interval)
    BY <1>1, <2>1, <2>5, <2>6, RunResets
  <2> QED BY <1>1, <1>2, <2>6, <2>7 DEF RunRepeats, Called
<1>3. CASE \E ticks \in Interval : RunChanges(ticks)
  <2>1. PICK ticks \in Interval : RunChanges(ticks)
    BY <1>3
  <2>2. PICK s \in Left : table' = Again(s, ticks) /\ Asked(s, ticks)
    BY <2>1 DEF RunChanges
  <2>3. \E h : Reset(h, ticks)
    BY <1>1, <2>2, RunResets
  <2> QED BY <1>1, <2>1, <2>3 DEF RunChanges, Called
<1> QED BY <1>2, <1>3

(* Two neighbours are exchanged, or none.                                  *)
Exchange(a, swap) ==
  [p \in 1 .. Len(table) |->
     IF swap /\ p = a THEN a + 1 ELSE IF swap /\ p = a + 1 THEN a ELSE p]

LEMMA CompareMoves ==
  ASSUME OwnInv, Compare
  PROVE  /\ at = "sort" /\ pos \in 1 .. Len(table) /\ pos + 1 \in 1 .. Len(table)
         /\ table' \in Seq(Timer) /\ Len(table') = Len(table)
         /\ \E swap \in BOOLEAN :
              /\ swap <=> TimeCompareBig(table[pos].t, table[pos + 1].t)
              /\ \A p \in 1 .. Len(table) : table'[p] = table[Exchange(pos, swap)[p]]
<1>1. table \in Seq(Timer) /\ Len(table) \in Nat /\ round \in Nat /\ pos \in Nat \ {0}
  BY TableFacts DEF OwnInv, TypeOK
<1>2. at = "sort" /\ pos \in 1 .. Len(table) /\ pos + 1 \in 1 .. Len(table)
  BY <1>1 DEF Compare
<1>3. table' = Swapped(table, pos)
  BY DEF Compare
<1> DEFINE swap == TimeCompareBig(table[pos].t, table[pos + 1].t)
<1>4. swap \in BOOLEAN
  BY DEF TimeCompareBig
<1>5. table[pos] \in Timer /\ table[pos + 1] \in Timer
  BY <1>1, <1>2
<1>6. CASE swap
  <2>1. table' = [table EXCEPT ![pos] = table[pos + 1], ![pos + 1] = table[pos]]
    BY <1>3, <1>6 DEF Swapped
  <2>2. /\ table' \in Seq(Timer) /\ Len(table') = Len(table)
        /\ \A p \in 1 .. Len(table) :
             table'[p] = IF p = pos + 1 THEN table[pos] ELSE IF p = pos THEN table[pos + 1] ELSE table[p]
    BY <1>1, <1>2, <1>5, <2>1
  <2>3. \A p \in 1 .. Len(table) : table'[p] = table[Exchange(pos, TRUE)[p]]
    BY <1>1, <1>2, <2>2 DEF Exchange
  <2> QED BY <1>2, <1>6, <2>2, <2>3
<1>7. CASE ~swap
  <2>1. table' = table
    BY <1>3, <1>7 DEF Swapped
  <2>2. \A p \in 1 .. Len(table) : table'[p] = table[Exchange(pos, FALSE)[p]]
    BY <1>1, <2>1 DEF Exchange
  <2> QED BY <1>1, <1>2, <1>7, <2>1, <2>2
<1> QED BY <1>6, <1>7

-----------------------------------------------------------------------------
(* Entries that come from different ones, with their own time: still one   *)
(* timer to a callback, each with its time.                                *)
LEMMA MovedOwn ==
  ASSUME OwnInv, table' \in Seq(Timer), UNCHANGED clock,
         NEW h \in [1 .. Len(table') -> 1 .. Len(table)],
         \A p, q \in 1 .. Len(table') : h[p] = h[q] => p = q,
         \A p \in 1 .. Len(table') :
            table'[p].cb = table[h[p]].cb /\ table'[p].t = Due(rem'[table'[p].cb])
  PROVE  Distinct' /\ KeepsOwnTime'
<1>1. DOMAIN table' = 1 .. Len(table') /\ DOMAIN table = 1 .. Len(table)
  BY TableFacts
<1>2. ASSUME NEW p \in 1 .. Len(table'), NEW q \in 1 .. Len(table'), table'[p].cb = table'[q].cb
      PROVE  p = q
  <2>1. table[h[p]].cb = table[h[q]].cb /\ h[p] \in DOMAIN table /\ h[q] \in DOMAIN table
    BY <1>1, <1>2
  <2>2. h[p] = h[q]
    BY <2>1 DEF OwnInv, Distinct
  <2> QED BY <2>2
<1>3. Distinct'
  BY <1>1, <1>2 DEF Distinct
<1>4. KeepsOwnTime'
  BY <1>1 DEF KeepsOwnTime, Due
<1> QED BY <1>3, <1>4

LEMMA ShrunkOwn ==
  ASSUME OwnInv, NEW h, Shrunk(h), UNCHANGED clock
  PROVE  /\ Distinct' /\ KeepsOwnTime' /\ table' \in Seq(Timer) /\ rem' \in [Fn -> Int]
         /\ Len(table') \in Nat /\ Len(table') <= Len(table)
<1>1. table' \in Seq(Timer) /\ Len(table') \in Nat /\ Len(table) \in Nat
  BY TableFacts DEF Shrunk
<1>2. h \in [1 .. Len(table') -> 1 .. Len(table)]
  BY DEF Shrunk, Picks
<1>3. \A p, q \in 1 .. Len(table') : h[p] = h[q] => p = q
  <2> TAKE p, q \in 1 .. Len(table')
  <2>1. p \in Int /\ q \in Int /\ h[p] \in Int /\ h[q] \in Int
    BY <1>2
  <2>2. (p < q => h[p] < h[q]) /\ (q < p => h[q] < h[p])
    BY DEF Shrunk, Picks
  <2> QED BY <2>1, <2>2
<1>4. \A p \in 1 .. Len(table') :
        table'[p].cb = table[h[p]].cb /\ table'[p].t = Due(rem'[table'[p].cb])
  <2> TAKE p \in 1 .. Len(table')
  <2>1. h[p] \in 1 .. Len(table)
    BY <1>2
  <2>2. table'[p] = table[h[p]] /\ rem'[table'[p].cb] = R(h[p])
    BY DEF Shrunk, Picks
  <2>3. table[h[p]].t = Due(R(h[p]))
    BY <2>1, TableFacts
  <2> QED BY <2>2, <2>3
<1>5. Distinct' /\ KeepsOwnTime'
  BY <1>1, <1>2, <1>3, <1>4, MovedOwn
<1>6. Len(table') <= Len(table)
  BY <1>1, PicksFewer DEF Shrunk
<1> QED BY <1>1, <1>5, <1>6 DEF Shrunk

LEMMA ResetOwn ==
  ASSUME OwnInv, NEW h, NEW ticks, Reset(h, ticks), UNCHANGED clock
  PROVE  /\ Distinct' /\ KeepsOwnTime' /\ table' \in Seq(Timer) /\ rem' \in [Fn -> Int]
         /\ Len(table') \in Nat /\ Len(table') <= Len(table)
<1>1. /\ table' \in Seq(Timer) /\ Len(table') \in Nat /\ Len(table) \in Nat
      /\ h \in [1 .. Len(table') -> 1 .. Len(table)] /\ i \in Int
  BY TableFacts DEF Reset, OwnInv, TypeOK
<1>2. \A p, q \in 1 .. Len(table') : h[p] = h[q] => p = q
  <2> TAKE p, q \in 1 .. Len(table')
  <2>1. p \in Int /\ q \in Int /\ h[p] \in Int /\ h[q] \in Int
    BY <1>1
  <2>2. (p < q => h[p] < h[q]) /\ (q < p => h[q] < h[p])
    BY DEF Reset
  <2> QED BY <2>1, <2>2
<1>3. Distinct' /\ KeepsOwnTime'
  BY <1>1, <1>2, MovedOwn DEF Reset
<1>4. Len(table') \in i .. Len(table)
  BY DEF Reset
<1> QED BY <1>1, <1>3, <1>4 DEF Reset

LEMMA OwnInit == Init => OwnInv
<1> SUFFICES ASSUME Init PROVE OwnInv
  OBVIOUS
<1>1. table = <<>> /\ DOMAIN table = {}
  BY DEF Init
<1>2. TypeOK
  <2>1. table \in Seq(Timer) /\ Len(table) = 0
    BY <1>1
  <2>2. rem \in [Fn -> Int]
    BY DEF Init
  <2>3. clock = 0 /\ since = 0 /\ at = "idle" /\ i = 1 /\ round = 0 /\ pos = 1
    BY DEF Init
  <2>4. changed \in BOOLEAN
    BY DEF Init
  <2>5. MaxTimers \in Nat \ {0} /\ Wrap \in Nat \ {0} /\ Turn \in Nat \ {0}
    BY SoftTimerAssumption
  <2>6. /\ clock \in 0 .. Wrap - 1 /\ since \in 0 .. Turn /\ at \in {"idle", "loop", "sort", "trap"}
        /\ i \in 1 .. MaxTimers + 1 /\ round \in 0 .. MaxTimers /\ pos \in 1 .. MaxTimers
    BY <2>3, <2>5
  <2> QED BY <2>1, <2>2, <2>4, <2>5, <2>6 DEF TypeOK
<1> QED BY <1>1, <1>2 DEF Init, OwnInv, Distinct, KeepsOwnTime

LEMMA OwnStep ==
  ASSUME OwnInv, ~SelfDelete, [Next]_vars
  PROVE  OwnInv'
<1>0. /\ MaxTimers \in Nat \ {0} /\ Turn \in Nat \ {0} /\ Wrap \in Nat \ {0}
      /\ Interval \subseteq 1 .. Wrap - 1
  BY SoftTimerAssumption
<1>1. CASE Tick
  <2>1. (clock + 1) % Wrap \in 0 .. Wrap - 1
    <3>1. clock + 1 \in Int
      BY TableFacts
    <3> QED BY <1>0, <3>1, DivMod
  <2>2. rem' \in [Fn -> Int]
    BY <1>1 DEF Tick, OwnInv, TypeOK
  <2>3. TypeOK'
    BY <1>0, <1>1, <2>1, <2>2 DEF Tick, OwnInv, TypeOK, sortVars
  <2>4. ASSUME NEW p \in 1 .. Len(table) PROVE table[p].t = (clock' + rem'[table[p].cb]) % Wrap
    <3>1. table[p].cb \in Fn /\ table[p].cb \in Running /\ R(p) \in Int /\ table[p].t = Due(R(p))
      BY TableFacts DEF Running
    <3>2. rem'[table[p].cb] = R(p) - 1
      BY <1>1, <3>1 DEF Tick, R
    <3>3. (((clock + 1) % Wrap) + (R(p) - 1)) % Wrap = ((clock + 1) + (R(p) - 1)) % Wrap
      <4> DEFINE a == clock + 1
                 b == R(p) - 1
      <4>1. a \in Int /\ b \in Int
        BY <3>1, TableFacts
      <4> HIDE DEF a, b
      <4>2. ((a % Wrap) + b) % Wrap = (a + b) % Wrap
        BY <4>1, ClockSum
      <4>3. a + b = (clock + 1) + (R(p) - 1)
        BY DEF a, b
      <4>4. (a % Wrap) + b = ((clock + 1) % Wrap) + (R(p) - 1)
        BY DEF a, b
      <4> QED BY <4>2, <4>3, <4>4, Zenon
    <3>4. (clock + 1) + (R(p) - 1) = clock + R(p)
      BY <3>1, TableFacts
    <3>5. clock' = (clock + 1) % Wrap
      BY <1>1 DEF Tick
    <3> QED BY <3>1, <3>2, <3>3, <3>4, <3>5, Zenon DEF Due
  <2>5. table' = table /\ at' = at /\ DOMAIN table = 1 .. Len(table)
    BY <1>1, TableFacts DEF Tick
  <2>6. KeepsOwnTime'
    BY <2>4, <2>5 DEF KeepsOwnTime, Due
  <2> QED BY <2>3, <2>5, <2>6 DEF OwnInv, Distinct
<1>2. ASSUME NEW f \in Fn, NEW ticks \in Interval, Add(f, ticks) PROVE OwnInv'
  <2> DEFINE e == [cb |-> f, t |-> Due(ticks), interval |-> ticks]
  <2>1. Due(ticks) \in 0 .. Wrap - 1 /\ ticks \in Int
    <3>1. clock + ticks \in Int /\ ticks \in Int
      BY <1>0, TableFacts
    <3> QED BY <1>0, <3>1, DivMod DEF Due
  <2>2. e \in Timer /\ e.cb = f /\ e.t = Due(ticks)
    BY <2>1 DEF Timer
  <2>3. table' = Append(table, e)
    BY <1>2 DEF Add
  <2> HIDE DEF e
  <2>4. /\ table' \in Seq(Timer) /\ Len(table') = Len(table) + 1
        /\ table'[Len(table) + 1] = e /\ \A p \in 1 .. Len(table) : table'[p] = table[p]
    BY <2>2, <2>3, TableFacts
  <2>5. rem' = [rem EXCEPT ![f] = ticks] /\ rem' \in [Fn -> Int]
    BY <1>2, <2>1 DEF Add, OwnInv, TypeOK
  <2>6. Len(table') <= MaxTimers
    BY <1>0, <1>2, <2>4, TableFacts DEF Add
  <2>7. TypeOK'
    BY <1>0, <1>2, <2>4, <2>5, <2>6 DEF Add, OwnInv, TypeOK, sortVars
  <2>8. \A p \in 1 .. Len(table) : table[p].cb # f
    BY <1>2, TableFacts DEF Add, Running
  <2>9. DOMAIN table' = 1 .. Len(table) + 1 /\ DOMAIN table = 1 .. Len(table) /\ Len(table) \in Nat
    BY <2>4, TableFacts
  <2>10. Distinct'
    <3> SUFFICES ASSUME NEW p \in 1 .. Len(table) + 1, NEW q \in 1 .. Len(table) + 1,
                        table'[p].cb = table'[q].cb
                 PROVE  p = q
      BY <2>9 DEF Distinct
    <3>1. CASE p = Len(table) + 1 /\ q # Len(table) + 1
      <4>1. q \in 1 .. Len(table)
        BY <2>9, <3>1
      <4> QED BY <2>2, <2>4, <2>8, <3>1, <4>1
    <3>2. CASE q = Len(table) + 1 /\ p # Len(table) + 1
      <4>1. p \in 1 .. Len(table)
        BY <2>9, <3>2
      <4> QED BY <2>2, <2>4, <2>8, <3>2, <4>1
    <3>3. CASE p # Len(table) + 1 /\ q # Len(table) + 1
      <4>1. p \in 1 .. Len(table) /\ q \in 1 .. Len(table)
        BY <2>9, <3>3
      <4> QED BY <2>4, <2>9, <4>1 DEF OwnInv, Distinct
    <3> QED BY <3>1, <3>2, <3>3
  <2>11. KeepsOwnTime'
    <3> SUFFICES ASSUME NEW p \in 1 .. Len(table) + 1
                 PROVE  table'[p].t = Due(rem'[table'[p].cb])
      BY <1>2, <2>9 DEF KeepsOwnTime, Due, Add
    <3>1. CASE p = Len(table) + 1
      BY <2>2, <2>4, <2>5, <3>1 DEF OwnInv, TypeOK
    <3>2. CASE p # Len(table) + 1
      <4>1. p \in 1 .. Len(table) /\ table'[p] = table[p]
        BY <2>4, <2>9, <3>2
      <4>2. rem'[table[p].cb] = R(p)
        BY <2>5, <2>8, <4>1, TableFacts DEF R
      <4> QED BY <4>1, <4>2, TableFacts
    <3> QED BY <3>1, <3>2
  <2> QED BY <1>2, <2>7, <2>10, <2>11 DEF OwnInv, Add
<1>3. ASSUME NEW f \in Fn, Delete(f) PROVE OwnInv'
  <2>1. PICK h : Shrunk(h)
    BY <1>3, DeleteShrinks
  <2>2. UNCHANGED <<clock, since, at, i, changed, round, pos>> /\ at = "idle"
    BY <1>3 DEF Delete, sortVars
  <2>3. /\ Distinct' /\ KeepsOwnTime' /\ table' \in Seq(Timer) /\ rem' \in [Fn -> Int]
        /\ Len(table') \in Nat /\ Len(table') <= Len(table)
    BY <2>1, <2>2, ShrunkOwn
  <2>4. TypeOK'
    BY <1>0, <2>2, <2>3, TableFacts DEF OwnInv, TypeOK
  <2> QED BY <2>2, <2>3, <2>4 DEF OwnInv
<1>4. CASE Compare
  <2>1. /\ at = "sort" /\ pos \in 1 .. Len(table) /\ pos + 1 \in 1 .. Len(table)
        /\ table' \in Seq(Timer) /\ Len(table') = Len(table)
    BY <1>4, CompareMoves
  <2>2. PICK swap \in BOOLEAN :
          \A p \in 1 .. Len(table) : table'[p] = table[Exchange(pos, swap)[p]]
    BY <1>4, CompareMoves
  <2> DEFINE h == Exchange(pos, swap)
  <2>3. UNCHANGED <<clock, since, at, i, changed, round, rem>> /\ pos' = pos + 1
    BY <1>4 DEF Compare
  <2>4. h \in [1 .. Len(table') -> 1 .. Len(table)]
    BY <2>1, TableFacts DEF Exchange
  <2>5. \A p, q \in 1 .. Len(table') : h[p] = h[q] => p = q
    BY <2>1, TableFacts DEF Exchange
  <2> HIDE DEF h
  <2>6. \A p \in 1 .. Len(table') :
          table'[p].cb = table[h[p]].cb /\ table'[p].t = Due(rem'[table'[p].cb])
    <3> TAKE p \in 1 .. Len(table')
    <3>1. h[p] \in 1 .. Len(table) /\ table'[p] = table[h[p]]
      BY <2>1, <2>2, <2>4 DEF h
    <3>2. table[h[p]].t = Due(R(h[p]))
      BY <3>1, TableFacts
    <3> QED BY <2>3, <3>1, <3>2 DEF R
  <2>7. Distinct' /\ KeepsOwnTime'
    BY <2>1, <2>3, <2>4, <2>5, <2>6, MovedOwn
  <2>8. TypeOK'
    BY <1>0, <2>1, <2>3, TableFacts DEF OwnInv, TypeOK
  <2> QED BY <2>1, <2>3, <2>7, <2>8 DEF OwnInv
<1>5. CASE RunEnds
  <2>1. at' = at /\ i \in 1 .. Len(table) /\ \E h : Shrunk(h)
    BY <1>5, RunEndsShrinks
  <2>2. PICK h : Shrunk(h)
    BY <2>1
  <2>3. UNCHANGED <<clock, since, changed, round, pos>> /\ i' = i + 1
    BY <1>5 DEF RunEnds, Called, sortVars
  <2>4. /\ Distinct' /\ KeepsOwnTime' /\ table' \in Seq(Timer) /\ rem' \in [Fn -> Int]
        /\ Len(table') \in Nat /\ Len(table') <= Len(table)
    BY <2>2, <2>3, ShrunkOwn
  <2>5. TypeOK'
    BY <1>0, <2>1, <2>3, <2>4, TableFacts DEF OwnInv, TypeOK
  <2> QED BY <2>1, <2>4, <2>5 DEF OwnInv
<1>6. CASE RunRepeats \/ \E ticks \in Interval : RunChanges(ticks)
  <2>1. /\ at = "loop" /\ at' = "loop" /\ changed' = TRUE /\ i \in 1 .. Len(table)
        /\ i' = i + 1 /\ UNCHANGED <<clock, since, sortVars>>
    BY <1>6, RunSets
  <2>2. PICK h, ticks : ticks \in Interval /\ Reset(h, ticks)
    BY <1>6, RunSets
  <2>3. /\ Distinct' /\ KeepsOwnTime' /\ table' \in Seq(Timer) /\ rem' \in [Fn -> Int]
        /\ Len(table') \in Nat /\ Len(table') <= Len(table)
    BY <2>1, <2>2, ResetOwn
  <2>4. TypeOK'
    BY <1>0, <2>1, <2>3, TableFacts DEF OwnInv, TypeOK, sortVars
  <2> QED BY <2>1, <2>3, <2>4 DEF OwnInv
<1>7. CASE Nothing \/ Begin \/ NotDue \/ End \/ NextRound \/ SortDone \/ UNCHANGED vars
  <2>1. UNCHANGED <<clock, table, rem>> /\ at' # "trap"
    BY <1>7 DEF Nothing, Begin, NotDue, End, NextRound, SortDone, vars, sortVars, OwnInv
  <2>2. TypeOK'
    <3>1. /\ Len(table) \in Nat /\ Len(table) <= MaxTimers /\ table \in Seq(Timer) /\ rem \in [Fn -> Int]
          /\ clock \in 0 .. Wrap - 1 /\ since \in 0 .. Turn /\ at \in {"idle", "loop", "sort"}
          /\ i \in 1 .. MaxTimers + 1 /\ changed \in BOOLEAN
          /\ round \in 0 .. MaxTimers /\ pos \in 1 .. MaxTimers
      BY TableFacts DEF OwnInv, TypeOK
    <3>2. at' \in {"idle", "loop", "sort", "trap"}
      BY <1>7, <3>1 DEF Nothing, Begin, NotDue, End, NextRound, SortDone, vars
    <3>3. since' \in 0 .. Turn
      BY <1>0, <1>7, <3>1 DEF Nothing, Begin, NotDue, End, NextRound, SortDone, vars
    <3>4. i' \in 1 .. MaxTimers + 1
      BY <1>0, <1>7, <3>1 DEF Nothing, Begin, NotDue, End, NextRound, SortDone, vars
    <3>5. changed' \in BOOLEAN
      BY <1>7, <3>1 DEF Nothing, Begin, NotDue, End, NextRound, SortDone, vars
    <3>6. round' \in 0 .. MaxTimers /\ pos' \in 1 .. MaxTimers
      BY <1>0, <1>7, <3>1 DEF Nothing, Begin, NotDue, End, NextRound, SortDone, vars, sortVars
    <3> QED BY <2>1, <3>1, <3>2, <3>3, <3>4, <3>5, <3>6 DEF TypeOK
  <2> QED BY <2>1, <2>2 DEF OwnInv, Distinct, KeepsOwnTime, Due
<1> QED BY <1>1, <1>2, <1>3, <1>4, <1>5, <1>6, <1>7 DEF Next

(* blt_soft_timer.c:145-157: whatever the callbacks of a pass return, and  *)
(* although the loop goes on over a table they delete from, each timer is  *)
(* set to the time its own callback asked for.  A callback does not delete *)
(* its own timer.                                                          *)
THEOREM EachKeepsItsTime ==
  ASSUME ~SelfDelete PROVE Spec => []TimerInv
<1>1. Init => OwnInv
  BY OwnInit
<1>2. OwnInv /\ [Next]_vars => OwnInv'
  BY OwnStep
<1>3. OwnInv => TimerInv
  BY DEF OwnInv, TimerInv
<1> QED BY <1>1, <1>2, <1>3, PTL DEF Spec

(* blt_soft_timer_sort (blt_soft_timer.c:36-44) loses no timer, doubles    *)
(* none and leaves each its time: it leaves the entries that it found.     *)
Entries == {table[k] : k \in DOMAIN table}

THEOREM SortKeepsEntries ==
  ASSUME ~SelfDelete
  PROVE  Spec => [][at = "sort" => Entries' = Entries /\ Len(table') = Len(table)]_vars
<1>1. Init => OwnInv
  BY OwnInit
<1>2. OwnInv /\ [Next]_vars => OwnInv'
  BY OwnStep
<1>3. OwnInv /\ [Next]_vars => [at = "sort" => Entries' = Entries /\ Len(table') = Len(table)]_vars
  <2> SUFFICES ASSUME OwnInv, Next, at = "sort"
               PROVE  Entries' = Entries /\ Len(table') = Len(table)
    OBVIOUS
  <2>1. CASE Compare
    <3>1. /\ pos \in 1 .. Len(table) /\ pos + 1 \in 1 .. Len(table)
          /\ DOMAIN table' = 1 .. Len(table) /\ DOMAIN table = 1 .. Len(table) /\ Len(table') = Len(table)
      BY <2>1, CompareMoves, TableFacts
    <3>2. PICK swap \in BOOLEAN :
            \A p \in 1 .. Len(table) : table'[p] = table[Exchange(pos, swap)[p]]
      BY <2>1, CompareMoves
    <3> DEFINE h == Exchange(pos, swap)
    <3>3. \A p \in 1 .. Len(table) : h[p] \in 1 .. Len(table) /\ h[h[p]] = p
      BY <3>1 DEF Exchange
    <3> HIDE DEF h
    <3>4. \A p \in 1 .. Len(table) : table'[p] = table[h[p]] /\ table[p] = table'[h[p]]
      BY <3>2, <3>3 DEF h
    <3> QED BY <3>1, <3>3, <3>4 DEF Entries
  <2>2. CASE NextRound \/ SortDone
    BY <2>2 DEF NextRound, SortDone, Entries
  <2>3. Compare \/ NextRound \/ SortDone
    BY DEF Next, Tick, Nothing, Begin, NotDue, RunEnds, RunRepeats, RunChanges, Called, End, Delete, Add
  <2> QED BY <2>1, <2>2, <2>3
<1> QED BY <1>1, <1>2, <1>3, PTL DEF Spec

-----------------------------------------------------------------------------
(* As many turns as the table has entries fit into the time for which a    *)
(* late timer counts as due, four and 4 s less 256 us in the code; an      *)
(* interval and that time fit into the quarter of the clock in which       *)
(* TIME_COMPARE_BIG orders two times (2^30 ticks, 67 s at 16 MHz).         *)
InTime == MaxTimers * Turn <= Post - Pre
Near == \A ticks \in Interval : ticks + Post - Pre <= Wrap \div 4

LEMMA FloorFacts ==
  /\ \A p \in 1 .. MaxTimers : Floor(p) \in Int /\ Floor(p) <= 1
  /\ \A p \in 1 .. MaxTimers, q \in 1 .. MaxTimers :
       (p <= q => Floor(p) <= Floor(q)) /\ (p + 1 <= q => Floor(p) <= Floor(q) - Turn)
  /\ InTime => \A p \in 1 .. MaxTimers : Pre - Post < Floor(p) - Turn
<1>0. MaxTimers \in Nat \ {0} /\ Turn \in Nat \ {0} /\ Pre \in Nat /\ Post \in Nat
  BY SoftTimerAssumption
<1>1. \A x, y \in Int : x <= y => Turn * x <= Turn * y
  <2> TAKE x, y \in Int
  <2> HAVE x <= y
  <2>1. y - x \in Nat
    OBVIOUS
  <2>2. Turn * (y - x) >= 0
    BY <1>0, <2>1
  <2>3. Turn * (y - x) = Turn * y - Turn * x
    BY <1>0
  <2>4. Turn * x \in Int /\ Turn * y \in Int
    BY <1>0
  <2> QED BY <2>2, <2>3, <2>4
<1>2. ASSUME NEW p \in 1 .. MaxTimers PROVE Floor(p) \in Int /\ Floor(p) <= 1
  <2>1. MaxTimers - p \in Int /\ Turn * (MaxTimers - p) \in Int /\ Turn * 0 <= Turn * (MaxTimers - p)
    BY <1>0, <1>1
  <2> QED BY <1>0, <2>1 DEF Floor
<1>3. ASSUME NEW p \in 1 .. MaxTimers, NEW q \in 1 .. MaxTimers
      PROVE  (p <= q => Floor(p) <= Floor(q)) /\ (p + 1 <= q => Floor(p) <= Floor(q) - Turn)
  <2> DEFINE x == MaxTimers - p
             y == MaxTimers - q
  <2>1. x \in Int /\ y \in Int /\ y + 1 \in Int /\ (p <= q => y <= x) /\ (p + 1 <= q => y + 1 <= x)
    BY <1>0
  <2>2. Floor(p) = 1 - Turn * x /\ Floor(q) = 1 - Turn * y
    BY DEF Floor
  <2> HIDE DEF x, y
  <2>3. Turn * (y + 1) = Turn * y + Turn
    BY <1>0, <2>1
  <2>4. Turn * x \in Int /\ Turn * y \in Int
    BY <1>0, <2>1
  <2>5. (y <= x => Turn * y <= Turn * x) /\ (y + 1 <= x => Turn * (y + 1) <= Turn * x)
    BY <1>1, <2>1
  <2> QED BY <1>0, <2>1, <2>2, <2>3, <2>4, <2>5
<1>4. ASSUME InTime, NEW p \in 1 .. MaxTimers PROVE Pre - Post < Floor(p) - Turn
  <2> DEFINE x == MaxTimers - p
             y == MaxTimers - 1
  <2>1. x \in Int /\ y \in Int /\ x <= y
    BY <1>0
  <2>2. Floor(p) = 1 - Turn * x
    BY DEF Floor
  <2>3. Turn * y = MaxTimers * Turn - Turn
    BY <1>0
  <2> HIDE DEF x, y
  <2>4. Turn * x \in Int /\ MaxTimers * Turn \in Int /\ Turn * y \in Int /\ Turn * x <= Turn * y
    BY <1>0, <1>1, <2>1
  <2>5. MaxTimers * Turn <= Post - Pre
    BY <1>4 DEF InTime
  <2> QED BY <1>0, <2>2, <2>3, <2>4, <2>5
<1> QED BY <1>2, <1>3, <1>4

(* No timer is so late that it would count as one that is far away.        *)
LEMMA TimeFacts ==
  ASSUME OwnInv, LateInv, InTime
  PROVE  /\ \A p \in 1 .. Len(table) :
              /\ p \in 1 .. MaxTimers /\ R(p) \in Int
              /\ Pre - Post < R(p) /\ R(p) + Post - Pre <= Wrap \div 4
              /\ Expired(table[p].t) <=> R(p) <= Pre
         /\ \A p, q \in 1 .. Len(table) :
              TimeCompareBig(table[p].t, table[q].t) <=> R(p) >= R(q)
<1>0. /\ Pre \in Nat /\ Post \in Nat /\ Turn \in Nat \ {0} /\ since \in 0 .. Turn
      /\ clock \in Int /\ i \in Int
  BY SoftTimerAssumption, TableFacts DEF OwnInv, TypeOK
<1>1. ASSUME NEW p \in 1 .. Len(table)
      PROVE  /\ p \in 1 .. MaxTimers /\ R(p) \in Int
             /\ Pre - Post < R(p) /\ R(p) + Post - Pre <= Wrap \div 4
             /\ table[p].t = (clock + R(p)) % Wrap
  <2>1. p \in 1 .. MaxTimers /\ R(p) \in Int /\ p \in DOMAIN table
        /\ table[p].t = (clock + R(p)) % Wrap
    BY TableFacts DEF Due
  <2>2. Floor(p) \in Int /\ Floor(p) <= 1 /\ Pre - Post < Floor(p) - Turn
    BY <2>1, FloorFacts
  <2>3. R(p) + Post - Pre <= Wrap \div 4
    BY <2>1 DEF LateInv, Soon
  <2>4. R(p) >= Floor(p) - Turn
    <3>1. CASE at = "loop"
      <4>1. R(p) >= Floor(p) \/ R(p) >= IF p < i THEN 1 ELSE Floor(p) - Turn
        BY <2>1, <3>1 DEF LateInv, Walked
      <4> QED BY <1>0, <2>1, <2>2, <4>1
    <3>2. CASE at # "loop"
      <4>1. R(p) >= Floor(p) - since
        BY <2>1, <3>2 DEF LateInv, Waited
      <4> QED BY <1>0, <2>1, <2>2, <4>1
    <3> QED BY <3>1, <3>2
  <2> QED BY <1>0, <2>1, <2>2, <2>3, <2>4
<1>2. ASSUME NEW p \in 1 .. Len(table) PROVE Expired(table[p].t) <=> R(p) <= Pre
  BY <1>0, <1>1, ExpiredIs DEF Expired
<1>3. ASSUME NEW p \in 1 .. Len(table), NEW q \in 1 .. Len(table)
      PROVE  TimeCompareBig(table[p].t, table[q].t) <=> R(p) >= R(q)
  <2>1. TimeCompareBig((clock + R(p)) % Wrap, (clock + R(q)) % Wrap) <=> R(p) >= R(q)
    BY <1>0, <1>1, CompareIs
  <2> QED BY <1>1, <2>1
<1> QED BY <1>1, <1>2, <1>3

-----------------------------------------------------------------------------
(* LateInv of the next state, outside the loop and in it.                  *)
LEMMA LateOutside ==
  ASSUME table' \in Seq(Timer), at' # "loop",
         \A p \in 1 .. Len(table') :
            /\ rem'[table'[p].cb] >= Floor(p) - since'
            /\ rem'[table'[p].cb] + Post - Pre <= Wrap \div 4
  PROVE  LateInv'
<1>1. DOMAIN table' = 1 .. Len(table')
  OBVIOUS
<1> QED BY <1>1 DEF LateInv, Soon, Waited, R, Floor

LEMMA LateInside ==
  ASSUME table' \in Seq(Timer), at' = "loop", since' = 0,
         \A p \in 1 .. Len(table') : rem'[table'[p].cb] + Post - Pre <= Wrap \div 4,
         \/ \A p \in 1 .. Len(table') : rem'[table'[p].cb] >= Floor(p)
         \/ \A p \in 1 .. Len(table') : rem'[table'[p].cb] >= IF p < i' THEN 1 ELSE Floor(p) - Turn
  PROVE  LateInv'
<1>1. DOMAIN table' = 1 .. Len(table')
  OBVIOUS
<1>2. Soon'
  BY <1>1 DEF Soon, R
<1>3. Walked'
  BY <1>1 DEF Walked, R, Floor
<1> QED BY <1>2, <1>3 DEF LateInv

LEMMA LateStep ==
  ASSUME OwnInv, LateInv, SortInv, OwnInv', ~SelfDelete, InTime, Near, [Next]_vars
  PROVE  LateInv'
<1>0. /\ MaxTimers \in Nat \ {0} /\ Turn \in Nat \ {0} /\ Wrap \in Nat \ {0} /\ Wrap \div 4 \in Int
      /\ Interval \subseteq 1 .. Wrap - 1 /\ Pre \in Nat /\ Post \in Nat
      /\ since \in 0 .. Turn /\ since \in Int /\ i \in Int /\ Len(table) \in Nat /\ Len(table) <= MaxTimers
      /\ DOMAIN table = 1 .. Len(table) /\ table \in Seq(Timer) /\ table' \in Seq(Timer)
  BY SoftTimerAssumption, TableFacts DEF OwnInv, TypeOK
<1>1. ASSUME NEW p \in 1 .. Len(table)
      PROVE  /\ p \in 1 .. MaxTimers /\ R(p) \in Int /\ R(p) + Post - Pre <= Wrap \div 4
             /\ Expired(table[p].t) <=> R(p) <= Pre
  BY TimeFacts
<1>2. ASSUME NEW p \in 1 .. MaxTimers PROVE Floor(p) \in Int /\ Floor(p) <= 1
  BY FloorFacts
<1>3. ASSUME NEW p \in 1 .. MaxTimers, NEW q \in 1 .. MaxTimers
      PROVE  (p <= q => Floor(p) <= Floor(q)) /\ (p + 1 <= q => Floor(p) <= Floor(q) - Turn)
  BY FloorFacts
<1>4. ASSUME at # "loop", NEW p \in 1 .. Len(table) PROVE R(p) >= Floor(p) - since
  BY <1>0, <1>4 DEF LateInv, Waited
<1>5. ASSUME at = "loop"
      PROVE  /\ since = 0
             /\ \/ \A p \in 1 .. Len(table) : R(p) >= Floor(p)
                \/ \A p \in 1 .. Len(table) : R(p) >= IF p < i THEN 1 ELSE Floor(p) - Turn
  BY <1>0, <1>5 DEF LateInv, Walked
<1>6. CASE Tick
  <2>1. at' # "loop" /\ at # "loop" /\ table' = table /\ since' = since + 1
    BY <1>6 DEF Tick
  <2>2. ASSUME NEW p \in 1 .. Len(table)
        PROVE  rem'[table[p].cb] >= Floor(p) - since' /\ rem'[table[p].cb] + Post - Pre <= Wrap \div 4
    <3>1. table[p].cb \in Fn /\ table[p].cb \in Running
      BY TableFacts DEF Running
    <3>2. rem'[table[p].cb] = R(p) - 1
      BY <1>6, <3>1 DEF Tick, R
    <3>3. R(p) >= Floor(p) - since /\ R(p) \in Int /\ R(p) + Post - Pre <= Wrap \div 4 /\ Floor(p) \in Int
      BY <1>1, <1>2, <1>4, <2>1
    <3> QED BY <1>0, <2>1, <3>2, <3>3
  <2> QED BY <1>0, <2>1, <2>2, LateOutside
<1>7. ASSUME NEW f \in Fn, NEW ticks \in Interval, Add(f, ticks) PROVE LateInv'
  <2>1. at' # "loop" /\ at # "loop" /\ since' = since
    BY <1>7 DEF Add
  <2>2. /\ Len(table') = Len(table) + 1 /\ Len(table') <= MaxTimers
        /\ \A p \in 1 .. Len(table) : rem'[table'[p].cb] = R(p)
        /\ rem'[table'[Len(table) + 1].cb] = ticks
    BY <1>7, AddMoves
  <2>3. ASSUME NEW p \in 1 .. Len(table')
        PROVE  rem'[table'[p].cb] >= Floor(p) - since' /\ rem'[table'[p].cb] + Post - Pre <= Wrap \div 4
    <3>1. CASE p \in 1 .. Len(table)
      BY <1>1, <1>4, <2>1, <2>2, <3>1
    <3>2. CASE p \notin 1 .. Len(table)
      <4>1. p = Len(table) + 1 /\ p \in 1 .. MaxTimers
        BY <1>0, <2>2, <3>2
      <4>2. ticks \in Int /\ ticks >= 1 /\ ticks + Post - Pre <= Wrap \div 4
        BY <1>0 DEF Near
      <4>3. Floor(p) \in Int /\ Floor(p) <= 1
        BY <1>2, <4>1
      <4> QED BY <1>0, <2>1, <2>2, <4>1, <4>2, <4>3
    <3> QED BY <3>1, <3>2
  <2> QED BY <1>0, <2>1, <2>3, LateOutside
<1>8. ASSUME NEW f \in Fn, Delete(f) PROVE LateInv'
  <2>1. PICK h : Shrunk(h)
    BY <1>8, DeleteShrinks
  <2>2. at' # "loop" /\ at # "loop" /\ since' = since
    BY <1>8 DEF Delete
  <2>3. Len(table') \in Nat /\ Len(table') <= Len(table)
    BY <1>0, <2>1, PicksFewer DEF Shrunk
  <2>4. ASSUME NEW p \in 1 .. Len(table')
        PROVE  rem'[table'[p].cb] >= Floor(p) - since' /\ rem'[table'[p].cb] + Post - Pre <= Wrap \div 4
    <3>1. h[p] \in 1 .. Len(table) /\ p <= h[p] /\ rem'[table'[p].cb] = R(h[p]) /\ p \in 1 .. MaxTimers
      BY <1>0, <2>1, <2>3 DEF Shrunk, Picks
    <3>2. Floor(p) <= Floor(h[p]) /\ Floor(p) \in Int /\ Floor(h[p]) \in Int /\ R(h[p]) \in Int
      BY <1>1, <1>2, <1>3, <3>1
    <3>3. R(h[p]) >= Floor(h[p]) - since /\ R(h[p]) + Post - Pre <= Wrap \div 4
      BY <1>1, <1>4, <2>2, <3>1
    <3> QED BY <1>0, <2>2, <3>1, <3>2, <3>3
  <2> QED BY <1>0, <2>2, <2>4, LateOutside
<1>9. CASE Compare
  <2>1. /\ at = "sort" /\ at' = "sort" /\ since' = since /\ rem' = rem
        /\ pos \in 1 .. Len(table) /\ pos + 1 \in 1 .. Len(table) /\ Len(table') = Len(table)
    BY <1>9, CompareMoves DEF Compare
  <2>2. PICK swap \in BOOLEAN :
          /\ swap <=> TimeCompareBig(table[pos].t, table[pos + 1].t)
          /\ \A p \in 1 .. Len(table) : table'[p] = table[Exchange(pos, swap)[p]]
    BY <1>9, CompareMoves
  <2>3. swap => R(pos) >= R(pos + 1)
    BY <2>1, <2>2, TimeFacts
  <2>4. ASSUME NEW p \in 1 .. Len(table)
        PROVE  rem'[table'[p].cb] >= Floor(p) - since /\ rem'[table'[p].cb] + Post - Pre <= Wrap \div 4
    <3> DEFINE q == Exchange(pos, swap)[p]
    <3>1. /\ q \in 1 .. Len(table) /\ q = (IF swap /\ p = pos THEN pos + 1 ELSE IF swap /\ p = pos + 1 THEN pos ELSE p)
      BY <1>0, <2>1 DEF Exchange
    <3>2. rem'[table'[p].cb] = R(q)
      BY <2>1, <2>2 DEF R
    <3> HIDE DEF q
    <3>3. /\ R(q) \in Int /\ R(q) + Post - Pre <= Wrap \div 4 /\ R(q) >= Floor(q) - since
          /\ p \in 1 .. MaxTimers /\ q \in 1 .. MaxTimers /\ Floor(p) \in Int /\ Floor(q) \in Int
      BY <1>0, <1>1, <1>2, <1>4, <2>1, <3>1
    <3>4. CASE p <= q
      <4>1. Floor(p) <= Floor(q)
        BY <1>3, <3>3, <3>4
      <4> QED BY <1>0, <3>2, <3>3, <4>1
    <3>5. CASE ~(p <= q)
      <4>1. swap /\ p = pos + 1 /\ q = pos
        BY <2>1, <3>1, <3>5
      <4>2. R(pos) >= R(pos + 1) /\ R(pos) \in Int /\ R(pos + 1) \in Int /\ R(pos + 1) >= Floor(pos + 1) - since
        BY <1>1, <1>4, <2>1, <2>3, <4>1
      <4> QED BY <1>0, <3>2, <3>3, <4>1, <4>2
    <3> QED BY <3>4, <3>5
  <2> QED BY <1>0, <2>1, <2>4, LateOutside
<1>10. CASE RunEnds
  <2>1. /\ at = "loop" /\ at' = "loop" /\ since' = 0 /\ i \in 1 .. Len(table)
    BY <1>5, <1>10, RunEndsShrinks DEF RunEnds, Called
  <2>2. PICK h : /\ Shrunk(h)
                 /\ \A p \in 1 .. Len(table') : IF p < i THEN h[p] = p ELSE p + 1 <= h[p]
    BY <1>10, RunEndsShrinks
  <2>3. Len(table') \in Nat /\ Len(table') <= Len(table)
    BY <1>0, <2>2, PicksFewer DEF Shrunk
  <2>4. ASSUME NEW p \in 1 .. Len(table')
        PROVE  rem'[table'[p].cb] >= Floor(p) /\ rem'[table'[p].cb] + Post - Pre <= Wrap \div 4
    <3>1. /\ h[p] \in 1 .. Len(table) /\ p <= h[p] /\ rem'[table'[p].cb] = R(h[p])
          /\ p \in 1 .. MaxTimers /\ h[p] \in 1 .. MaxTimers
      BY <1>0, <2>2, <2>3 DEF Shrunk, Picks
    <3>2. /\ Floor(p) <= Floor(h[p]) /\ Floor(p) \in Int /\ Floor(h[p]) \in Int /\ Floor(p) <= 1
          /\ R(h[p]) \in Int /\ R(h[p]) + Post - Pre <= Wrap \div 4
      BY <1>1, <1>2, <1>3, <3>1
    <3>3. R(h[p]) >= Floor(h[p]) \/ R(h[p]) >= IF h[p] < i THEN 1 ELSE Floor(h[p]) - Turn
      BY <1>5, <2>1, <3>1
    <3>4. R(h[p]) >= Floor(p)
      <4>1. CASE p < i
        BY <1>0, <2>2, <3>1, <3>2, <3>3, <4>1
      <4>2. CASE ~(p < i)
        <5>1. p + 1 <= h[p] /\ ~(h[p] < i)
          BY <1>0, <2>2, <3>1, <4>2
        <5>2. Floor(p) <= Floor(h[p]) - Turn
          BY <1>3, <3>1, <5>1
        <5> QED BY <1>0, <3>2, <3>3, <5>1, <5>2
      <4> QED BY <4>1, <4>2
    <3> QED BY <3>1, <3>2, <3>4
  <2> QED BY <1>0, <2>1, <2>4, LateInside
<1>11. CASE RunRepeats \/ \E ticks \in Interval : RunChanges(ticks)
  <2>1. at = "loop" /\ at' = "loop" /\ i \in 1 .. Len(table) /\ i' = i + 1 /\ since' = 0
    BY <1>5, <1>11, RunSets
  <2>2. PICK h, ticks : ticks \in Interval /\ Reset(h, ticks)
    BY <1>11, RunSets
  <2>3. ticks \in Int /\ ticks >= 1 /\ ticks + Post - Pre <= Wrap \div 4
    BY <1>0, <2>2 DEF Near
  <2>4. Len(table') \in Nat /\ Len(table') <= Len(table)
    <3>1. Len(table') \in i .. Len(table)
      BY <2>2 DEF Reset
    <3> QED BY <2>1, <3>1
  <2>5. ASSUME NEW p \in 1 .. Len(table')
        PROVE  /\ h[p] \in 1 .. Len(table) /\ p <= h[p] /\ (p <= i => h[p] = p)
               /\ p \in 1 .. MaxTimers /\ h[p] \in 1 .. MaxTimers
               /\ rem'[table'[p].cb] = (IF p = i THEN ticks ELSE R(h[p]))
               /\ Floor(p) <= Floor(h[p]) /\ Floor(p) \in Int /\ Floor(h[p]) \in Int /\ Floor(p) <= 1
               /\ R(h[p]) \in Int /\ R(h[p]) + Post - Pre <= Wrap \div 4
    <3>1. /\ h[p] \in 1 .. Len(table) /\ p <= h[p] /\ p \in 1 .. MaxTimers /\ h[p] \in 1 .. MaxTimers
          /\ rem'[table'[p].cb] = (IF p = i THEN ticks ELSE R(h[p]))
      BY <1>0, <2>2, <2>4 DEF Reset
    <3>2. p <= i => h[p] = p
      BY <2>1, <2>2 DEF Reset
    <3> QED BY <1>1, <1>2, <1>3, <3>1, <3>2
  <2>6. \A p \in 1 .. Len(table') : rem'[table'[p].cb] + Post - Pre <= Wrap \div 4
    BY <2>3, <2>5
  <2>7. CASE \A p \in 1 .. Len(table) : R(p) >= Floor(p)
    <3>1. ASSUME NEW p \in 1 .. Len(table') PROVE rem'[table'[p].cb] >= Floor(p)
      <4>1. R(h[p]) >= Floor(h[p])
        BY <2>5, <2>7
      <4> QED BY <2>3, <2>5, <4>1
    <3> QED BY <1>0, <2>1, <2>6, <3>1, LateInside
  <2>8. CASE \A p \in 1 .. Len(table) : R(p) >= IF p < i THEN 1 ELSE Floor(p) - Turn
    <3>1. ASSUME NEW p \in 1 .. Len(table')
          PROVE  rem'[table'[p].cb] >= IF p < i' THEN 1 ELSE Floor(p) - Turn
      <4>1. R(h[p]) >= IF h[p] < i THEN 1 ELSE Floor(h[p]) - Turn
        BY <2>5, <2>8
      <4>2. CASE p < i
        BY <1>0, <2>1, <2>5, <4>1, <4>2
      <4>3. CASE p = i
        BY <2>1, <2>3, <2>5, <4>3
      <4>4. CASE p > i
        <5>1. ~(h[p] < i) /\ ~(p < i')
          BY <1>0, <2>1, <2>5, <4>4
        <5>2. rem'[table'[p].cb] = R(h[p])
          BY <1>0, <2>5, <4>4
        <5> QED BY <1>0, <2>5, <4>1, <5>1, <5>2
      <4> QED BY <1>0, <4>2, <4>3, <4>4
    <3> QED BY <1>0, <2>1, <2>6, <3>1, LateInside
  <2> QED BY <1>5, <2>1, <2>7, <2>8
<1>12. CASE Nothing
  <2>1. at = "idle" /\ at' # "loop" /\ table' = table /\ rem' = rem /\ since' = 0 /\ ~FirstDue
    BY <1>12 DEF Nothing
  <2>2. ASSUME NEW p \in 1 .. Len(table)
        PROVE  rem'[table'[p].cb] >= Floor(p) - since' /\ rem'[table'[p].cb] + Post - Pre <= Wrap \div 4
    <3>1. table # <<>> /\ 1 \in 1 .. Len(table) /\ 1 <= p /\ p > 0
      BY <1>0
    <3>2. ~(R(1) <= Pre)
      BY <1>1, <2>1, <3>1 DEF FirstDue
    <3>3. R(1) <= R(p)
      BY <1>0, <2>1, <3>1 DEF SortInv, Ordered
    <3>4. rem'[table'[p].cb] = R(p)
      BY <2>1 DEF R
    <3>5. R(1) \in Int /\ R(p) \in Int /\ R(p) + Post - Pre <= Wrap \div 4 /\ Floor(p) \in Int /\ Floor(p) <= 1
      BY <1>1, <1>2, <3>1
    <3> QED BY <1>0, <2>1, <3>2, <3>3, <3>4, <3>5
  <2> QED BY <1>0, <2>1, <2>2, LateOutside
<1>13. CASE Begin
  <2>1. at = "idle" /\ at' = "loop" /\ table' = table /\ rem' = rem /\ since' = 0 /\ i' = 1
    BY <1>13 DEF Begin
  <2>2. ASSUME NEW p \in 1 .. Len(table)
        PROVE  /\ rem'[table'[p].cb] >= IF p < i' THEN 1 ELSE Floor(p) - Turn
               /\ rem'[table'[p].cb] + Post - Pre <= Wrap \div 4
    <3>1. rem'[table'[p].cb] = R(p)
      BY <2>1 DEF R
    <3>2. R(p) \in Int /\ R(p) + Post - Pre <= Wrap \div 4 /\ Floor(p) \in Int /\ R(p) >= Floor(p) - since
      BY <1>1, <1>2, <1>4, <2>1
    <3> QED BY <1>0, <2>1, <3>1, <3>2
  <2> QED BY <1>0, <2>1, <2>2, LateInside
<1>14. CASE NotDue
  <2>1. /\ at = "loop" /\ at' = "loop" /\ table' = table /\ rem' = rem /\ since' = 0 /\ i' = i + 1
        /\ i <= Len(table) /\ ~Expired(table[i].t)
    BY <1>5, <1>14 DEF NotDue
  <2>2. i \in 1 .. Len(table)
    BY <1>0, <2>1 DEF OwnInv, TypeOK
  <2>3. R(i) \in Int /\ R(i) >= 1
    BY <1>0, <1>1, <2>1, <2>2
  <2>4. \A p \in 1 .. Len(table) : rem'[table'[p].cb] = R(p)
    BY <2>1 DEF R
  <2>5. \A p \in 1 .. Len(table') : rem'[table'[p].cb] + Post - Pre <= Wrap \div 4
    BY <1>1, <2>1, <2>4
  <2>6. CASE \A p \in 1 .. Len(table) : R(p) >= Floor(p)
    <3>1. \A p \in 1 .. Len(table') : rem'[table'[p].cb] >= Floor(p)
      BY <2>1, <2>4, <2>6
    <3> QED BY <1>0, <2>1, <2>5, <3>1, LateInside
  <2>7. CASE \A p \in 1 .. Len(table) : R(p) >= IF p < i THEN 1 ELSE Floor(p) - Turn
    <3>1. \A p \in 1 .. Len(table') : rem'[table'[p].cb] >= IF p < i' THEN 1 ELSE Floor(p) - Turn
      BY <1>0, <2>1, <2>3, <2>4, <2>7
    <3> QED BY <1>0, <2>1, <2>5, <3>1, LateInside
  <2> QED BY <1>5, <2>1, <2>6, <2>7
<1>15. CASE End
  <2>1. at = "loop" /\ at' # "loop" /\ table' = table /\ rem' = rem /\ since' = since /\ since = 0 /\ i > Len(table)
    BY <1>5, <1>15 DEF End
  <2>2. ASSUME NEW p \in 1 .. Len(table)
        PROVE  rem'[table'[p].cb] >= Floor(p) - since' /\ rem'[table'[p].cb] + Post - Pre <= Wrap \div 4
    <3>1. rem'[table'[p].cb] = R(p)
      BY <2>1 DEF R
    <3>2. R(p) \in Int /\ R(p) + Post - Pre <= Wrap \div 4 /\ Floor(p) \in Int /\ Floor(p) <= 1 /\ p < i
      BY <1>0, <1>1, <1>2, <2>1
    <3>3. R(p) >= Floor(p) \/ R(p) >= 1
      BY <1>5, <2>1, <3>2
    <3> QED BY <2>1, <3>1, <3>2, <3>3
  <2> QED BY <1>0, <2>1, <2>2, LateOutside
<1>16. CASE NextRound \/ SortDone
  <2>1. at # "loop" /\ at' # "loop" /\ table' = table /\ rem' = rem /\ since' = since
    BY <1>16 DEF NextRound, SortDone
  <2>2. ASSUME NEW p \in 1 .. Len(table)
        PROVE  rem'[table'[p].cb] >= Floor(p) - since' /\ rem'[table'[p].cb] + Post - Pre <= Wrap \div 4
    BY <1>1, <1>4, <2>1 DEF R
  <2> QED BY <1>0, <2>1, <2>2, LateOutside
<1>17. CASE UNCHANGED vars
  BY <1>17 DEF vars, LateInv, Soon, Walked, Waited, R
<1> QED BY <1>6, <1>7, <1>8, <1>9, <1>10, <1>11, <1>12, <1>13, <1>14, <1>15, <1>16, <1>17 DEF Next

-----------------------------------------------------------------------------
(* The bubble sort, and the walk that keeps what is in order in order.     *)
LEMMA OrderedNext ==
  ASSUME table' \in Seq(Timer), NEW from \in Int,
         \A p, q \in 1 .. Len(table') :
            p <= q /\ q > from => rem'[table'[p].cb] <= rem'[table'[q].cb]
  PROVE  Ordered(from)'
<1>1. DOMAIN table' = 1 .. Len(table')
  OBVIOUS
<1> QED BY <1>1 DEF Ordered, R

LEMMA ShrunkOrdered ==
  ASSUME OwnInv, Ordered(0), NEW h, Shrunk(h)
  PROVE  Ordered(0)'
<1>1. table \in Seq(Timer) /\ Len(table) \in Nat /\ table' \in Seq(Timer) /\ Len(table') \in Nat
  BY TableFacts DEF Shrunk
<1>2. ASSUME NEW p \in 1 .. Len(table'), NEW q \in 1 .. Len(table'), p <= q
      PROVE  rem'[table'[p].cb] <= rem'[table'[q].cb]
  <2>1. /\ h[p] \in 1 .. Len(table) /\ h[q] \in 1 .. Len(table) /\ (p < q => h[p] < h[q])
        /\ rem'[table'[p].cb] = R(h[p]) /\ rem'[table'[q].cb] = R(h[q])
    BY DEF Shrunk, Picks
  <2>2. h[p] <= h[q] /\ h[q] > 0 /\ h[p] \in DOMAIN table /\ h[q] \in DOMAIN table
    BY <1>1, <1>2, <2>1
  <2> QED BY <2>1, <2>2 DEF Ordered
<1> QED BY <1>1, <1>2, OrderedNext

LEMMA SortStep ==
  ASSUME OwnInv, LateInv, SortInv, OwnInv', ~SelfDelete, InTime, [Next]_vars
  PROVE  SortInv'
<1>0. /\ Len(table) \in Nat /\ DOMAIN table = 1 .. Len(table)
      /\ table \in Seq(Timer) /\ table' \in Seq(Timer) /\ DOMAIN table' = 1 .. Len(table')
      /\ round \in Nat /\ pos \in Nat \ {0}
  BY TableFacts DEF OwnInv, TypeOK
<1>1. ASSUME NEW p \in 1 .. Len(table) PROVE R(p) \in Int
  BY TableFacts
<1>2. CASE Tick
  <2>1. at = "idle" /\ at' = "idle" /\ table' = table /\ round' = round /\ pos' = pos
    BY <1>2 DEF Tick, sortVars
  <2>2. ASSUME NEW p \in 1 .. Len(table) PROVE rem'[table[p].cb] = R(p) - 1
    <3>1. table[p].cb \in Fn /\ table[p].cb \in Running
      BY TableFacts DEF Running
    <3> QED BY <1>2, <3>1 DEF Tick, R
  <2>3. ASSUME NEW p \in 1 .. Len(table), NEW q \in 1 .. Len(table), p <= q
        PROVE  rem'[table'[p].cb] <= rem'[table'[q].cb]
    <3>1. R(p) <= R(q)
      BY <1>0, <2>1, <2>3 DEF SortInv, Ordered
    <3> QED BY <1>1, <2>1, <2>2, <3>1
  <2>4. Ordered(0)'
    BY <1>0, <2>1, <2>3, OrderedNext
  <2> QED BY <2>1, <2>4 DEF SortInv
<1>3. ASSUME NEW f \in Fn, NEW ticks \in Interval, Add(f, ticks) PROVE SortInv'
  <2>1. at = "idle" /\ at' = "sort" /\ round' = round /\ pos' = pos
    BY <1>3 DEF Add, sortVars
  <2>2. Len(table') = Len(table) + 1
    BY <1>3, AddMoves
  <2>3. round' = 0 /\ pos' = 1
    BY <2>1 DEF SortInv
  <2>4. \A p \in 1 .. 1 : rem'[table'[p].cb] <= rem'[table'[1].cb]
    <3>1. 1 \in 1 .. Len(table')
      BY <1>0, <2>2
    <3>2. table'[1] \in Timer
      BY <1>0, <3>1
    <3>3. rem' \in [Fn -> Int]
      BY DEF OwnInv, TypeOK
    <3>4. rem'[table'[1].cb] \in Int
      BY <3>2, <3>3 DEF Timer
    <3> QED BY <3>4
  <2>5. Ordered(Len(table) - round)'
    BY <1>0, <2>2, <2>3 DEF Ordered
  <2> QED BY <1>0, <2>1, <2>2, <2>3, <2>4, <2>5 DEF SortInv, R
<1>4. ASSUME NEW f \in Fn, Delete(f) PROVE SortInv'
  <2>1. PICK h : Shrunk(h)
    BY <1>4, DeleteShrinks
  <2>2. at = "idle" /\ at' = "idle" /\ round' = round /\ pos' = pos
    BY <1>4 DEF Delete, sortVars
  <2>3. Ordered(0)'
    BY <2>1, <2>2, ShrunkOrdered DEF SortInv
  <2> QED BY <2>2, <2>3 DEF SortInv
<1>5. CASE Compare
  <2>1. /\ at = "sort" /\ at' = "sort" /\ rem' = rem /\ round' = round /\ pos' = pos + 1 /\ pos < Len(table) - round
        /\ pos \in 1 .. Len(table) /\ pos + 1 \in 1 .. Len(table) /\ Len(table') = Len(table)
    BY <1>5, CompareMoves DEF Compare
  <2>2. PICK swap \in BOOLEAN :
          /\ swap <=> TimeCompareBig(table[pos].t, table[pos + 1].t)
          /\ \A p \in 1 .. Len(table) : table'[p] = table[Exchange(pos, swap)[p]]
    BY <1>5, CompareMoves
  <2>3. swap <=> R(pos) >= R(pos + 1)
    BY <2>1, <2>2, TimeFacts
  <2> DEFINE x(p) == IF swap /\ p = pos THEN pos + 1 ELSE IF swap /\ p = pos + 1 THEN pos ELSE p
  <2>4. ASSUME NEW p \in 1 .. Len(table) PROVE x(p) \in 1 .. Len(table) /\ rem'[table'[p].cb] = R(x(p))
    <3>1. x(p) \in 1 .. Len(table) /\ Exchange(pos, swap)[p] = x(p)
      BY <1>0, <2>1 DEF Exchange
    <3> QED BY <2>1, <2>2, <3>1 DEF R
  <2>5. /\ \A p \in 1 .. pos : R(p) <= R(pos)
        /\ \A p, q \in 1 .. Len(table) : p <= q /\ q > Len(table) - round => R(p) <= R(q)
    BY <1>0, <2>1 DEF SortInv, Ordered
  <2>6. ASSUME NEW p \in 1 .. Len(table), NEW q \in 1 .. Len(table), p <= q, q > Len(table) - round
        PROVE  rem'[table'[p].cb] <= rem'[table'[q].cb]
    <3>1. x(q) = q /\ x(p) <= q
      BY <1>0, <2>1, <2>6
    <3>2. rem'[table'[p].cb] = R(x(p)) /\ rem'[table'[q].cb] = R(q) /\ x(p) \in 1 .. Len(table)
      BY <2>4, <3>1
    <3> QED BY <2>5, <2>6, <3>1, <3>2
  <2>7. ASSUME NEW p \in 1 .. pos + 1 PROVE rem'[table'[p].cb] <= rem'[table'[pos + 1].cb]
    <3>1. p \in 1 .. Len(table)
      BY <1>0, <2>1
    <3>2. rem'[table'[p].cb] = R(x(p)) /\ rem'[table'[pos + 1].cb] = R(x(pos + 1)) /\ x(p) \in 1 .. Len(table)
      BY <2>1, <2>4, <3>1
    <3>3. R(pos) \in Int /\ R(pos + 1) \in Int /\ R(p) \in Int
      BY <1>1, <2>1, <3>1
    <3>4. p \in 1 .. pos => R(p) <= R(pos)
      BY <2>5
    <3>5. CASE swap
      <4>1. x(pos + 1) = pos /\ x(p) = (IF p = pos THEN pos + 1 ELSE IF p = pos + 1 THEN pos ELSE p)
        BY <2>1, <3>5
      <4>2. R(pos) >= R(pos + 1)
        BY <2>3, <3>5
      <4>3. CASE p = pos
        BY <3>2, <4>1, <4>2, <4>3
      <4>4. CASE p = pos + 1
        BY <2>1, <3>2, <3>3, <4>1, <4>4
      <4>5. CASE p # pos /\ p # pos + 1
        <5>1. p \in 1 .. pos /\ x(p) = p
          BY <2>1, <4>1, <4>5
        <5> QED BY <3>2, <3>4, <4>1, <5>1
      <4> QED BY <4>3, <4>4, <4>5
    <3>6. CASE ~swap
      <4>1. x(pos + 1) = pos + 1 /\ x(p) = p
        BY <3>6
      <4>2. R(pos) < R(pos + 1)
        BY <2>3, <3>3, <3>6
      <4>3. CASE p = pos + 1
        BY <3>2, <3>3, <4>1, <4>3
      <4>4. CASE p # pos + 1
        <5>1. p \in 1 .. pos
          BY <2>1, <4>4
        <5> QED BY <3>2, <3>3, <3>4, <4>1, <4>2, <5>1
      <4> QED BY <4>3, <4>4
    <3> QED BY <3>5, <3>6
  <2>8. Ordered(Len(table) - round)'
    BY <1>0, <2>1, <2>6 DEF Ordered, R
  <2>9. \A p \in 1 .. pos' : rem'[table'[p].cb] <= rem'[table'[pos'].cb]
    BY <2>1, <2>7
  <2>10. round' < Len(table') /\ pos' <= Len(table') - round'
    BY <1>0, <2>1
  <2> QED BY <2>1, <2>8, <2>9, <2>10 DEF SortInv, R
<1>6. CASE NextRound
  <2>1. /\ at = "sort" /\ at' = "sort" /\ table' = table /\ rem' = rem /\ round' = round + 1 /\ pos' = 1
        /\ pos >= Len(table) - round /\ round < Len(table) - 1
    BY <1>6 DEF NextRound
  <2>2. pos = Len(table) - round /\ \A p \in 1 .. pos : R(p) <= R(pos)
    <3>1. pos <= Len(table) - round /\ \A p \in 1 .. pos : R(p) <= R(pos)
      BY <2>1 DEF SortInv
    <3>2. pos \in Int /\ Len(table) - round \in Int
      BY <1>0
    <3> QED BY <2>1, <3>1, <3>2
  <2> DEFINE n == Len(table)
  <2>7. n \in Nat /\ round \in Nat /\ pos \in Nat /\ pos = n - round
    BY <1>0, <2>2
  <2>3. ASSUME NEW p \in 1 .. Len(table), NEW q \in 1 .. Len(table), p <= q, q > Len(table) - (round + 1)
        PROVE  R(p) <= R(q)
    <3>1. CASE q = pos
      <4>1. p \in 1 .. pos
        BY <2>2, <2>3, <3>1
      <4> QED BY <2>2, <3>1, <4>1
    <3>2. CASE q # pos
      <4>1. q > Len(table) - round
        <5>1. q > n - (round + 1) /\ q \in 1 .. n
          BY <2>3
        <5> HIDE DEF n
        <5>2. q > n - round
          BY <2>7, <3>2, <5>1
        <5> QED BY <5>2 DEF n
      <4> QED BY <1>0, <2>1, <2>3, <4>1 DEF SortInv, Ordered
    <3> QED BY <3>1, <3>2
  <2>4. Ordered(Len(table) - round)'
    BY <1>0, <2>1, <2>3 DEF Ordered, R
  <2>5. \A p \in 1 .. 1 : rem'[table'[p].cb] <= rem'[table'[1].cb]
    <3>1. 1 \in 1 .. Len(table)
      BY <1>0, <2>1
    <3>2. R(1) \in Int
      BY <1>1, <3>1
    <3> QED BY <2>1, <3>2 DEF R
  <2>6. round' < Len(table') /\ pos' <= Len(table') - round'
    BY <1>0, <2>1
  <2> QED BY <2>1, <2>4, <2>5, <2>6 DEF SortInv, R
<1>7. CASE SortDone
  <2>1. /\ at = "sort" /\ at' = "idle" /\ table' = table /\ rem' = rem /\ round' = 0 /\ pos' = 1
        /\ round >= Len(table) - 1
    BY <1>7 DEF SortDone
  <2>2. Len(table) - round = 1
    <3> DEFINE n == Len(table)
    <3>1. round < n /\ round >= n - 1 /\ n \in Nat /\ round \in Nat
      BY <1>0, <2>1 DEF SortInv
    <3> HIDE DEF n
    <3>2. n - round = 1
      BY <3>1
    <3> QED BY <3>2 DEF n
  <2>3. ASSUME NEW p \in 1 .. Len(table), NEW q \in 1 .. Len(table), p <= q
        PROVE  rem'[table'[p].cb] <= rem'[table'[q].cb]
    <3>1. CASE q = 1
      <4>1. p = 1 /\ R(1) \in Int
        BY <1>1, <2>3, <3>1
      <4> QED BY <2>1, <3>1, <4>1 DEF R
    <3>2. CASE q # 1
      <4>1. q > Len(table) - round
        BY <2>2, <3>2
      <4>2. R(p) <= R(q)
        BY <1>0, <2>1, <2>3, <4>1 DEF SortInv, Ordered
      <4> QED BY <2>1, <4>2 DEF R
    <3> QED BY <3>1, <3>2
  <2>4. Ordered(0)'
    BY <1>0, <2>1, <2>3, OrderedNext
  <2> QED BY <2>1, <2>4 DEF SortInv
<1>8. CASE RunEnds
  <2>1. at = "loop" /\ at' = "loop" /\ changed' = changed /\ round' = round /\ pos' = pos /\ \E h : Shrunk(h)
    BY <1>8, RunEndsShrinks DEF RunEnds, Called, sortVars
  <2>2. ~changed => Ordered(0)'
    BY <2>1, ShrunkOrdered DEF SortInv
  <2> QED BY <2>1, <2>2 DEF SortInv
<1>9. CASE RunRepeats \/ \E ticks \in Interval : RunChanges(ticks)
  <2>1. at = "loop" /\ at' = "loop" /\ changed' = TRUE /\ round' = round /\ pos' = pos
    BY <1>9, RunSets DEF sortVars
  <2> QED BY <2>1 DEF SortInv
<1>10. CASE Nothing \/ Begin \/ NotDue \/ UNCHANGED vars
  <2>1. /\ table' = table /\ rem' = rem /\ round' = round /\ pos' = pos
        /\ (at' = at /\ changed' = changed) \/ (at = "idle" /\ at' = "loop")
    BY <1>10 DEF Nothing, Begin, NotDue, vars, sortVars
  <2> QED BY <2>1 DEF SortInv, Ordered, R
<1>11. CASE End
  <2>1. /\ at = "loop" /\ at' = (IF changed /\ table # <<>> THEN "sort" ELSE "idle")
        /\ table' = table /\ rem' = rem /\ round' = round /\ pos' = pos
    BY <1>11 DEF End, sortVars
  <2>2. round' = 0 /\ pos' = 1
    BY <2>1 DEF SortInv
  <2>3. CASE changed /\ table # <<>>
    <3>1. Len(table) > 0 /\ 1 \in 1 .. Len(table)
      BY <1>0, <2>3
    <3>2. R(1) \in Int
      BY <1>1, <3>1
    <3>3. Ordered(Len(table) - round)'
      BY <1>0, <2>1, <2>2 DEF Ordered
    <3> QED BY <1>0, <2>1, <2>2, <2>3, <3>1, <3>2, <3>3 DEF SortInv, R
  <2>4. CASE ~(changed /\ table # <<>>)
    <3>1. Ordered(0)'
      <4>1. CASE ~changed
        BY <2>1, <4>1 DEF SortInv, Ordered, R
      <4>2. CASE table = <<>>
        BY <1>0, <2>1, <4>2 DEF Ordered
      <4> QED BY <2>4, <4>1, <4>2
    <3> QED BY <2>1, <2>2, <2>4, <3>1 DEF SortInv
  <2> QED BY <2>3, <2>4
<1> QED BY <1>2, <1>3, <1>4, <1>5, <1>6, <1>7, <1>8, <1>9, <1>10, <1>11 DEF Next

LEMMA TableInit == Init => TableInv
<1> SUFFICES ASSUME Init PROVE TableInv
  OBVIOUS
<1>1. table = <<>> /\ DOMAIN table = {} /\ at = "idle" /\ round = 0 /\ pos = 1
  BY DEF Init
<1>2. LateInv /\ SortInv
  BY <1>1 DEF LateInv, Soon, Waited, SortInv, Ordered
<1> QED BY <1>2, OwnInit DEF TableInv

LEMMA TableStep ==
  ASSUME TableInv, ~SelfDelete, InTime, Near, [Next]_vars
  PROVE  TableInv'
<1>1. OwnInv'
  BY OwnStep DEF TableInv
<1>2. LateInv'
  BY <1>1, LateStep DEF TableInv
<1>3. SortInv'
  BY <1>1, SortStep DEF TableInv
<1> QED BY <1>1, <1>2, <1>3 DEF TableInv

(* blt_soft_timer.c:132: between two calls of process the first timer of   *)
(* the table is due first, whatever was added, deleted or set, and across  *)
(* the wrap of the clock.                                                  *)
THEOREM DueFirstIsFirst ==
  ASSUME ~SelfDelete, InTime, Near PROVE Spec => []FirstIsFirst
<1>1. Init => TableInv
  BY TableInit
<1>2. TableInv /\ [Next]_vars => TableInv'
  BY TableStep
<1>3. TableInv => FirstIsFirst
  <2> SUFFICES ASSUME TableInv, at = "idle", NEW j \in DOMAIN table, NEW k \in DOMAIN table, j <= k
               PROVE  rem[table[j].cb] <= rem[table[k].cb]
    BY DEF FirstIsFirst
  <2>1. k > 0
    BY TableFacts DEF TableInv
  <2> QED BY <2>1 DEF TableInv, SortInv, Ordered, R
<1> QED BY <1>1, <1>2, <1>3, PTL DEF Spec

(* blt_soft_timer.h:35: no timer gets so late that it counts as one that   *)
(* is not due for another turn of the clock, although a deletion makes the *)
(* loop leave out the next one (blt_soft_timer.c:138-149), in every pass.  *)
THEOREM NoneIsMissed ==
  ASSUME ~SelfDelete, InTime, Near PROVE Spec => []NeverMissed
<1>1. Init => TableInv
  BY TableInit
<1>2. TableInv /\ [Next]_vars => TableInv'
  BY TableStep
<1>3. TableInv => NeverMissed
  <2> SUFFICES ASSUME TableInv, NEW k \in DOMAIN table PROVE rem[table[k].cb] > Pre - Post
    BY DEF NeverMissed, Running
  <2>1. OwnInv /\ LateInv /\ k \in 1 .. Len(table)
    BY TableFacts DEF TableInv
  <2>2. Pre - Post < R(k) /\ R(k) \in Int
    BY <2>1, TimeFacts
  <2> QED BY <2>2, SoftTimerAssumption DEF R
<1> QED BY <1>1, <1>2, <1>3, PTL DEF Spec

=============================================================================
