------------------------------ MODULE SoftTimer ------------------------------
(* The software timers: vendor/common/blt_soft_timer.c.  A table of timers *)
(* sorted by the time they are due, on a clock that wraps; main_loop calls *)
(* blt_soft_timer_process in every turn, at most Turn ticks apart, and     *)
(* process looks at the first timer alone before it walks the table.  What *)
(* a callback returns decides about its timer: a negative value deletes    *)
(* it, zero repeats it, any other value is its new interval.               *)
EXTENDS Integers, Sequences, SequencesExt

CONSTANTS
  Fn,          \* the callbacks
  Interval,    \* intervals, in ticks
  MaxTimers,   \* MAX_TIMER_NUM
  Wrap,        \* the clock has this many values (2^32)
  Pre,         \* BLT_TIMER_SAFE_MARGIN_PRE
  Post,        \* BLT_TIMER_SAFE_MARGIN_POST
  Turn,        \* ticks between two calls of blt_soft_timer_process
  SelfDelete   \* callbacks may delete their own timer, too

ASSUME SoftTimerAssumption ==
  /\ MaxTimers \in Nat \ {0} /\ Wrap \in Nat \ {0} /\ Interval \subseteq 1 .. Wrap - 1
  /\ Pre \in Nat /\ Post \in Nat /\ Turn \in Nat \ {0} /\ SelfDelete \in BOOLEAN

VARIABLES
  clock,       \* clock_time()
  since,       \* ticks since process was called
  table,       \* blt_timer, the first currentNum entries
  at,          \* "idle", "loop" of process, "sort", "trap": a while(1)
  i,           \* the index of the loop
  changed,     \* change_flg
  round, pos,  \* i and j of blt_soft_timer_sort, pos counted from 1
  rem          \* history: the ticks until the timer of a callback is due

sortVars == <<round, pos>>
vars == <<clock, since, table, at, i, changed, sortVars, rem>>

Timer == [cb : Fn, t : 0 .. Wrap - 1, interval : Interval]
Running == {table[k].cb : k \in DOMAIN table}

Init ==
  /\ clock = 0 /\ since = 0 /\ table = <<>> /\ at = "idle" /\ i = 1 /\ changed = FALSE
  /\ round = 0 /\ pos = 1 /\ rem = [f \in Fn |-> 0]

-----------------------------------------------------------------------------
(* blt_is_timer_expired.                                                   *)
Expired(t) == (clock + Pre - t) % Wrap < Post

(* Mutant: the wrap of the clock is forgotten.                             *)
TimeCompareFlat(t1, t2) == t1 >= t2

(* TIME_COMPARE_BIG; two timers of one time count as well.                 *)
TimeCompareBig(t1, t2) == (t1 - t2) % Wrap < Wrap \div 4

Swapped(s, j) ==
  IF TimeCompareBig(s[j].t, s[j + 1].t)
    THEN [s EXCEPT ![j] = s[j + 1], ![j + 1] = s[j]] ELSE s

Due(ticks) == (clock + ticks) % Wrap

-----------------------------------------------------------------------------
(* Time goes on between two calls of process.                              *)
Tick ==
  /\ at = "idle" /\ since < Turn
  /\ clock' = (clock + 1) % Wrap /\ since' = since + 1
  /\ rem' = [f \in Fn |-> IF f \in Running THEN rem[f] - 1 ELSE 0]
  /\ UNCHANGED <<table, at, i, changed, sortVars>>

(* blt_soft_timer_add, called by the application for a callback that has   *)
(* no timer; a full table is left as it is.  The sort comes next.          *)
Add(f, ticks) ==
  /\ at = "idle" /\ f \notin Running /\ Len(table) < MaxTimers
  /\ table' = Append(table, [cb |-> f, t |-> Due(ticks), interval |-> ticks])
  /\ at' = "sort"
  /\ rem' = [rem EXCEPT ![f] = ticks]
  /\ UNCHANGED <<clock, since, i, changed, sortVars>>

(* blt_soft_timer_delete, called by the application.                       *)
Delete(f) ==
  /\ at = "idle"
  /\ \E k \in DOMAIN table : table[k].cb = f /\ table' = RemoveAt(table, k)
  /\ rem' = [rem EXCEPT ![f] = 0]
  /\ UNCHANGED <<clock, since, at, i, changed, sortVars>>

-----------------------------------------------------------------------------
(* blt_soft_timer_sort, called by add and by process: nothing else happens *)
(* until it returns.                                                       *)
Compare ==
  /\ at = "sort" /\ pos < Len(table) - round
  /\ table' = Swapped(table, pos) /\ pos' = pos + 1
  /\ UNCHANGED <<clock, since, at, i, changed, round, rem>>

NextRound ==
  /\ at = "sort" /\ pos >= Len(table) - round /\ round < Len(table) - 1
  /\ round' = round + 1 /\ pos' = 1
  /\ UNCHANGED <<clock, since, table, at, i, changed, rem>>

SortDone ==
  /\ at = "sort" /\ round >= Len(table) - 1
  /\ at' = "idle" /\ round' = 0 /\ pos' = 1
  /\ UNCHANGED <<clock, since, table, i, changed, rem>>

-----------------------------------------------------------------------------
(* Mutant: process looks at the last timer.                                *)
LastDue == table # <<>> /\ Expired(table[Len(table)].t)

(* blt_soft_timer_process.                                                 *)
FirstDue == table # <<>> /\ Expired(table[1].t)

Nothing ==
  /\ at = "idle" /\ since > 0 /\ ~FirstDue
  /\ since' = 0
  /\ UNCHANGED <<clock, table, at, i, changed, sortVars, rem>>

Begin ==
  /\ at = "idle" /\ FirstDue
  /\ since' = 0 /\ at' = "loop" /\ i' = 1 /\ changed' = FALSE
  /\ UNCHANGED <<clock, table, sortVars, rem>>

NotDue ==
  /\ at = "loop" /\ i <= Len(table) /\ ~Expired(table[i].t)
  /\ i' = i + 1
  /\ UNCHANGED <<clock, since, table, at, changed, sortVars, rem>>

(* Mutant: counted on from when the timer was due.                         *)
AgainFromDue(s, ticks) ==
  IF i <= Len(s)
    THEN [s EXCEPT ![i].interval = ticks, ![i].t = (s[i].t + ticks) % Wrap] ELSE s

(* The entry at the index is set to ticks from now; past the end of the    *)
(* table that writes an entry nobody uses.                                 *)
Again(s, ticks) ==
  IF i <= Len(s) THEN [s EXCEPT ![i].interval = ticks, ![i].t = Due(ticks)] ELSE s

AtIndex(s) == IF i <= Len(s) THEN s[i].interval ELSE 0

(* A callback runs and leaves the table s behind: it may delete a timer    *)
(* that comes later.                                                       *)
Left ==
  {table} \cup {RemoveAt(table, k) : k \in (IF SelfDelete THEN i ELSE i + 1) .. Len(table)}

Called ==
  /\ at = "loop" /\ i <= Len(table) /\ Expired(table[i].t)
  /\ i' = i + 1
  /\ UNCHANGED <<clock, since, sortVars>>

Asked(s, ticks) ==
  rem' = [f \in Fn |->
    IF f \notin {s[k].cb : k \in DOMAIN s} THEN 0 ELSE IF f = table[i].cb THEN ticks ELSE rem[f]]

(* result < 0                                                              *)
RunEnds ==
  /\ Called
  /\ \E s \in Left :
       /\ at' = (IF i <= Len(s) THEN at ELSE "trap")
       /\ table' = (IF i <= Len(s) THEN RemoveAt(s, i) ELSE s)
       /\ Asked(s, 0)
  /\ UNCHANGED changed

(* result == 0                                                             *)
RunRepeats ==
  /\ Called /\ changed' = TRUE
  /\ \E s \in Left : table' = Again(s, AtIndex(s)) /\ Asked(s, table[i].interval)
  /\ UNCHANGED at

(* result > 0                                                              *)
RunChanges(ticks) ==
  /\ Called /\ changed' = TRUE
  /\ \E s \in Left : table' = Again(s, ticks) /\ Asked(s, ticks)
  /\ UNCHANGED at

End ==
  /\ at = "loop" /\ i > Len(table)
  /\ at' = (IF changed /\ table # <<>> THEN "sort" ELSE "idle")
  /\ i' = 1 /\ changed' = FALSE
  /\ UNCHANGED <<clock, since, table, sortVars, rem>>

Next ==
  \/ Tick \/ Nothing \/ Begin \/ NotDue \/ RunEnds \/ RunRepeats \/ End
  \/ Compare \/ NextRound \/ SortDone
  \/ \E ticks \in Interval : RunChanges(ticks)
  \/ \E f \in Fn : Delete(f) \/ \E ticks \in Interval : Add(f, ticks)

Spec == Init /\ [][Next]_vars

-----------------------------------------------------------------------------
TypeOK ==
  /\ clock \in 0 .. Wrap - 1 /\ since \in 0 .. Turn /\ table \in Seq(Timer)
  /\ Len(table) <= MaxTimers /\ at \in {"idle", "loop", "sort", "trap"}
  /\ i \in 1 .. MaxTimers + 1 /\ changed \in BOOLEAN
  /\ round \in 0 .. MaxTimers /\ pos \in 1 .. MaxTimers /\ rem \in [Fn -> Int]

(* blt_soft_timer.c:145-157, "set new timer interval": whatever the        *)
(* callbacks of one pass return, and although the loop goes on over a      *)
(* table they delete from, each timer is set to the time its own callback  *)
(* asked for, counted on from there.                                       *)
KeepsOwnTime ==
  \A k \in DOMAIN table : table[k].t = Due(rem[table[k].cb])

TimerInv == TypeOK /\ KeepsOwnTime

(* blt_soft_timer.c:132: process looks at the first timer only, so between *)
(* two calls the first one is due first, across the wrap of the clock too. *)
FirstIsFirst ==
  at = "idle" => \A j, k \in DOMAIN table : j <= k => rem[table[j].cb] <= rem[table[k].cb]

(* blt_soft_timer.h:35: a timer later than BLT_TIMER_SAFE_MARGIN_POST      *)
(* counts as one that is not due for another turn of the clock: no timer   *)
(* gets that late, though a deletion makes the loop leave out the next     *)
(* one (blt_soft_timer.c:138-149) and does so in every pass.               *)
NeverMissed == \A f \in Running : rem[f] > Pre - Post
=============================================================================
