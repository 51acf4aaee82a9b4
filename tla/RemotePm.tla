------------------------------ MODULE RemotePm -------------------------------
(* The remote control: its keys, the reports it sends of them, and when it *)
(* sleeps.  main_loop runs the stack ("sdk"), scans the keyboard, decides  *)
(* about sleep ("pm"), and goes on or puts the chip to deep sleep          *)
(* ("deep"), out of which only a key takes it, through a reset ("boot").   *)
(* A key that woke the remote is cached until a central is connected and   *)
(* then replayed, with a release of its own when it was let go before.     *)
(* The pads, the link and the clock move while the stack runs; the stack   *)
(* calls task_connect and ble_remote_terminate as the link changes, so     *)
(* that device_in_connection_state says what link says.                    *)
EXTENDS Naturals

VARIABLES
  at,            \* "sdk", "woken" (a key ended a suspend), "pm", "deep", "boot"
  link,          \* the stack: "adv", "conn", or "off" (idle or no power)
  adv,           \* advertising is enabled
  term,          \* a terminate packet is in the TX buffer
  leaving,       \* sendTerminate_before_enterDeep
  ana,           \* DEEP_ANA_REG0 holds CONN_DEEP_FLG, it outlives deep sleep
  pads,          \* what is pressed
  seen,          \* what the debounce filter has let through
  need,          \* scan_pin_need
  notReleased,   \* key_not_released
  type,          \* key_type
  deepback,      \* deepback_key_state
  cache,         \* kb_event_cache, as long as it is to be replayed
  voice,         \* key_voice_press
  mic,           \* ui_mic_enable
  ota,           \* ota_is_working
  led,           \* DEVICE_LED_BUSY
  elapsed,       \* the waits that are over
  host,          \* what the central sees pressed
  tapped         \* history: the last key handled is a VOICE replayed when it is up

radioVars == <<link, adv, term, leaving, host>>
keyVars == <<seen, need, notReleased, type, deepback, cache, voice, tapped>>
vars == <<at, radioVars, ana, pads, keyVars, mic, ota, led, elapsed>>

(* A matrix is a keyboard key, a media key, a special key or several keys. *)
Press == {"kb", "media", "voice", "switch", "two"}
None == "none"
(* idle60, adv60: CONN_ and ADV_IDLE_ENTER_DEEP_TIME; voice1s: a press of  *)
(* VOICE is long; tap150, conn25: waits of the replay.                     *)
Waits == {"idle60", "adv60", "voice1s", "tap150", "conn25"}

(* RAM as user_init leaves it.                                             *)
FreshRam ==
  /\ term' = FALSE /\ leaving' = 0 /\ type' = None /\ voice' = FALSE /\ mic' = FALSE
  /\ ota' = FALSE /\ led' = FALSE /\ elapsed' = {} /\ host' = {} /\ tapped' = FALSE

Init ==
  /\ at = "sdk" /\ link = "adv" /\ adv = TRUE /\ term = FALSE /\ leaving = 0 /\ ana = FALSE
  /\ pads = None /\ seen = None /\ need = FALSE /\ notReleased = FALSE /\ type = None
  /\ deepback = "idle" /\ cache = None /\ voice = FALSE /\ mic = FALSE /\ ota = FALSE
  /\ led = FALSE /\ elapsed = {} /\ host = {} /\ tapped = FALSE

-----------------------------------------------------------------------------
(* The world: keys, the central, the clock.                                *)
Pads ==
  /\ at \in {"sdk", "deep", "boot"}
  /\ pads' \in (Press \cup {None}) \ {pads}
  /\ UNCHANGED <<at, radioVars, ana, keyVars, mic, ota, led, elapsed>>

Connected ==
  /\ at = "sdk" /\ link = "adv"
  /\ link' = "conn" /\ elapsed' = elapsed \ {"idle60", "conn25"}
  /\ UNCHANGED <<at, adv, term, leaving, host, ana, pads, keyVars, mic, ota, led>>

(* Mutants: an end nobody waited for counts as one; the flag is forgotten; *)
(* the microphone stays on.                                                *)
TerminatedCounts ==
  /\ at = "sdk" /\ link = "conn"
  /\ link' = (IF adv THEN "adv" ELSE "off") /\ term' = FALSE /\ host' = {}
  /\ leaving' = leaving + 1
  /\ mic' = FALSE /\ elapsed' = elapsed \ {"adv60", "idle60", "conn25"}
  /\ UNCHANGED <<at, adv, ana, pads, keyVars, ota, led>>


(* The link ends, asked for or not.  ota_is_working stays set behind an    *)
(* update that it cuts, until the stack gives that up in OtaEnd.           *)
Terminated ==
  /\ at = "sdk" /\ link = "conn"
  /\ link' = (IF adv THEN "adv" ELSE "off") /\ term' = FALSE /\ host' = {}
  /\ leaving' = (IF leaving = 1 THEN 2 ELSE leaving)
  /\ mic' = FALSE /\ elapsed' = elapsed \ {"adv60", "idle60", "conn25"}
  /\ UNCHANGED <<at, adv, ana, pads, keyVars, ota, led>>

(* While an update sets user_task_flg the end of its LED changes nothing.  *)
LedDone ==
  /\ at = "sdk" /\ led /\ ~ota
  /\ led' = FALSE
  /\ UNCHANGED <<at, radioVars, ana, pads, keyVars, mic, ota, elapsed>>

(* A wait is over that somebody waits for.                                 *)
Waited(w) ==
  CASE w = "idle60" -> link = "conn"
    [] w = "conn25" -> link = "conn" /\ deepback = "cache"
    [] w = "adv60" -> link = "adv"
    [] w = "voice1s" -> voice
    [] w = "tap150" -> deepback = "wait"

Elapse(w) ==
  /\ at = "sdk" /\ w \notin elapsed /\ Waited(w)
  /\ elapsed' = elapsed \cup {w}
  /\ UNCHANGED <<at, radioVars, ana, pads, keyVars, mic, ota, led>>

(* The application is told when an update starts; at its end the stack     *)
(* resets the chip, whatever the result.                                   *)
EntryOtaMode ==
  /\ at = "sdk" /\ link = "conn"
  /\ ota' = TRUE /\ led' = TRUE
  /\ UNCHANGED <<at, radioVars, ana, pads, keyVars, mic, elapsed>>

NoPower ==
  /\ FreshRam
  /\ link' = "off" /\ adv' = FALSE /\ deepback' = "idle" /\ cache' = None
  /\ seen' = None /\ need' = FALSE /\ notReleased' = FALSE

OtaEnd ==
  /\ at = "sdk" /\ ota
  /\ at' = "boot" /\ NoPower
  /\ UNCHANGED <<ana, pads>>

-----------------------------------------------------------------------------
(* proc_keyboard runs when the stack has returned, and once more before    *)
(* that when a key ends a suspend early; the stack then returns at once.   *)
ProcKeyboard ==
  \/ at \in {"sdk", "woken"} /\ at' = "pm"
  \/ at = "sdk" /\ pads # None /\ at' = "woken"

(* Less than 8 ms since the last scan.                                     *)
KeyTooSoon ==
  /\ at = "sdk" /\ at' = "pm"
  /\ UNCHANGED <<radioVars, ana, pads, keyVars, mic, ota, led, elapsed>>

(* The waits of the replay and of VOICE end with what they are for.        *)
Awaited(w) ==
  CASE w = "conn25" -> deepback' = "cache"
    [] w = "tap150" -> deepback' = "wait"
    [] w = "voice1s" -> voice'
    [] OTHER -> TRUE

(* The keyboard report that ends a replayed tap.                           *)
ManualRelease == deepback = "wait" /\ "tap150" \in elapsed
Hears == link = "conn" /\ ~term

Reported(k) ==
  IF k \in {"kb", "media"} THEN host \cup {k}
  ELSE IF k = None THEN host \ {type} ELSE host

(* Mutant: key_voice_press outlasts the key.                               *)
KeyChangeKeepsVoice(k) ==
  /\ notReleased' = (k # None /\ ~ManualRelease)
  /\ type' = (IF k \in {"kb", "media"} THEN k ELSE type)
  /\ voice' = (voice \/ (k = "voice" /\ ~mic)) /\ mic' = (mic /\ k # "voice")
  /\ led' = (led \/ k = "switch")
  /\ elapsed' = {w \in elapsed : w \notin {"idle60", "voice1s", "tap150"} /\ Awaited(w)}
  /\ host' = (IF ~Hears THEN host ELSE IF ManualRelease THEN Reported(k) \ {"kb"} ELSE Reported(k))

(* key_change_proc on the matrix k, and what proc_keyboard does after it.  *)
KeyChange(k) ==
  /\ notReleased' = (k # None /\ ~ManualRelease)
  /\ type' = (IF k \in {"kb", "media"} THEN k ELSE type)
  /\ voice' = (k = "voice" /\ ~mic) /\ mic' = (mic /\ k # "voice")
  /\ led' = (led \/ k = "switch")
  /\ elapsed' = {w \in elapsed : w \notin {"idle60", "voice1s", "tap150"} /\ Awaited(w)}
  /\ host' = (IF ~Hears THEN host ELSE IF ManualRelease THEN Reported(k) \ {"kb"} ELSE Reported(k))

KeyScanned ==
  /\ ProcKeyboard
  /\ pads # seen /\ seen' = pads /\ need' = TRUE
  /\ deepback' = (IF ManualRelease THEN "idle" ELSE deepback) /\ cache' = cache
  /\ KeyChange(pads) /\ tapped' = FALSE
  /\ UNCHANGED <<link, adv, term, leaving, ana, pads, ota>>

(* The filter let no change through; scan_pin_need outlasts a release.     *)
Unchanged ==
  /\ ProcKeyboard
  /\ need' \in (IF pads # None \/ seen # None THEN {TRUE} ELSE {need, FALSE})
  /\ UNCHANGED <<link, adv, term, leaving, ana, pads, seen, ota>>

(* Mutant: the cached key is replayed before there is a central.           *)
ReplaysAtOnce == deepback = "cache"

Replays == deepback = "cache" /\ link = "conn" /\ "conn25" \in elapsed

KeyReplayed ==
  /\ Unchanged /\ Replays
  /\ deepback' = (IF notReleased \/ cache = "voice" THEN "idle" ELSE "wait")
  /\ KeyChange(cache) /\ cache' = None /\ tapped' = (cache = "voice" /\ seen # "voice")

LongPress == voice /\ ~mic /\ link = "conn" /\ "voice1s" \in elapsed

(* Mutant: the manual release is not sent.                                 *)
KeyQuietNoReport ==
  /\ Unchanged /\ ~Replays
  /\ voice' = (voice /\ ~LongPress) /\ mic' = (mic \/ LongPress)
  /\ notReleased' = (notReleased /\ ~ManualRelease)
  /\ deepback' = (IF ManualRelease THEN "idle" ELSE deepback)
  /\ UNCHANGED <<type, led, elapsed, tapped, cache, host>>

KeyQuiet ==
  /\ Unchanged /\ ~Replays
  /\ voice' = (voice /\ ~LongPress) /\ mic' = (mic \/ LongPress)
  /\ notReleased' = (notReleased /\ ~ManualRelease)
  /\ deepback' = (IF ManualRelease THEN "idle" ELSE deepback)
  /\ host' = (IF ManualRelease /\ Hears THEN host \ {"kb"} ELSE host)
  /\ elapsed' = {w \in elapsed : Awaited(w)}
  /\ UNCHANGED <<type, led, tapped, cache>>

Keyboard == KeyTooSoon \/ KeyScanned \/ KeyReplayed \/ KeyQuiet

-----------------------------------------------------------------------------
UserTask == ota \/ need \/ notReleased \/ led     \* user_task_flg

(* While the microphone is on nothing is decided.                          *)
PmMic ==
  /\ at = "pm" /\ mic
  /\ at' = "sdk"
  /\ UNCHANGED <<radioVars, ana, pads, keyVars, mic, ota, led, elapsed>>

Sleep(flag) ==
  /\ at' = "deep" /\ NoPower
  /\ ana' = flag
  /\ UNCHANGED pads

PmTerminated ==
  /\ at = "pm" /\ ~mic /\ leaving = 2
  /\ Sleep(TRUE)

(* Mutant: the time since advertising began is tested in a connection too. *)
AdvIdleAnyLink == leaving = 0 /\ "adv60" \in elapsed

AdvIdle == link = "adv" /\ leaving = 0 /\ "adv60" \in elapsed
ConnIdle == link = "conn" /\ ~UserTask /\ "idle60" \in elapsed

PmAdvIdle ==
  /\ at = "pm" /\ ~mic /\ AdvIdle
  /\ Sleep(ana)

PmLeave ==
  /\ at = "pm" /\ ~mic /\ leaving # 2 /\ ConnIdle
  /\ at' = "sdk" /\ term' = TRUE /\ adv' = FALSE /\ leaving' = 1
  /\ UNCHANGED <<link, host, ana, pads, keyVars, mic, ota, led, elapsed>>

(* Mutation: advertising is not enabled again.                             *)
PmStayOffAir ==
  /\ at = "pm" /\ ~mic /\ leaving = 1 /\ UserTask
  /\ at' = "sdk" /\ leaving' = 0
  /\ UNCHANGED <<link, adv, term, host, ana, pads, keyVars, mic, ota, led, elapsed>>

(* A task came up before the terminate packet was acknowledged: stay.      *)
PmStay ==
  /\ at = "pm" /\ ~mic /\ leaving = 1 /\ UserTask
  /\ at' = "sdk" /\ leaving' = 0 /\ adv' = TRUE
  /\ UNCHANGED <<link, term, host, ana, pads, keyVars, mic, ota, led, elapsed>>

PmNothing ==
  /\ at = "pm" /\ ~mic /\ leaving # 2 /\ ~AdvIdle /\ ~ConnIdle
  /\ ~(leaving = 1 /\ UserTask)
  /\ at' = "sdk"
  /\ UNCHANGED <<radioVars, ana, pads, keyVars, mic, ota, led, elapsed>>

BltPmProc == PmMic \/ PmTerminated \/ PmAdvIdle \/ PmLeave \/ PmStay \/ PmNothing

-----------------------------------------------------------------------------
WakeUp ==
  /\ at = "deep" /\ pads # None
  /\ at' = "boot"
  /\ UNCHANGED <<radioVars, ana, pads, keyVars, mic, ota, led, elapsed>>

(* main up to main_loop: deep_wakeup_proc and user_init.                   *)
Boot ==
  /\ at = "boot" /\ at' = "sdk"
  /\ FreshRam
  /\ link' = "adv" /\ adv' = TRUE /\ ana' = FALSE
  /\ LET caught == ana /\ pads # None
     IN /\ deepback' = (IF caught THEN "cache" ELSE "idle")
        /\ cache' = (IF caught THEN pads ELSE None) /\ seen' = cache'
        /\ notReleased' = caught /\ need' = caught
  /\ UNCHANGED pads

MainLoop == Keyboard \/ BltPmProc \/ Boot

Next ==
  \/ Pads \/ Connected \/ Terminated \/ LedDone \/ EntryOtaMode \/ OtaEnd
  \/ \E w \in Waits : Elapse(w)
  \/ KeyTooSoon \/ KeyScanned \/ KeyReplayed \/ KeyQuiet
  \/ PmMic \/ PmTerminated \/ PmAdvIdle \/ PmLeave \/ PmStay \/ PmNothing
  \/ WakeUp \/ Boot

Spec == Init /\ [][Next]_vars

(* The program runs and scans again and again; the filter sees a pad that  *)
(* stays as it is in two scans, lets no change through in between, and a   *)
(* released pad is forgotten after six; the clock goes on, an update ends, *)
(* and a terminate packet is acknowledged or times out.                    *)
Settle == KeyScanned \/ KeyReplayed \/ (KeyQuiet /\ ~need')
Clock == OtaEnd \/ LedDone \/ \E w \in Waits : Elapse(w)

FairSpec ==
  /\ Spec
  /\ WF_vars(MainLoop) /\ SF_vars(Settle) /\ SF_vars(Clock) /\ SF_vars(Terminated /\ term)

-----------------------------------------------------------------------------
TypeOK ==
  /\ at \in {"sdk", "woken", "pm", "deep", "boot"} /\ link \in {"adv", "conn", "off"}
  /\ adv \in BOOLEAN /\ term \in BOOLEAN /\ leaving \in 0 .. 2 /\ ana \in BOOLEAN
  /\ pads \in Press \cup {None} /\ seen \in Press \cup {None} /\ cache \in Press \cup {None}
  /\ need \in BOOLEAN /\ notReleased \in BOOLEAN /\ type \in {None, "kb", "media"}
  /\ deepback \in {"idle", "cache", "wait"} /\ voice \in BOOLEAN /\ mic \in BOOLEAN
  /\ ota \in BOOLEAN /\ led \in BOOLEAN /\ elapsed \subseteq Waits
  /\ host \subseteq {"kb", "media"} /\ tapped \in BOOLEAN

Awake == at \in {"sdk", "woken", "pm"}

(* app.c:331-333, 661-667: the remote that waits for its terminate packet  *)
(* still has the link it wants to end, and the one that was told of the    *)
(* end has none and does not advertise, so that what a key does in between *)
(* never leaves it waiting for an end that has come already.  While it is  *)
(* not leaving it is on the air: every way back enables advertising again  *)
(* (app.c:664, 692).                                                       *)
LeavingEnds ==
  /\ leaving = 1 => link = "conn" /\ term /\ ~adv
  /\ leaving = 2 => link = "off" /\ ~adv
  /\ Awake /\ leaving = 0 => adv /\ link # "off"

SleepInv == TypeOK /\ LeavingEnds

(* app.c:599: the microphone is turned on by VOICE pressed for a second,   *)
(* the replay of a VOICE that was let go being the one exception.           *)
StreamsOnLongPress == [][mic' /\ ~mic => seen = "voice" \/ tapped]_vars

(* app.c:667-684: no central is connected and no microphone on when the    *)
(* chip goes to deep sleep, so that no update is under way but one whose   *)
(* link has ended: neither 667 nor 676 looks at ota_is_working.            *)
SleepsAlone == [][at' = "deep" /\ at # "deep" => link # "conn" /\ ~mic]_vars

(* Both: the microphone and deep sleep (app.c:599-606, 667-684) never come *)
(* from a key or a link that is no longer there.                           *)
StreamsAndSleeps == StreamsOnLongPress /\ SleepsAlone

(* app.c:413-417, 526-538: when no key is down, the central does not see   *)
(* the keyboard key still pressed that was sent last, whether the key was  *)
(* pressed before the connection, during it, or replayed.                  *)
KeyboardReleased ==
  at = "sdk" /\ seen = None /\ deepback = "idle" /\ type = "kb" /\ Hears => "kb" \notin host

(* app.c:369-371, 392-396: a key that woke the remote stays cached until a *)
(* central is connected and is then what that central sees pressed; only a *)
(* reset or another deep sleep forgets it.                                 *)
CachedKeySent ==
  [][deepback = "cache" /\ deepback' # "cache" /\ at' \notin {"deep", "boot"}
       => link = "conn" /\ (Hears /\ cache \in {"kb", "media"} => cache \in host')]_vars

(* app.c:676-686: a remote nobody uses and no central connects to any more *)
(* goes to deep sleep.  A replayed VOICE tap keeps it awake.               *)
Use == Pads \/ Connected \/ EntryOtaMode

(* app.c:401, 412: "need manual release": a key that was let go before it  *)
(* was replayed is released at the central by the manual release.          *)
TappedReleased ==
  [][deepback = "wait" /\ deepback' = "idle" /\ seen = None /\ seen' = None /\ Hears => host' = {}]_vars
=============================================================================
