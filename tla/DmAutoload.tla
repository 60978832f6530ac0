----------------------------- MODULE DmAutoload -----------------------------
(***************************************************************************)
(* The autoload of one channel with two switches (the DM block of run(),   *)
(* dm_stage2.h, dm_rearm.h, and the passes before it in motor_motion_run): *)
(* Stage-1 pushes filament at the outer switch to the inner one, Stage-2   *)
(* pushes the fixed length further.  The key may interrupt both at any     *)
(* pass, an auto-unload or the printer may drive the channel meanwhile.    *)
(*                                                                         *)
(* A pass comes a time after the one before, in which the gear may have    *)
(* turned (forward is positive), and reads key and buffer.                 *)
(***************************************************************************)
EXTENDS MotionLimits

CONSTANTS AwayMs,         \* DM_REARM_AWAY_MS
          RetractCnt,     \* DM_REARM_RETRACT_CNT
          Ticks,          \* times between two passes
          Moves,          \* how far the gear turns when it is driven
          Hand,           \* and how while the autoload does not drive it
          Kinds,          \* what else may have the channel: see Kind
          DebounceMs, Stage1Ms, FailMs, ExtraMs,
          Length, Stage2Ms,   \* of Stage-2, and its time budget
          Kept,           \* the histories this instance keeps
          FarBack         \* bound: how far the gear turns back in one run

ASSUME AutoloadAssumption ==
  /\ AwayMs \in Nat \ {0} /\ RetractCnt \in Nat \ {0}
  /\ Ticks \subseteq Nat \ {0} /\ Moves \subseteq {0, 1} /\ Hand \subseteq {-1, 0, 1}
  /\ AwayMs <= DebounceMs
  /\ {Stage1Ms, FailMs, ExtraMs, Length, Stage2Ms} \subseteq Nat \ {0}
  /\ FarBack \in Nat

(***************************************************************************)
(* When a channel with two switches counts as loaded (dm_rearm.h): the     *)
(* watch of its key, pass by pass.  Ages stand for time stamps.            *)
(*                                                                         *)
(*   loaded  dm_loaded                                                     *)
(*   none    how long the key has read none (Never: it does not)           *)
(*   away    how long the key of a loaded channel has been away from both  *)
(*   back    how far the gear has retracted the filament since then        *)
(***************************************************************************)
Keys  == {"none", "both", "outer", "other"}
Hosts == {"idle", "loaded", "moving"}

Watches(range) == [loaded : BOOLEAN, none : {Never} \cup 0..AwayMs, away : {Never} \cup 0..AwayMs, back : range]

WatchAtBoot(k) == [loaded |-> k = "both", none |-> Never, away |-> Never, back |-> 0]

WatchLater(w, d, move) ==
  [w EXCEPT !.none = Later(@, d, AwayMs), !.away = Later(@, d, AwayMs),
            !.back = IF w.away = Never THEN 0 ELSE @ - move]

(* The watch without an excursion from both. *)
Home(w) == [w EXCEPT !.away = Never, !.back = 0]

(* The key's current run of none; Out: it counts as the filament being out. *)
NoneRun(w, ks) ==
  [w EXCEPT !.none = IF ks # "none" THEN Never ELSE IF @ = Never THEN 0 ELSE @]

Out(w, ks) == ks = "none" /\ w.none # Never /\ w.none >= AwayMs

(* What readings from a stream that stopped leave of the watch. *)
Old(w, ks) == [Home(w) EXCEPT !.none = Never]

(* Mutant: a pass away from both during the printer's own move counts. *)
BackOrReturned(ks, host) == ks = "both"

(* The excursion of a loaded channel's key is over. *)
BackOrMoved(ks, host) == ks = "both" \/ host # "idle"

(* The event of one pass (dm_rearm_pass).                                   *)
RearmEvent(w, ks, old, host) ==
  IF old THEN "nothing"
  ELSE IF Out(w, ks) THEN "empty"
  ELSE IF ~w.loaded THEN IF ks = "both" /\ host = "loaded" THEN "loaded" ELSE "nothing"
  ELSE IF ~BackOrMoved(ks, host) /\ w.away # Never /\ w.away >= AwayMs /\ w.back >= RetractCnt
       THEN "retracted" ELSE "nothing"

dm_rearm_pass(w, ks, old, host) ==
  LET event == RearmEvent(w, ks, old, host)
      n     == NoneRun(w, ks)
  IN CASE old -> Old(w, ks)
       [] event \in {"empty", "retracted"} -> [Home(n) EXCEPT !.loaded = FALSE]
       [] event = "loaded" -> [Home(n) EXCEPT !.loaded = TRUE]
       [] event = "nothing" /\ ~old ->
            IF ~w.loaded \/ BackOrMoved(ks, host) THEN Home(n)
            ELSE IF w.away = Never THEN [n EXCEPT !.away = 0, !.back = 0] ELSE n

-----------------------------------------------------------------------------

States  == {"idle", "s1_debounce", "s1_push", "s1_fail_retract",
            "s2_push", "s2_retract", "s2_fail_retract", "s2_fail_extra"}
Guarded == {"s2_push", "s2_retract", "s2_fail_retract"}

VARIABLES watch,   \* see Watches
          fail,    \* dm_fail_latch
          gate,    \* dm_autoload_gate = 0: Stage-1 is allowed
          auto,    \* the autoload: see Autoloads
          key,     \* MC_ONLINE_key_stu
          unloads, \* g_auto_unload.active
          drive,   \* "push" and "pull" are the autoload's, "else": what others do
          seen     \* history: see below

vars == <<watch, fail, gate, auto, key, unloads, drive, seen>>

(* st: dm_auto_state; t0: time since dm_auto_t0_ms; tries: dm_auto_try;     *)
(* ahead: gear travel since dm_auto_last_cnt; held: dm_s1_held; run, gone:  *)
(* the stage the key interrupted, and how long ago (dm_s2_run).  What       *)
(* nothing reads any more is kept at zero.                                  *)
Autoloads ==
  [st : States, t0 : 0..Stage1Ms, tries : 0..3, remain : 0..Length, ahead : -FarBack..Length,
   held : {"idle", "s1_debounce", "s1_push"}, run : {"none", "s2_push", "s2_retract"},
   gone : 0..AwayMs, guard : Guards(Stage2Ms, 0)]

NoAutoload ==
  [st |-> "idle", t0 |-> 0, tries |-> 0, remain |-> 0, ahead |-> 0, held |-> "idle",
   run |-> "none", gone |-> 0, guard |-> motion_guard_start(Stage2Ms, 0)]

InRun(a) == a.st \in Guarded \cup {"s2_fail_extra"} \/ a.run # "none"

Least(i, j) == IF i < j THEN i ELSE j
Most(i, j)  == IF i > j THEN i ELSE j

AutoLater(a, d, move) ==
  [a EXCEPT !.t0 = IF @ + d > Stage1Ms THEN Stage1Ms ELSE @ + d,
            !.gone = Later(@, d, AwayMs),
            !.ahead = Least(@ + move, Length),
            !.guard = GuardLater(@, d, move % Counts)]

Tidy(a) ==
  LET timed == a.st \in {"s1_debounce", "s1_push", "s1_fail_retract", "s2_fail_retract", "s2_fail_extra"}
      b     == IF timed \/ a.held = "s1_push" THEN a ELSE [a EXCEPT !.t0 = 0]
      e     == IF b.run = "none" THEN [b EXCEPT !.gone = 0] ELSE b
  IN IF InRun(e) THEN e
     ELSE [e EXCEPT !.tries = 0, !.remain = 0, !.ahead = 0, !.guard = NoAutoload.guard]

Init ==
  /\ key \in Keys /\ watch = WatchAtBoot(key) /\ fail = FALSE /\ gate = FALSE
  /\ auto = NoAutoload /\ unloads = FALSE /\ drive = "else"
  /\ seen = [leaving |-> [none |-> Never, back |-> 0, cause |-> "leaving" \in Kept /\ ~watch.loaded], net |-> 0,
             drives |-> [turned |-> FALSE, pushed |-> 0, pulled |-> 0]]
-----------------------------------------------------------------------------
(* The passes before run() *)

(* The key reads none, not for long enough yet. *)
dm_none_hold(a) ==
  LET b == CASE a.st \in {"s2_push", "s2_retract"} -> [a EXCEPT !.run = a.st, !.gone = 0]
             [] a.st \in {"s1_debounce", "s1_push"} -> [a EXCEPT !.held = a.st]
             [] OTHER -> a
  IN [b EXCEPT !.st = "idle", !.t0 = IF b.held = "s1_push" THEN @ ELSE 0]

dm_s1_resume(a) ==
  IF a.held = "idle" THEN a
  ELSE IF fail THEN [a EXCEPT !.held = "idle"]
  ELSE [a EXCEPT !.held = "idle", !.st = a.held, !.t0 = IF a.held = "s1_debounce" THEN 0 ELSE @]

(* What the start of the pass makes of the autoload after an event. *)
Prelude(a, event, ks) ==
  IF event = "empty" THEN NoAutoload
  ELSE LET b == IF event = "nothing" THEN a ELSE NoAutoload
       IN IF ks = "none" THEN dm_none_hold(b) ELSE dm_s1_resume(b)
-----------------------------------------------------------------------------
(* The DM block.  A stage gives the autoload after it, what it drives, and  *)
(* how Stage-2 was entered in it, if it was.                                *)
Pass(a, x, how) == [auto |-> a, x |-> x, how |-> how]

Off(a) == Pass(a, "none", "not")

Over(a) == [a EXCEPT !.st = "idle", !.tries = 0, !.remain = 0, !.t0 = 0]

(* Mutant: gear travel during the interruption is not counted. *)
EnterUncounted(a) ==
  LET b == [a EXCEPT !.run = "none", !.ahead = 0]
  IN IF a.run = "none"
     THEN Pass([b EXCEPT !.st = "s2_push", !.remain = Length, !.tries = 0], "none", "new")
     ELSE IF a.run = "s2_push" \/ a.gone < AwayMs
          THEN Pass([b EXCEPT !.st = a.run], "none", "keep")
          ELSE Pass([b EXCEPT !.st = "s2_push"], "none", "stage")

(* dm_s2_enter: the key reads both where Stage-2 starts. *)
dm_s2_enter(a) ==
  LET b == [a EXCEPT !.run = "none", !.ahead = 0,
                     !.remain = IF a.ahead > 0 THEN Most(@ - a.ahead, 0) ELSE @]
  IN IF a.run = "none"
     THEN Pass([b EXCEPT !.st = "s2_push", !.remain = Length, !.tries = 0], "none", "new")
     ELSE IF a.run = "s2_push" \/ a.gone < AwayMs
          THEN Pass([b EXCEPT !.st = a.run], "none", "keep")
          ELSE Pass([b EXCEPT !.st = "s2_push"], "none", "stage")

dm_s2_leave(a, ks) ==
  [a EXCEPT !.run = a.st, !.gone = 0, !.st = IF ks = "outer" THEN "s1_debounce" ELSE "idle", !.t0 = 0]

DebouncePass(a, ks) ==
  IF ks = "both" THEN dm_s2_enter(a)
  ELSE IF ks # "outer" THEN Off([a EXCEPT !.st = "idle", !.t0 = 0])
  ELSE Off(IF a.t0 >= DebounceMs THEN [a EXCEPT !.st = "s1_push", !.t0 = 0] ELSE a)

Stage1Pass(a, ks) ==
  IF ks = "both" THEN dm_s2_enter(a)
  ELSE IF a.t0 >= Stage1Ms THEN Off([a EXCEPT !.st = "s1_fail_retract", !.t0 = 0])
  ELSE Pass(a, "push", "not")

FailRetractPass(a) ==
  IF a.t0 >= FailMs THEN Off([a EXCEPT !.st = "idle", !.t0 = 0]) ELSE Pass(a, "pull", "not")

Travel(a) == IF a.ahead < 0 THEN -a.ahead ELSE a.ahead

(* loads: the length is done. *)
Loads(a, ks, level) == a.st = "s2_push" /\ ks = "both" /\ level # "high" /\ a.remain <= Travel(a)

(* The buffer is full: the third time the run fails. *)
Aborted(a) ==
  IF a.tries + 1 >= 3
  THEN [a EXCEPT !.tries = 3, !.st = "s2_fail_retract", !.remain = Length, !.t0 = 0]
  ELSE [a EXCEPT !.tries = @ + 1, !.st = "s2_retract"]

Stage2Push(a, ks, level) ==
  LET b == [a EXCEPT !.remain = Most(@ - Travel(a), 0), !.ahead = 0]
  IN IF ks # "both" THEN Off(dm_s2_leave(a, ks))
     ELSE IF level = "high" THEN Off(Aborted(b))
     ELSE IF b.remain = 0 THEN Off(Over(b))
     ELSE Pass(b, "push", "not")

Stage2Retract(a, ks, level) ==
  LET b == [a EXCEPT !.remain = Least(@ + Travel(a), Length), !.ahead = 0]
  IN IF level = "low" \/ ks = "outer"
     THEN Off(IF ks = "both" THEN [b EXCEPT !.st = "s2_push"] ELSE dm_s2_leave(b, ks))
     ELSE Pass(b, "pull", "not")

Stage2Fail(a, ks) ==
  LET b     == [a EXCEPT !.remain = Most(@ - Travel(a), 0), !.ahead = 0]
      limit == IF a.st = "s2_fail_extra" THEN ExtraMs ELSE FailMs
  IN IF b.remain = 0 \/ a.t0 >= limit THEN Off(Over(b))
     ELSE IF a.st = "s2_fail_retract" /\ ks = "outer"
          THEN Off([b EXCEPT !.st = "s2_fail_extra", !.t0 = 0])
     ELSE Pass(b, "pull", "not")

Stage(a, ks, level) ==
  CASE a.st = "idle"            -> Off(a)
    [] a.st = "s1_debounce"     -> DebouncePass(a, ks)
    [] a.st = "s1_push"         -> Stage1Pass(a, ks)
    [] a.st = "s1_fail_retract" -> FailRetractPass(a)
    [] a.st = "s2_push"         -> Stage2Push(a, ks, level)
    [] a.st = "s2_retract"      -> Stage2Retract(a, ks, level)
    [] OTHER                    -> Stage2Fail(a, ks)

(* In idle a pass first starts Stage-1, or Stage-2 with its first pass.     *)
Started(a, ks, allowed) ==
  IF a.st # "idle" THEN Off(a)
  ELSE IF ks = "outer" /\ (allowed \/ a.run # "none") THEN Off([a EXCEPT !.st = "s1_debounce", !.t0 = 0])
  ELSE IF ks = "both" THEN dm_s2_enter(a) ELSE Off(a)

dm_s2_guard_pass(g, high, newStage) ==
  LET n == IF newStage THEN [g EXCEPT !.run = 0, !.from = 0, !.still = 0] ELSE g
      c == motion_guard_check_at(n, high)
  IN IF high \/ g.since > StepMax THEN c ELSE [c EXCEPT !.stall = n.stall, !.still = n.still]

(* Mutant: the guard does not go on while the key interrupts the run. *)
InStage(a) == a.st \in Guarded

UnderGuard(a) == a.st \in Guarded \/ a.run # "none"

dm_s2_guard_fail(a) == [NoAutoload EXCEPT !.held = a.held]

(* What ends a pass of the block on a channel that is not loaded: Stage-2   *)
(* s.how in idle or p.how in its stage p was entered, and the guard of the  *)
(* run.  The latch is set by the guard, the timeout of Stage-1 and the      *)
(* third abort.                                                             *)
BlockEnd(a, s, p) ==
  LET how     == IF s.how = "not" THEN p.how ELSE s.how
      st      == p.auto.st
      entered == st \in Guarded /\ st # a.st /\ ~(how = "keep" /\ (st = s.auto.st \/ p.how = "keep"))
      begins  == entered /\ how = "new"
      checked == ~begins /\ UnderGuard(p.auto)
      g       == IF begins THEN motion_guard_start(Stage2Ms, 0)
                 ELSE IF checked THEN dm_s2_guard_pass(p.auto.guard, p.x # "none", entered) ELSE p.auto.guard
      trips   == checked /\ GuardTripped(g)
  IN [auto |-> IF trips THEN dm_s2_guard_fail(p.auto) ELSE [p.auto EXCEPT !.guard = g],
      x |-> IF trips THEN "none" ELSE p.x,
      fails |-> trips \/ (st \in {"s1_fail_retract", "s2_fail_retract"} /\ a.st # st)]
-----------------------------------------------------------------------------
(* What the histories make of a pass: how long the readings in a row were   *)
(* fresh and none; how far the gear has gone back at most since the printer *)
(* or the autoload moved it; whether one of the two says that the filament  *)
(* of a loaded channel went; how far the run has pushed, the pushes of      *)
(* Stage-1 in it left out; how long the autoload has pushed and pulled      *)
(* since the filament was last out, and whether the gear turned since, or a *)
(* pass came late.                                                          *)
NoneFor(d, k, old) == IF old \/ k # "none" THEN Never ELSE IF seen.leaving.none = Never THEN 0 ELSE Later(seen.leaving.none, d, AwayMs)

BackBy(move, host) == IF host # "idle" THEN 0 ELSE Least(Most(seen.leaving.back - move, 0), RetractCnt)

(* Each is kept only for the property it is for.                            *)
SeenLeaving(d, move, k, old, host, w) ==
  LET none == NoneFor(d, k, old)
      back == BackBy(move, host)
  IN [none |-> none, back |-> back,
      cause |-> none = AwayMs \/ back = RetractCnt \/ (seen.leaving.cause /\ (~w.loaded \/ watch.loaded))]

SeenNet(move, a) ==
  IF ~(InRun(a) /\ InRun(auto)) THEN 0
  ELSE seen.net + IF auto.st = "s1_push" /\ drive = "push" THEN 0 ELSE move

SeenDrives(d, move, kind, event) ==
  LET ran(t) == Least(t + d, Stage1Ms + StallMs + FailMs + ExtraMs + 1)
      was    == seen.drives
  IN IF event = "empty" THEN [turned |-> FALSE, pushed |-> 0, pulled |-> 0]
     ELSE [turned |-> was.turned \/ move # 0 \/ d > StepMax \/ kind = "off",
           pushed |-> IF drive = "push" THEN ran(was.pushed) ELSE was.pushed,
           pulled |-> IF drive = "pull" THEN ran(was.pulled) ELSE was.pulled]

Seen(d, move, k, old, host, kind, w, a, event) ==
  seen' = [leaving |-> IF "leaving" \in Kept THEN SeenLeaving(d, move, k, old, host, w) ELSE seen.leaving,
           net     |-> IF "net" \in Kept THEN SeenNet(move, a) ELSE 0,
           drives  |-> IF "drives" \in Kept THEN SeenDrives(d, move, kind, event) ELSE seen.drives]

(* A failed autoload drives nothing but its fail retract. *)
HeldOff(f, a) == f /\ a.st \notin {"s1_fail_retract", "s2_fail_retract", "s2_fail_extra"}

ShutsGate(a, b, k) ==
  \/ a.st \in {"idle", "s1_debounce", "s1_push"} /\ k = "both"
  \/ a.st = "s1_debounce" /\ b.st = "s1_push"

(* A pass in the idle control. *)
ControlPass(w, a, f, g, k, level) ==
  IF w.loaded \/ HeldOff(f, a)
  THEN /\ auto' = Tidy(a) /\ watch' = w /\ fail' = f /\ gate' = g
       /\ drive' = IF w.loaded THEN "else" ELSE "none"
  ELSE \E s \in {Started(a, k, g)} : \E p \in {Stage(s.auto, k, level)} : \E end \in {BlockEnd(a, s, p)} :
         /\ auto' = Tidy(end.auto)
         /\ watch' = [w EXCEPT !.loaded = Loads(s.auto, k, level)]
         /\ fail' = (f \/ end.fails)
         /\ gate' = (g /\ ~ShutsGate(a, end.auto, k))
         /\ drive' = end.x

(* A pass an auto-unload drives instead (dm_s2_auto_unload_pass).           *)
UnloadPass(w, a, f, g) ==
  LET watched == ~w.loaded /\ ~f /\ UnderGuard(a)
      guard   == dm_s2_guard_pass(a.guard, FALSE, FALSE)
      trips   == watched /\ GuardTripped(guard)
  IN /\ auto' = Tidy(IF trips THEN dm_s2_guard_fail(a) ELSE IF watched THEN [a EXCEPT !.guard = guard] ELSE a)
     /\ fail' = (f \/ trips)
     /\ watch' = w /\ gate' = g /\ drive' = "else"

(* The channel is not run: the printer has it, or it is braked.             *)
OtherPass(w, a, f, g) == auto' = Tidy(a) /\ watch' = w /\ fail' = f /\ gate' = g /\ drive' = "else"

(* One pass of the main loop for the channel.  kind: "control", its idle    *)
(* control runs; "unload", an auto-unload; "off", neither: with old         *)
(* readings the channel is braked, and the printer may have it.             *)
PassOf(d, move, k, old, host, kind, level) ==
  LET w0    == WatchLater(watch, d, move)
      event == RearmEvent(w0, k, old, host)
      idle  == host = "idle" /\ ~unloads
      f     == fail /\ event \notin {"empty", "loaded"}
      g     == idle /\ (gate \/ event = "empty")
  IN /\ key' = k /\ unloads' = (kind = "unload")
     /\ \E w \in {dm_rearm_pass(w0, k, old, host)}, a \in {Prelude(AutoLater(auto, d, move), event, k)} :
          \/ kind = "control" /\ ControlPass(w, a, f, g, k, level)
          \/ kind = "unload"  /\ UnloadPass(w, a, f, g)
          \/ kind = "off"     /\ OtherPass(w, a, f, g)
     /\ Seen(d, move, k, old, host, kind, watch', auto', event)

Turns == CASE drive = "push" -> Moves
           [] drive = "pull" -> {-m : m \in Moves}
           [] OTHER -> Hand

(* Bound: FarBack, on how far the gear turns back. *)
InReach(move) ==
  /\ seen.net + move \in -FarBack..(Length + FarBack)
  /\ auto.ahead + move >= -FarBack
  /\ watch.away # Never => watch.back - move \in -FarBack..RetractCnt

Levels == {"low", "middle", "high"}   \* of the buffer: recovered, between, to abort

Passes(Durations, kinds) ==
  \E d \in Durations, move \in {m \in Turns : InReach(m)} :
    \/ \E k \in Keys, level \in Levels : "control" \in kinds /\ PassOf(d, move, k, FALSE, "idle", "control", level)
    \/ \E k \in Keys : "unload" \in kinds /\ PassOf(d, move, k, FALSE, "idle", "unload", "low")
    \/ \E k \in Keys, host \in Hosts : "off" \in kinds /\ PassOf(d, move, k, FALSE, host, "off", "low")
    \/ \E host \in Hosts : "off" \in kinds /\ PassOf(d, move, key, TRUE, host, "off", "low")

Next == Passes(Ticks, Kinds)

Spec == Init /\ [][Next]_vars

(* A pass that runs the channel, and one no later than StepMax after the    *)
(* last.                                                                    *)
OwnPass    == Passes(Ticks, Kinds \ {"off"})
TimelyPass == Passes({d \in Ticks : auto.guard.since + d <= StepMax}, Kinds \ {"off"})

Fairness == WF_vars(OwnPass) /\ SF_vars(TimelyPass)

FairSpec == Spec /\ Fairness
-----------------------------------------------------------------------------
TypeOK ==
  /\ watch \in Watches(-FarBack..RetractCnt)
  /\ fail \in BOOLEAN /\ gate \in BOOLEAN /\ unloads \in BOOLEAN
  /\ auto \in Autoloads /\ key \in Keys
  /\ drive \in {"none", "push", "pull", "else"}
  /\ auto.held # "idle" => key = "none"
  /\ auto.run # "none" => ~watch.loaded /\ auto.st \notin Guarded
  /\ auto.st # "idle" => ~watch.loaded

(* The autoload pushes a loaded channel's filament only after it was seen   *)
(* to leave: fresh readings of none for long enough, or a gear that went    *)
(* back far enough while the printer left the channel alone.                *)
ParkedStaysPut == drive = "push" => seen.leaving.cause

(* However the key interrupts a run, Stage-2 pushes only while its pushes   *)
(* and retracts together are short of its length.                           *)
RunStaysInLength == drive = "push" /\ auto.st = "s2_push" => seen.net < Length

(* Between two times that the filament is out, a gear that does not turn is *)
(* pushed for at most one Stage-1 and one stall window, and driven in all   *)
(* for the fail retracts more.                                              *)
BlockedGearIsFound ==
  LET s == seen.drives
  IN ~s.turned => /\ s.pushed <= Stage1Ms + StallMs
                  /\ s.pushed + s.pulled <= Stage1Ms + StallMs + FailMs + ExtraMs

(* Nothing pushes after a failure until the filament was out or the printer *)
(* has loaded the channel, and the failure is not forgotten before.         *)
FailureKept ==
  fail => IF fail' THEN drive' # "push" ELSE watch'.loaded \/ seen'.leaving.none = AwayMs

(* A run ends or fails, however often the key interrupts it, as long as     *)
(* again and again a pass of the channel comes in time.                     *)
RunEnds == InRun(auto) ~> (fail \/ ~InRun(auto))
=============================================================================
