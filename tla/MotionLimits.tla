---------------------------- MODULE MotionLimits ----------------------------
(***************************************************************************)
(* The limits of the motor states that end only on a sensor event or a     *)
(* command (motion_limits.h), as operators on a guard.                     *)
(*                                                                         *)
(* The code keeps time stamps and gear positions and only ever uses their  *)
(* differences to now; a guard keeps those differences.  Positions wrap    *)
(* after Counts counts (2^32 in the code), and so do their differences.    *)
(***************************************************************************)
EXTENDS Integers

CONSTANTS StepMax,   \* ML_STEP_MAX_MS: a longer gap between two checks is left out
          StallMs,   \* ML_STALL_MS
          StallMove, \* ML_STALL_MOVE_CNT
          Counts     \* the range of the gear position

ASSUME LimitsAssumption ==
  /\ StepMax \in Nat \ {0} /\ StallMs \in Nat \ {0}
  /\ StallMove \in Nat \ {0} /\ Counts \in Nat /\ 2 * StallMove <= Counts

Never == -1

(* A duration d later on; beyond cap all durations are alike. *)
Later(age, d, cap) ==
  IF age = Never THEN Never ELSE IF age + d > cap THEN cap ELSE age + d

(* since: the last check; run: driven since the start; stall: the gear held *)
(* still at high PWM; from, still: how far the gear has turned, modulo      *)
(* Counts, since the start and since the stall window began.                *)
Guards(maxMs, maxCnt) ==
  [since : 0..(StepMax + 1), run : 0..maxMs, stall : 0..(StallMs + StepMax),
   from : 0..(Counts - 1), still : 0..(Counts - 1), maxMs : {maxMs}, maxCnt : {maxCnt}]

ml_cnt_dist(d) == IF d > Counts \div 2 THEN Counts - d ELSE d

motion_guard_start(maxMs, maxCnt) ==
  [since |-> 0, run |-> 0, stall |-> 0, from |-> 0, still |-> 0,
   maxMs |-> maxMs, maxCnt |-> maxCnt]

(* The same guard when a time d has passed and the gear has turned by move. *)
GuardLater(g, d, move) ==
  [g EXCEPT !.since = Later(@, d, StepMax + 1),
            !.from  = IF g.maxCnt = 0 THEN 0 ELSE (@ + move) % Counts,
            !.still = (@ + move) % Counts]

(* motion_guard_check_at; high: driven with the stall level or more since  *)
(* the last pass.                                                          *)
motion_guard_check_at(g, high) ==
  LET gap    == g.since > StepMax
      dt     == IF gap THEN 0 ELSE g.since
      begins == gap \/ ~high \/ ml_cnt_dist(g.still) >= StallMove
  IN [g EXCEPT !.since = 0,
               !.run   = IF g.maxMs = 0 THEN 0 ELSE Later(@, dt, g.maxMs),
               !.stall = IF begins THEN 0 ELSE @ + dt,
               !.still = IF begins THEN 0 ELSE @]

(* What that check returns: "ok" or the limit. *)
GuardResult(g) ==
  IF g.maxCnt > 0 /\ ml_cnt_dist(g.from) >= g.maxCnt THEN "dist"
  ELSE IF g.stall >= StallMs THEN "stall"
  ELSE IF g.maxMs > 0 /\ g.run >= g.maxMs THEN "time" ELSE "ok"

ml_is_limit(r) == r \in {"time", "dist", "stall"}

GuardTripped(g) == ml_is_limit(GuardResult(g))

(* The unload fault shown on the status LED. *)
ml_unload_fault_kept(fault, ks, busy) == fault /\ ks # 0 /\ ~busy
=============================================================================
