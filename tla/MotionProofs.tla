---------------------------- MODULE MotionProofs ----------------------------
(***************************************************************************)
(* The guards of motion_limits.h do what they are for: an unload, a load   *)
(* and the push of a parked channel, for all times, lengths and turns of   *)
(* the gear; and the push of a channel in use ends.  The angle sensor      *)
(* counts what the gear turns, but for a bounded loss per corrupted read.  *)
(*                                                                         *)
(* The histories of the properties count what the gear and the clock have  *)
(* really done; the proofs relate a guard's fields to them.                *)
(***************************************************************************)
EXTENDS PullBack, PushControl, AngleTrack, TLAPS

AnyGuard == [since : Int, run : Int, stall : Int, from : Int, still : Int, maxMs : Int, maxCnt : Int]

\* The remainder of a natural number is within the range.
LEMMA InCounts == ASSUME NEW n \in Int PROVE n % Counts \in 0..(Counts - 1)
BY LimitsAssumption DEF LimitsAssumption

Checked(g, d, move, high) == motion_guard_check_at(GuardLater(g, d, move), high)

\* What a check makes of a guard, field by field.
Begins(g, d, move, high) ==
  g.since + d > StepMax \/ ~high \/ ml_cnt_dist((g.still + move) % Counts) >= StallMove

InTime(g, d) == IF g.since + d > StepMax THEN 0 ELSE g.since + d

Tells(h, g, d, move, high) ==
  /\ h.since = 0 /\ h.maxMs = g.maxMs /\ h.maxCnt = g.maxCnt
  /\ h.run = IF g.maxMs = 0 THEN 0 ELSE Later(g.run, InTime(g, d), g.maxMs)
  /\ h.stall = IF Begins(g, d, move, high) THEN 0 ELSE g.stall + InTime(g, d)
  /\ h.still = IF Begins(g, d, move, high) THEN 0 ELSE (g.still + move) % Counts
  /\ h.from = IF g.maxCnt = 0 THEN 0 ELSE (g.from + move) % Counts
  /\ h \in AnyGuard

LEMMA CheckTells ==
  ASSUME NEW g \in AnyGuard, NEW d \in Int, NEW move \in Int, NEW high \in BOOLEAN,
         g.since >= 0, d >= 0
  PROVE  Tells(Checked(g, d, move, high), g, d, move, high)
<1> DEFINE l == GuardLater(g, d, move)
           h == Checked(g, d, move, high)
           dt == IF g.since + d > StepMax THEN 0 ELSE g.since + d
           begins == g.since + d > StepMax \/ ~high \/ ml_cnt_dist((g.still + move) % Counts) >= StallMove
<1>1. (g.still + move) % Counts \in Int /\ (g.from + move) % Counts \in Int
  BY InCounts DEF AnyGuard
<1>2. Later(g.since, d, StepMax + 1) \in Int /\ Later(g.run, dt, g.maxMs) \in Int /\ dt \in Int
  BY LimitsAssumption DEF LimitsAssumption, Later, Never, AnyGuard
<1>3. /\ l \in AnyGuard /\ l.run = g.run /\ l.stall = g.stall /\ l.maxMs = g.maxMs
      /\ l.maxCnt = g.maxCnt /\ l.since = Later(g.since, d, StepMax + 1)
      /\ l.from = (IF g.maxCnt = 0 THEN 0 ELSE (g.from + move) % Counts)
      /\ l.still = (g.still + move) % Counts
  BY <1>1, <1>2 DEF GuardLater, AnyGuard
<1>4. /\ (l.since > StepMax <=> g.since + d > StepMax)
      /\ (IF l.since > StepMax THEN 0 ELSE l.since) = dt
  BY <1>3, LimitsAssumption DEF LimitsAssumption, Later, Never, AnyGuard
<1> HIDE DEF l, dt
<1>5. h = [l EXCEPT !.since = 0, !.run = IF l.maxMs = 0 THEN 0 ELSE Later(@, dt, l.maxMs),
                    !.stall = IF begins THEN 0 ELSE @ + dt, !.still = IF begins THEN 0 ELSE @]
  BY <1>3, <1>4 DEF motion_guard_check_at, Checked, l
<1> HIDE DEF begins, h
<1>6. begins \in BOOLEAN /\ g.stall + dt \in Int
  BY <1>2 DEF begins, AnyGuard
<1> DEFINE r == IF l.maxMs = 0 THEN 0 ELSE Later(l.run, dt, l.maxMs)
           s == IF begins THEN 0 ELSE l.stall + dt
           m == IF begins THEN 0 ELSE l.still
<1>7. r \in Int /\ s \in Int /\ m \in Int
  BY <1>2, <1>3, <1>6 DEF AnyGuard
<1>8. h = [l EXCEPT !.since = 0, !.run = r, !.stall = s, !.still = m]
  BY <1>5
<1> HIDE DEF r, s, m
<1>9. /\ h \in AnyGuard /\ h.since = 0 /\ h.maxMs = l.maxMs /\ h.maxCnt = l.maxCnt
      /\ h.run = r /\ h.stall = s /\ h.still = m /\ h.from = l.from
  <2>1. l \in AnyGuard
    BY <1>3
  <2>2. h = [since |-> 0, run |-> r, stall |-> s, from |-> l.from, still |-> m,
             maxMs |-> l.maxMs, maxCnt |-> l.maxCnt]
    BY <1>8, <2>1, Zenon DEF AnyGuard
  <2>3. l.from \in Int /\ l.maxMs \in Int /\ l.maxCnt \in Int
    BY <2>1 DEF AnyGuard
  <2> QED
    BY <1>7, <2>2, <2>3 DEF AnyGuard
<1> QED
  BY <1>3, <1>9, Zenon DEF dt, begins, r, s, m, h, Tells, Begins, InTime
-----------------------------------------------------------------------------
(* The unload.                                                             *)

Traces == [ran : 0..(PullMs + RedetectMs), held : 0..(StallMs + StepMax), away : 0..(Counts - 1),
           nones : 0..Publications, reached : BOOLEAN, earned : BOOLEAN]

PullTyped ==
  /\ pos \in {"idle", "pulling", "redetect"} /\ asked \in BOOLEAN /\ online \in BOOLEAN
  /\ empty \in 0..Publications /\ drive \in {"none", "low", "high"} /\ fault \in BOOLEAN
  /\ calibrated \in BOOLEAN /\ (pos = "pulling" => calibrated)
  /\ target \in Targets \cup {0} /\ dist \in 0..(Counts - 1)
  /\ traced \in Traces

\* The guard is that of the state.
GuardOfState ==
  /\ pos = "idle" => guard \in Guards(0, 0)
  /\ pos = "pulling" => guard \in Guards(PullMs, 0)
  /\ pos = "redetect" => guard \in Guards(RedetectMs, RedetectCnt)

\* It counts what has happened, and has not tripped.
GuardCounts ==
  pos # "idle" =>
    /\ guard.run = traced.ran /\ guard.run < guard.maxMs /\ guard.stall < StallMs
    /\ traced.held < StallMs
    /\ drive = "high" => guard.since = 0 /\ traced.held = guard.stall /\ traced.away = guard.still

PullInv ==
  /\ PullTyped /\ GuardOfState /\ GuardCounts
  /\ pos = "pulling" => empty = traced.nones

LEMMA StateGuards ==
  ASSUME PullInv
  PROVE  /\ guard \in AnyGuard /\ guard.since \in 0..(StepMax + 1) /\ guard.stall \in Nat /\ guard.run \in Nat
         /\ guard.still \in 0..(Counts - 1) /\ guard.from \in 0..(Counts - 1)
         /\ pos = "pulling" => guard.maxMs = PullMs /\ guard.maxCnt = 0
         /\ pos = "redetect" => guard.maxMs = RedetectMs /\ guard.maxCnt = RedetectCnt
         /\ pos = "idle" => guard.maxMs = 0 /\ guard.maxCnt = 0
BY LimitsAssumption, PullAssumption
   DEF LimitsAssumption, PullAssumption, PullInv, PullTyped, GuardOfState, Guards, AnyGuard

LEMMA GuardFits ==
  ASSUME NEW g \in AnyGuard, NEW m \in Nat, NEW n \in Nat, g.maxMs = m, g.maxCnt = n,
         g.since \in 0..(StepMax + 1), g.run \in 0..m, g.stall \in 0..(StallMs + StepMax),
         g.from \in 0..(Counts - 1), g.still \in 0..(Counts - 1)
  PROVE  g \in Guards(m, n)
BY DEF Guards, AnyGuard

\* A check after a pass tells what has really happened.
LEMMA GuardTells ==
  ASSUME PullInv, pos # "idle", NEW d \in PullTicks, NEW move \in GearTurns,
         NEW g, g = motion_guard_check_at(GuardLater(guard, d, move), drive = "high")
  PROVE  /\ g \in AnyGuard /\ g.since = 0 /\ g.maxMs = guard.maxMs /\ g.maxCnt = guard.maxCnt
         /\ g.stall = Held(d, move) /\ g.still = Away(d, move)
         /\ g.run \in 0..g.maxMs
         /\ g.run = IF Ran(d) < g.maxMs THEN Ran(d) ELSE g.maxMs
         /\ g.stall \in 0..(StallMs + StepMax) /\ g.still \in 0..(Counts - 1) /\ g.from \in 0..(Counts - 1)
         /\ Ran(d) \in 0..(PullMs + RedetectMs)
<1>1. d \in Nat \ {0} /\ move \in 0..(Counts - 1)
  BY PullAssumption, LimitsAssumption DEF PullAssumption, LimitsAssumption, GearTurns
<1>2. /\ guard \in AnyGuard /\ guard.since \in 0..(StepMax + 1) /\ guard.stall \in Nat /\ guard.run \in Nat
      /\ guard.still \in 0..(Counts - 1) /\ guard.from \in 0..(Counts - 1)
      /\ guard.maxMs \in Nat \ {0} /\ guard.maxMs <= PullMs + RedetectMs
  BY StateGuards, PullAssumption DEF PullAssumption, PullInv, PullTyped
<1> DEFINE gap == guard.since + d > StepMax
           begins == gap \/ drive # "high" \/ ml_cnt_dist((guard.still + move) % Counts) >= StallMove
           dt == IF gap THEN 0 ELSE guard.since + d
<1>3. /\ g \in AnyGuard /\ g.since = 0 /\ g.maxMs = guard.maxMs /\ g.maxCnt = guard.maxCnt
      /\ g.run = Later(guard.run, dt, guard.maxMs)
      /\ g.stall = IF begins THEN 0 ELSE guard.stall + dt
      /\ g.still = IF begins THEN 0 ELSE (guard.still + move) % Counts
      /\ g.from = IF guard.maxCnt = 0 THEN 0 ELSE (guard.from + move) % Counts
  <2>1. d \in Int /\ move \in Int /\ guard.since >= 0 /\ d >= 0 /\ (drive = "high") \in BOOLEAN
    BY <1>1, <1>2, LimitsAssumption DEF LimitsAssumption
  <2>2. guard.maxMs # 0
    BY <1>2
  <2>3. guard \in AnyGuard
    BY <1>2
  <2> HIDE <1>1, <1>2
  <2>4. Tells(g, guard, d, move, drive = "high")
    BY <2>1, <2>3, CheckTells, Zenon DEF Checked
  <2> QED
    BY <2>2, <2>4 DEF Tells, Begins, InTime
<1>4. /\ guard.run = traced.ran /\ guard.run < guard.maxMs /\ guard.stall < StallMs
      /\ drive = "high" => guard.since = 0 /\ traced.held = guard.stall /\ traced.away = guard.still
      /\ traced \in Traces
  BY DEF PullInv, GuardCounts, PullTyped
<1>5. begins <=> GetsOn(d, move)
  BY <1>4 DEF GetsOn, Strays
<1>6. (guard.still + move) % Counts \in 0..(Counts - 1) /\ (guard.from + move) % Counts \in 0..(Counts - 1)
  BY <1>1, <1>2, InCounts
<1>7. g.still = Away(d, move) /\ g.still \in 0..(Counts - 1) /\ g.from \in 0..(Counts - 1)
  BY <1>3, <1>4, <1>5, <1>6, LimitsAssumption DEF LimitsAssumption, Away, Strays
<1>8. g.stall = Held(d, move) /\ g.stall \in 0..(StallMs + StepMax)
  <2>1. CASE begins
    BY <1>3, <1>5, <2>1, LimitsAssumption DEF LimitsAssumption, Held
  <2>2. CASE ~begins
    <3>1. drive = "high" /\ guard.since = 0 /\ d <= StepMax /\ dt = d
      BY <1>1, <1>2, <1>4, <2>2, LimitsAssumption DEF LimitsAssumption
    <3> HIDE DEF begins, dt
    <3>2. Later(traced.held, d, StallMs + StepMax) = guard.stall + d
      BY <1>1, <1>2, <1>4, <3>1, LimitsAssumption DEF LimitsAssumption, Later, Never
    <3> QED
      BY <1>1, <1>2, <1>3, <1>4, <1>5, <2>2, <3>1, <3>2, LimitsAssumption DEF LimitsAssumption, Held
  <2> QED
    BY <2>1, <2>2
<1>9. /\ Ran(d) = IF gap THEN guard.run ELSE Later(guard.run, dt, PullMs + RedetectMs)
      /\ Ran(d) \in 0..(PullMs + RedetectMs) /\ g.run \in 0..g.maxMs
      /\ g.run = IF Ran(d) < g.maxMs THEN Ran(d) ELSE g.maxMs
  BY <1>1, <1>2, <1>3, <1>4, PullAssumption DEF PullAssumption, Ran, Later, Never, Traces
<1> QED
  BY <1>3, <1>7, <1>8, <1>9

\* What a guard that has not tripped, or which limit has, says of what has happened.
LEMMA ResultTells ==
  ASSUME PullInv, pos # "idle", NEW d \in PullTicks, NEW move \in GearTurns,
         NEW g, g = motion_guard_check_at(GuardLater(guard, d, move), drive = "high")
  PROVE  /\ GuardResult(g) \in {"ok", "time", "dist", "stall"}
         /\ GuardResult(g) = "ok" => Held(d, move) < StallMs /\ Ran(d) < guard.maxMs /\ g.run = Ran(d)
         /\ GuardResult(g) = "stall" => Held(d, move) >= StallMs
         /\ GuardResult(g) = "time" => Ran(d) >= guard.maxMs
         /\ GuardResult(g) = "dist" => guard.maxCnt > 0
         /\ g \in Guards(guard.maxMs, guard.maxCnt)
<1>1. guard.maxMs \in Nat \ {0} /\ guard.maxCnt \in Nat
  BY StateGuards, PullAssumption DEF PullAssumption, PullInv, PullTyped
<1>2. /\ g \in AnyGuard /\ g.since = 0 /\ g.maxMs = guard.maxMs /\ g.maxCnt = guard.maxCnt
      /\ g.stall = Held(d, move) /\ g.run \in 0..g.maxMs
      /\ g.run = IF Ran(d) < g.maxMs THEN Ran(d) ELSE g.maxMs
      /\ g.stall \in 0..(StallMs + StepMax) /\ g.still \in 0..(Counts - 1) /\ g.from \in 0..(Counts - 1)
      /\ Ran(d) \in 0..(PullMs + RedetectMs)
  BY GuardTells
<1>3. g \in Guards(guard.maxMs, guard.maxCnt)
  <2>1. g.since \in 0..(StepMax + 1)
    BY <1>2, LimitsAssumption DEF LimitsAssumption
  <2> QED
    BY <1>1, <1>2, <2>1, GuardFits
<1> QED
  BY <1>1, <1>2, <1>3, LimitsAssumption DEF LimitsAssumption, GuardResult

LEMMA NoGuardFits == NoGuard \in Guards(0, 0)
BY LimitsAssumption DEF LimitsAssumption, NoGuard, motion_guard_start, Guards

LEMMA StartFits ==
  ASSUME NEW m \in Nat, NEW n \in Nat
  PROVE  motion_guard_start(m, n) \in Guards(m, n)
BY LimitsAssumption DEF LimitsAssumption, motion_guard_start, Guards

LEMMA UntracedFits == Untraced \in Traces
BY LimitsAssumption, PullAssumption DEF LimitsAssumption, PullAssumption, Untraced, Traces

LEMMA CountedFits ==
  ASSUME PullInv, NEW k \in BOOLEAN, NEW fresh \in BOOLEAN
  PROVE  /\ Counted(k, fresh) \in 0..Publications
         /\ Counted(k, fresh) >= Publications => ~k
         /\ Nones(k, fresh) \in 0..Publications
         /\ pos = "pulling" => Counted(k, fresh) = Nones(k, fresh)
<1>1. empty \in 0..Publications /\ traced.nones \in 0..Publications /\ (pos = "pulling" => empty = traced.nones)
  BY DEF PullInv, PullTyped, Traces
<1> QED
  BY <1>1, PullAssumption DEF PullAssumption, Counted, Nones, Later, Never

LEMMA Started ==
  ASSUME PullInv, NEW k \in BOOLEAN, NEW d \in PullTicks, calibrated' = calibrated, online' = k,
         StartPull(k, d)
  PROVE  PullInv'
<1>1. /\ pos = "idle" /\ asked /\ k /\ traced' = Untraced /\ PullTyped
      /\ drive' \in {"low", "none"} /\ empty' = 0 /\ asked' \in BOOLEAN /\ fault' \in BOOLEAN
      /\ \/ calibrated /\ pos' = "pulling" /\ target' \in Targets /\ dist' = 0
            /\ guard' = motion_guard_start(PullMs, 0)
         \/ pos' = pos /\ target' = target /\ dist' = dist /\ guard' = guard
  BY DEF StartPull, PullInv, PullTyped
<1>2. PullTyped'
  BY <1>1, UntracedFits, PullAssumption, LimitsAssumption DEF PullTyped, PullAssumption, LimitsAssumption
<1>3. GuardOfState'
  BY <1>1, StartFits, PullAssumption DEF PullInv, GuardOfState, PullAssumption
<1>4. GuardCounts'
  <2>1. CASE pos' = "pulling" /\ guard' = motion_guard_start(PullMs, 0)
    <3>1. guard'.run = 0 /\ guard'.stall = 0 /\ guard'.maxMs = PullMs
      BY <2>1 DEF motion_guard_start
    <3>2. traced'.ran = 0 /\ traced'.held = 0
      BY <1>1 DEF Untraced
    <3> QED
      BY <1>1, <3>1, <3>2, PullAssumption, LimitsAssumption DEF GuardCounts, PullAssumption, LimitsAssumption
  <2>2. CASE pos' = pos
    BY <1>1, <2>2 DEF GuardCounts
  <2> QED
    BY <1>1, <2>1, <2>2
<1>5. (pos = "pulling" => empty = traced.nones)'
  BY <1>1 DEF Untraced
<1> QED
  BY <1>2, <1>3, <1>4, <1>5 DEF PullInv

LEMMA PulledKeeps ==
  ASSUME PullInv, NEW k \in BOOLEAN, NEW fresh \in BOOLEAN, NEW d \in PullTicks, NEW move \in GearTurns,
         NEW brakes \in BOOLEAN, calibrated' = calibrated, online' = k,
         PullPass(k, fresh, d, move, brakes)
  PROVE  /\ PullInv'
         /\ pos' = "redetect" =>
              /\ traced'.reached \/ traced'.earned \/ traced'.nones >= Publications
              /\ fault' <=> online' /\ ~traced'.reached
<1> DEFINE g     == motion_guard_check_at(GuardLater(guard, d, move), drive = "high")
           moved == ml_cnt_dist((dist + move) % Counts)
           e     == Counted(k, fresh)
           end   == PullEnd(g, moved, e)
<1>1. /\ pos = "pulling" /\ PullTyped /\ calibrated /\ guard.maxMs = PullMs /\ guard.maxCnt = 0
  BY StateGuards DEF PullPass, PullInv, PullTyped
<1>2. /\ GuardResult(g) \in {"ok", "time", "dist", "stall"}
      /\ GuardResult(g) = "ok" => Held(d, move) < StallMs /\ Ran(d) < PullMs /\ g.run = Ran(d)
      /\ GuardResult(g) = "stall" => Held(d, move) >= StallMs
      /\ GuardResult(g) = "time" => Ran(d) >= PullMs
      /\ GuardResult(g) # "dist"
      /\ g \in Guards(PullMs, 0)
  BY <1>1, ResultTells
<1>3. /\ g.since = 0 /\ g.stall = Held(d, move) /\ g.still = Away(d, move)
      /\ g.stall \in 0..(StallMs + StepMax) /\ g.still \in 0..(Counts - 1)
      /\ Ran(d) \in 0..(PullMs + RedetectMs) /\ g.maxMs = PullMs
  BY <1>1, GuardTells
<1>4. e \in 0..Publications /\ (e >= Publications => ~k) /\ Nones(k, fresh) = e
  BY <1>1, CountedFits
<1>5. (dist + move) % Counts \in 0..(Counts - 1)
  <2>1. move \in 0..(Counts - 1) /\ dist \in 0..(Counts - 1)
    BY <1>1, PullAssumption, LimitsAssumption DEF PullAssumption, LimitsAssumption, GearTurns, PullTyped
  <2> QED
    BY <2>1, InCounts
<1>6. asked' = asked
  BY DEF PullPass
<1> HIDE DEF g, moved, e, end
<1>7. CASE end = "ok"
  <2>1. /\ guard' = g /\ dist' = (dist + move) % Counts /\ empty' = e /\ drive' \in {"none", "low", "high"}
        /\ pos' = pos /\ target' = target /\ fault' = FALSE
        /\ traced' = [ran |-> Ran(d), held |-> Held(d, move), away |-> Away(d, move),
                      nones |-> Nones(k, fresh), reached |-> moved >= target,
                      earned |-> Ran(d) >= PullMs \/ Held(d, move) >= StallMs]
    BY <1>7 DEF PullPass, g, moved, e, end
  <2>2. GuardResult(g) = "ok"
    BY <1>2, <1>7 DEF end, PullEnd
  <2>3. PullTyped'
    <3>1. traced' \in Traces
      <4>1. Ran(d) \in 0..(PullMs + RedetectMs) /\ Held(d, move) \in 0..(StallMs + StepMax)
            /\ Away(d, move) \in 0..(Counts - 1) /\ Nones(k, fresh) \in 0..Publications
        BY <1>3, <1>4
      <4>2. (moved >= target) \in BOOLEAN /\ (Ran(d) >= PullMs \/ Held(d, move) >= StallMs) \in BOOLEAN
        OBVIOUS
      <4> QED
        BY <2>1, <4>1, <4>2, Zenon DEF Traces
    <3> QED
      BY <1>1, <1>4, <1>5, <1>6, <2>1, <3>1 DEF PullTyped
  <2>4. GuardOfState'
    BY <1>1, <1>2, <2>1 DEF GuardOfState
  <2>5. GuardCounts'
    BY <1>2, <1>3, <2>1, <2>2 DEF GuardCounts
  <2>6. (pos = "pulling" => empty = traced.nones)'
    BY <1>4, <2>1
  <2> QED
    BY <1>1, <2>1, <2>3, <2>4, <2>5, <2>6 DEF PullInv
<1>8. CASE end # "ok"
  <2>1. /\ pos' = "redetect" /\ guard' = motion_guard_start(RedetectMs, RedetectCnt)
        /\ target' = 0 /\ dist' = 0 /\ drive' = "none" /\ empty' = e
        /\ fault' = FaultAfter(ml_is_limit(end), k, "redetect")
        /\ traced' = [ran |-> 0, held |-> 0, away |-> 0,
                      nones |-> Nones(k, fresh), reached |-> moved >= target,
                      earned |-> Ran(d) >= PullMs \/ Held(d, move) >= StallMs]
    BY <1>8 DEF PullPass, g, moved, e, end
  <2>2. fault' <=> ml_is_limit(end) /\ k
    <3>1. fault' = (ml_is_limit(end) /\ (IF k THEN 1 ELSE 0) # 0 /\ ~("redetect" = "pulling"))
      BY <2>1, Zenon DEF FaultAfter, ml_unload_fault_kept
    <3>2. (IF k THEN 1 ELSE 0) # 0 <=> k
      OBVIOUS
    <3> QED
      BY <3>1, <3>2
  <2>3. PullTyped'
    BY <1>1, <1>4, <1>6, <2>1, <2>2, PullAssumption, LimitsAssumption
       DEF PullTyped, Traces, PullAssumption, LimitsAssumption, FaultAfter, ml_unload_fault_kept
  <2>4. GuardOfState'
    BY <2>1, StartFits, PullAssumption DEF GuardOfState, PullAssumption
  <2>5. GuardCounts'
    BY <2>1, PullAssumption, LimitsAssumption
       DEF GuardCounts, motion_guard_start, PullAssumption, LimitsAssumption
  <2>6. (pos = "pulling" => empty = traced.nones)'
    BY <2>1
  <2>7. traced'.reached \/ traced'.earned \/ traced'.nones >= Publications
    BY <1>2, <1>4, <1>8, <2>1 DEF end, PullEnd
  <2>8. ml_is_limit(end) /\ k <=> k /\ ~traced'.reached
    BY <1>2, <1>4, <1>8, <2>1 DEF end, PullEnd, ml_is_limit
  <2> QED
    BY <2>1, <2>2, <2>3, <2>4, <2>5, <2>6, <2>7, <2>8 DEF PullInv
<1> QED
  BY <1>7, <1>8

LEMMA FaultFits ==
  ASSUME NEW f \in BOOLEAN, NEW k \in BOOLEAN, NEW p
  PROVE  FaultAfter(f, k, p) \in BOOLEAN
BY Zenon DEF FaultAfter, ml_unload_fault_kept

LEMMA RedetectKeeps ==
  ASSUME PullInv, NEW k \in BOOLEAN, NEW d \in PullTicks, NEW move \in GearTurns,
         NEW brakes \in BOOLEAN, calibrated' = calibrated, online' = k,
         RedetectPass(k, d, move, brakes)
  PROVE  PullInv'
<1> DEFINE g   == motion_guard_check_at(GuardLater(guard, d, move), drive = "high")
           end == RedetectEnd(g, k)
<1>1. /\ pos = "redetect" /\ PullTyped /\ guard.maxMs = RedetectMs /\ guard.maxCnt = RedetectCnt
  BY StateGuards DEF RedetectPass, PullInv
<1>2. /\ GuardResult(g) = "ok" => Held(d, move) < StallMs /\ Ran(d) < RedetectMs /\ g.run = Ran(d)
      /\ g \in Guards(RedetectMs, RedetectCnt)
  BY <1>1, ResultTells
<1>3. /\ g.since = 0 /\ g.stall = Held(d, move) /\ g.still = Away(d, move)
      /\ g.stall \in 0..(StallMs + StepMax) /\ g.still \in 0..(Counts - 1)
      /\ Ran(d) \in 0..(PullMs + RedetectMs) /\ g.maxMs = RedetectMs
  BY <1>1, GuardTells
<1> HIDE DEF g, end
<1>4. /\ traced' = [ran |-> Ran(d), held |-> Held(d, move), away |-> Away(d, move), nones |-> 0,
                    reached |-> FALSE, earned |-> FALSE]
      /\ fault' = FaultAfter(fault, k, "redetect") /\ empty' = 0 /\ target' = target /\ dist' = dist
      /\ \/ /\ end = "ok" /\ guard' = g /\ drive' \in {"none", "high"} /\ pos' = pos /\ asked' = asked
         \/ /\ pos' = "idle" /\ asked' = FALSE /\ guard' = NoGuard /\ drive' = "none"
  BY DEF RedetectPass, g, end
<1>5. traced' \in Traces
  <2>1. Ran(d) \in 0..(PullMs + RedetectMs) /\ Held(d, move) \in 0..(StallMs + StepMax)
        /\ Away(d, move) \in 0..(Counts - 1) /\ 0 \in 0..Publications
    BY <1>3, PullAssumption DEF PullAssumption
  <2> QED
    BY <1>4, <2>1, Zenon DEF Traces
<1>6. fault' \in BOOLEAN
  BY <1>1, <1>4, FaultFits DEF PullTyped
<1>7. PullTyped'
  <2>1. pos' \in {"idle", "redetect"} /\ drive' \in {"none", "low", "high"} /\ pos' # "pulling"
    BY <1>1, <1>4
  <2>2. asked' \in BOOLEAN
    BY <1>1, <1>4, Zenon DEF PullTyped
  <2>3. empty' \in 0..Publications /\ target' \in Targets \cup {0} /\ dist' \in 0..(Counts - 1)
    BY <1>1, <1>4, PullAssumption DEF PullTyped, PullAssumption
  <2>4. calibrated' \in BOOLEAN /\ online' \in BOOLEAN
    BY <1>1, Zenon DEF PullTyped
  <2> QED
    BY <1>5, <1>6, <2>1, <2>2, <2>3, <2>4, Zenon DEF PullTyped
<1>8. GuardOfState'
  BY <1>1, <1>2, <1>4, NoGuardFits DEF GuardOfState
<1>9. GuardCounts'
  <2>1. end = "ok" => GuardResult(g) = "ok"
    BY DEF end, RedetectEnd
  <2> QED
    BY <1>1, <1>2, <1>3, <1>4, <2>1 DEF GuardCounts
<1> QED
  BY <1>1, <1>4, <1>7, <1>8, <1>9 DEF PullInv

LEMMA IdleKeeps ==
  ASSUME PullInv, NEW k \in BOOLEAN, calibrated' = calibrated, online' = k, IdlePass(k)
  PROVE  PullInv'
<1>1. fault' \in BOOLEAN
  BY FaultFits DEF IdlePass, PullInv, PullTyped
<1> QED
  BY <1>1, PullAssumption DEF IdlePass, PullInv, PullTyped, GuardOfState, GuardCounts, PullAssumption

\* Time passes for a guard that is not checked.
LEMMA Waits ==
  ASSUME PullInv, NEW d \in PullTicks, NEW move \in GearTurns, NEW g, g = GuardLater(guard, d, move)
  PROVE  g \in Guards(guard.maxMs, guard.maxCnt) /\ g.run = guard.run /\ g.stall = guard.stall /\ g.maxMs = guard.maxMs
<1>1. d \in Nat \ {0} /\ move \in 0..(Counts - 1)
  BY PullAssumption, LimitsAssumption DEF PullAssumption, LimitsAssumption, GearTurns
<1>2. /\ guard \in AnyGuard /\ guard.since \in 0..(StepMax + 1) /\ guard.still \in 0..(Counts - 1)
      /\ guard.from \in 0..(Counts - 1) /\ guard \in Guards(guard.maxMs, guard.maxCnt)
  BY StateGuards DEF PullInv, PullTyped, GuardOfState
<1>3. (guard.still + move) % Counts \in 0..(Counts - 1) /\ (guard.from + move) % Counts \in 0..(Counts - 1)
  BY <1>1, <1>2, InCounts
<1>4. Later(guard.since, d, StepMax + 1) \in 0..(StepMax + 1)
  BY <1>1, <1>2, LimitsAssumption DEF LimitsAssumption, Later, Never
<1> DEFINE s == Later(guard.since, d, StepMax + 1)
           f == IF guard.maxCnt = 0 THEN 0 ELSE (guard.from + move) % Counts
           m == (guard.still + move) % Counts
<1>5. f \in 0..(Counts - 1)
  BY <1>3, LimitsAssumption DEF LimitsAssumption
<1>6. g = [guard EXCEPT !.since = s, !.from = f, !.still = m]
  BY DEF GuardLater
<1> HIDE DEF s, f, m
<1>7. g = [since |-> s, run |-> guard.run, stall |-> guard.stall, from |-> f, still |-> m,
           maxMs |-> guard.maxMs, maxCnt |-> guard.maxCnt]
  BY <1>2, <1>6, Zenon DEF AnyGuard
<1> QED
  BY <1>2, <1>3, <1>4, <1>5, <1>7 DEF Guards, s, m

LEMMA OfflineKeeps ==
  ASSUME PullInv, NEW k \in BOOLEAN, NEW fresh \in BOOLEAN, NEW d \in PullTicks, NEW move \in GearTurns,
         calibrated' = calibrated, online' = k, OfflinePass(k, fresh, d, move)
  PROVE  PullInv'
<1>1. PullTyped /\ traced \in Traces /\ dist \in 0..(Counts - 1) /\ fault \in BOOLEAN
  BY DEF PullInv, PullTyped
<1>2. fault' \in BOOLEAN
  BY <1>1, FaultFits DEF OfflinePass
<1>3. /\ Counted(k, fresh) \in 0..Publications /\ Nones(k, fresh) \in 0..Publications
      /\ pos = "pulling" => Counted(k, fresh) = Nones(k, fresh)
  BY CountedFits
<1> DEFINE n == IF pos = "pulling" THEN Nones(k, fresh) ELSE 0
<1>4. n \in 0..Publications
  BY <1>3, PullAssumption DEF PullAssumption
<1>5. traced' = [traced EXCEPT !.held = 0, !.away = 0, !.nones = n]
  BY DEF OfflinePass
<1> HIDE DEF n
<1>6. /\ traced' \in Traces /\ traced'.ran = traced.ran /\ traced'.held = 0 /\ traced'.nones = n
  <2>1. traced' = [ran |-> traced.ran, held |-> 0, away |-> 0, nones |-> n,
                   reached |-> traced.reached, earned |-> traced.earned]
    BY <1>1, <1>5, Zenon DEF Traces
  <2>2. /\ traced.ran \in 0..(PullMs + RedetectMs) /\ traced.reached \in BOOLEAN /\ traced.earned \in BOOLEAN
        /\ 0 \in 0..(StallMs + StepMax) /\ 0 \in 0..(Counts - 1)
    BY <1>1, LimitsAssumption DEF Traces, LimitsAssumption
  <2> QED
    BY <1>4, <2>1, <2>2, Zenon DEF Traces
<1>7. dist' \in 0..(Counts - 1)
  <2>1. move \in 0..(Counts - 1)
    BY PullAssumption, LimitsAssumption DEF PullAssumption, LimitsAssumption, GearTurns
  <2> QED
    BY <1>1, <2>1, InCounts DEF OfflinePass
<1>8. PullTyped'
  BY <1>1, <1>2, <1>3, <1>6, <1>7 DEF OfflinePass, PullTyped
<1>9. GuardOfState'
  BY Waits, StateGuards DEF OfflinePass, PullInv, GuardOfState
<1>10. GuardCounts'
  BY <1>6, Waits, LimitsAssumption DEF OfflinePass, PullInv, GuardCounts, LimitsAssumption
<1>11. (pos = "pulling" => empty = traced.nones)'
  BY <1>3, <1>6 DEF OfflinePass, n
<1> QED
  BY <1>8, <1>9, <1>10, <1>11 DEF PullInv

LEMMA PullStart == PullInit => PullInv
<1> SUFFICES ASSUME PullInit PROVE PullInv
  OBVIOUS
<1>1. PullTyped
  <2>1. 0 \in 0..Publications /\ 0 \in 0..(Counts - 1)
    BY LimitsAssumption, PullAssumption DEF LimitsAssumption, PullAssumption
  <2>2. pos = "idle" /\ pos # "pulling" /\ asked \in BOOLEAN /\ fault \in BOOLEAN /\ traced \in Traces
    BY UntracedFits DEF PullInit
  <2> QED
    BY <2>1, <2>2, Zenon DEF PullInit, PullTyped
<1> QED
  BY <1>1, NoGuardFits DEF PullInit, PullInv, GuardOfState, GuardCounts

\* An end of the pull back is earned and told as it is.
EndIsTrue ==
  pos = "pulling" /\ pos' = "redetect" =>
    /\ traced'.reached \/ traced'.earned \/ traced'.nones >= Publications
    /\ fault' <=> online' /\ ~traced'.reached

LEMMA PullStep == PullInv /\ [PullNext]_pullVars => PullInv' /\ EndIsTrue
<1> SUFFICES ASSUME PullInv, [PullNext]_pullVars PROVE PullInv' /\ EndIsTrue
  OBVIOUS
<1>1. CASE Passes(PullTicks)
  <2>1. PICK d \in PullTicks, move \in GearTurns, k \in BOOLEAN, fresh \in BOOLEAN, brakes \in BOOLEAN :
          UnloadPass(d, move, k, fresh, brakes)
    BY <1>1 DEF Passes
  <2>2. calibrated' = calibrated /\ online' = k
    BY <2>1 DEF UnloadPass, KeyRead
  <2>3. CASE StartPull(k, d)
    BY <2>2, <2>3, Started DEF EndIsTrue, StartPull
  <2>4. CASE IdlePass(k)
    BY <2>2, <2>4, IdleKeeps DEF EndIsTrue, IdlePass
  <2>5. CASE PullPass(k, fresh, d, move, brakes)
    BY <2>2, <2>5, PulledKeeps DEF EndIsTrue
  <2>6. CASE RedetectPass(k, d, move, brakes)
    BY <2>2, <2>6, RedetectKeeps DEF EndIsTrue, RedetectPass
  <2> QED
    BY <2>1, <2>3, <2>4, <2>5, <2>6 DEF UnloadPass
<1>2. CASE Printer
  BY <1>2 DEF Printer, PullInv, PullTyped, GuardOfState, GuardCounts, EndIsTrue
<1>3. CASE \E d \in PullTicks, move \in GearTurns, k \in BOOLEAN, fresh \in BOOLEAN :
             KeyRead(k, fresh) /\ OfflinePass(k, fresh, d, move)
  <2>1. PICK d \in PullTicks, move \in GearTurns, k \in BOOLEAN, fresh \in BOOLEAN :
          KeyRead(k, fresh) /\ OfflinePass(k, fresh, d, move)
    BY <1>3
  <2>2. calibrated' = calibrated /\ online' = k
    BY <2>1 DEF KeyRead
  <2> QED
    BY <2>1, <2>2, OfflineKeeps DEF EndIsTrue, OfflinePass
<1>4. CASE UNCHANGED pullVars
  BY <1>4 DEF pullVars, PullInv, PullTyped, GuardOfState, GuardCounts, EndIsTrue
<1> QED
  BY <1>1, <1>2, <1>3, <1>4 DEF PullNext

\* An unload drives within its time and not into a blocked gear, ends for what was really read,
\* and says truly what it left, for all times, lengths and turns of the gear.
THEOREM UnloadsTrue == PullSpec => UnloadsEndTrue
<1>1. PullInv => PullTypeOK /\ BlockedIsFound /\ DrivenInTime
  BY StateGuards DEF PullInv, PullTyped, Traces, GuardOfState, GuardCounts, PullTypeOK, BlockedIsFound, DrivenInTime
<1>2. EndIsTrue =>
        /\ pos = "pulling" /\ pos' = "redetect" =>
             traced'.reached \/ traced'.earned \/ traced'.nones >= Publications
        /\ pos = "pulling" /\ pos' = "redetect" => (fault' <=> online' /\ ~traced'.reached)
  BY DEF EndIsTrue
<1> QED
  BY <1>1, <1>2, PullStart, PullStep, PTL DEF PullSpec, UnloadsEndTrue, EveryEndIsEarned, FaultIffUnfinished
-----------------------------------------------------------------------------
(* A load.                                                                 *)

\* What the limits of a push, and what they go by, are read from.
Parts == {"motion", "send", "aborted", "latched", "stall", "thresh", "x", "ks", "idle", "rest", "hi", "low"}

Whole(s) == Parts \subseteq DOMAIN s

\* A control that leaves the load as it is.
Leaves(s, t) ==
  /\ Whole(t) /\ t.motion = s.motion /\ t.send = s.send
  /\ t.aborted = s.aborted /\ t.latched = s.latched /\ t.thresh = s.thresh

LEMMA BrakeLeaves ==
  ASSUME NEW s, Whole(s)
  PROVE  Leaves(s, Brake(s)) /\ Brake(s).x = 0 /\ Brake(s).stall = s.stall
BY DEF Whole, Parts, Leaves, Brake

LEMMA ForceLeaves ==
  ASSUME NEW s, Whole(s), NEW x, NEW d
  PROVE  /\ Leaves(s, FullForce(s, x, d)) /\ FullForce(s, x, d).stall = s.stall
         /\ FullForce(s, x, d).x \in {x, 0}
<1> DEFINE hi == IF x < -FullPwm THEN AtMost(s.hi + d, PushMaxMs) ELSE 0
<1>1. CASE s.motion # "on_use" \/ s.low \/ ~s.ks
  <2>1. FullForce(s, x, d) = [s EXCEPT !.hi = 0, !.x = x]
    BY <1>1, Zenon DEF FullForce
  <2> QED
    BY <2>1 DEF Whole, Parts, Leaves
<1>2. CASE ~(s.motion # "on_use" \/ s.low \/ ~s.ks) /\ hi = PushMaxMs
  <2>1. FullForce(s, x, d) = [Brake(s) EXCEPT !.hi = 0, !.low = TRUE]
    BY <1>2, Zenon DEF FullForce
  <2> QED
    BY <2>1 DEF Whole, Parts, Leaves, Brake
<1>3. CASE ~(s.motion # "on_use" \/ s.low \/ ~s.ks) /\ hi # PushMaxMs
  <2>1. FullForce(s, x, d) = [s EXCEPT !.hi = hi, !.x = x]
    BY <1>3, Zenon DEF FullForce
  <2> QED
    BY <2>1 DEF Whole, Parts, Leaves
<1> QED
  BY <1>1, <1>2, <1>3

\* The stall clock of the anti-stall after a pass.
Stalled(s, a, holds, still, d) ==
  IF Strained(a, AtLeastMoves(a, Floored(a.x, s, holds)), still) THEN s.stall + d ELSE 0

\* What it makes of a channel.
DriveTells(s, a, like, holds, still, d, t) ==
  LET x     == AtLeastMoves(a, Floored(a.x, s, holds))
      stall == Stalled(s, a, holds, still, d)
  IN /\ Leaves(s, t)
     /\ ~like => t.stall = 0 /\ t.x \in {0, Floored(a.x, s, holds)}
     /\ like => \/ t.x = 0 /\ t.stall \in {s.stall, 0}
                \/ /\ t.stall = stall /\ ~(t.stall > StallRestMs)
                   /\ t.x \in {0, IF stall > KickMs THEN Signed(x, 850) ELSE x}

LEMMA DrivenLeaves ==
  ASSUME NEW s, Whole(s), NEW a, NEW like, NEW holds, NEW still, NEW d,
         NEW t, t = Driven(s, a, like, holds, still, d)
  PROVE  DriveTells(s, a, like, holds, still, d, t)
<1> DEFINE x == AtLeastMoves(a, Floored(a.x, s, holds))
           stall == Stalled(s, a, holds, still, d)
           y == IF stall > KickMs THEN Signed(x, 850) ELSE x
<1>1. CASE ~like
  <2> DEFINE u == [s EXCEPT !.stall = 0, !.rest = 0]
  <2>1. Whole(u) /\ Leaves(s, u) /\ u.stall = 0
    BY DEF Whole, Parts, Leaves
  <2>2. t = FullForce(u, Floored(a.x, s, holds), d)
    BY <1>1, Zenon DEF Driven
  <2> HIDE DEF u
  <2>3. Leaves(s, t) /\ t.stall = 0 /\ t.x \in {0, Floored(a.x, s, holds)}
    BY <2>1, <2>2, ForceLeaves DEF Leaves
  <2> QED
    BY <1>1, <2>3, Zenon DEF DriveTells
<1>2. CASE like /\ s.rest > 0
  <2>1. t = Brake(s)
    BY <1>2, Zenon DEF Driven
  <2> QED
    BY <1>2, <2>1, BrakeLeaves DEF DriveTells
<1>3. CASE like /\ ~(s.rest > 0) /\ stall > StallRestMs
  <2>1. t = RestBegins(s)
    BY <1>3, Zenon DEF Driven, Stalled
  <2>2. Leaves(s, t) /\ t.x = 0 /\ t.stall = 0
    BY <2>1 DEF RestBegins, Brake, Whole, Parts, Leaves
  <2> QED
    BY <1>3, <2>2 DEF DriveTells
<1>4. CASE like /\ ~(s.rest > 0) /\ ~(stall > StallRestMs)
  <2> DEFINE u == [s EXCEPT !.stall = stall]
  <2>1. Whole(u) /\ Leaves(s, u) /\ u.stall = stall
    BY DEF Whole, Parts, Leaves
  <2>2. t = FullForce(u, y, d)
    BY <1>4, Zenon DEF Driven, Stalled
  <2> HIDE DEF u, stall, x
  <2>3. Leaves(s, t) /\ t.stall = stall /\ t.x \in {y, 0}
    BY <2>1, <2>2, ForceLeaves DEF Leaves
  <2> QED
    BY <1>4, <2>3 DEF stall, x, DriveTells
<1> QED
  BY <1>1, <1>2, <1>3, <1>4

LEMMA MagHas ==
  ASSUME NEW x \in Int
  PROVE  Mag(x) \in Nat
BY DEF Mag

LEMMA SignedHas ==
  ASSUME NEW x \in Int, NEW m \in Nat
  PROVE  Signed(x, m) \in Int /\ Mag(Signed(x, m)) = m
<1>1. CASE x < 0
  BY <1>1 DEF Signed, Mag
<1>2. CASE ~(x < 0)
  BY <1>2 DEF Signed, Mag
<1> QED
  BY <1>1, <1>2

LEMMA LeastHas ==
  ASSUME NEW f \in Int, NEW a
  PROVE  AtLeastMoves(a, f) \in Int /\ (AtLeastMoves(a, f) = f \/ Mag(AtLeastMoves(a, f)) < 800)
<1> DEFINE raises == a.move /\ f # 0 /\ ~a.linear /\ a.err >= 130 /\ Mag(f) < 500
<1>1. CASE raises
  <2>1. AtLeastMoves(a, f) = Signed(f, 500)
    BY <1>1, Zenon DEF AtLeastMoves
  <2>2. Signed(f, 500) \in Int /\ Mag(Signed(f, 500)) = 500
    BY SignedHas
  <2> HIDE DEF raises
  <2>3. AtLeastMoves(a, f) \in Int /\ Mag(AtLeastMoves(a, f)) = 500
    BY <2>1, <2>2, Zenon
  <2> QED
    BY <2>3
<1>2. CASE ~raises
  <2>1. AtLeastMoves(a, f) = f
    BY <1>2, Zenon DEF AtLeastMoves
  <2> QED
    BY <2>1
<1> QED
  BY <1>1, <1>2

\* A PWM that a stall is looked for at has been asked for.
LEMMA HardIsAsked ==
  ASSUME NEW a, a.x \in Int, NEW s
  PROVE  LET x == AtLeastMoves(a, Floored(a.x, s, TRUE))
         IN x \in Int /\ (Mag(x) < 800 \/ Mag(a.x) >= 800)
<1> DEFINE r == Raised(a.x, s, TRUE)
           cap == IF s.motion = "idle" THEN 800 ELSE 1000
           f == Floored(a.x, s, TRUE)
<1>1. r \in Int /\ (Mag(r) >= 800 => Mag(a.x) >= 800)
  BY DEF Raised, Mag, Signed
<1>2. cap \in {800, 1000} /\ f = Signed(a.x, AtMost(Mag(r), cap))
  BY DEF Floored
<1> HIDE DEF r, cap, f
<1>3. /\ AtMost(Mag(r), cap) \in Nat
      /\ AtMost(Mag(r), cap) >= 800 => Mag(r) >= 800
  BY <1>1, <1>2 DEF AtMost, Mag
<1>4. f \in Int /\ Mag(f) \in Int /\ (Mag(f) < 800 \/ Mag(a.x) >= 800)
  BY <1>1, <1>2, <1>3 DEF Mag, Signed
<1>5. AtLeastMoves(a, f) \in Int /\ (AtLeastMoves(a, f) = f \/ Mag(AtLeastMoves(a, f)) < 800)
  BY <1>4, LeastHas
<1>6. AtLeastMoves(a, f) \in Int /\ (Mag(AtLeastMoves(a, f)) < 800 \/ Mag(a.x) >= 800)
  <2>1. CASE AtLeastMoves(a, f) = f
    BY <2>1, <1>4, Zenon
  <2>2. CASE Mag(AtLeastMoves(a, f)) < 800
    BY <2>2, <1>5, Zenon
  <2> QED
    BY <2>1, <2>2, <1>5, Zenon
<1> QED
  BY <1>6, Zenon DEF f

\* What the constants are, one assumption at a time.
LEMMA LevelsAre == Levels \subseteq 0..10000 /\ 2 * SendMax < Counts
BY PushAssumption, SMTT(30) DEF PushAssumption

LEMMA TicksAre == Ticks \subseteq Nat \ {0} /\ \A d \in Ticks : d <= StepMax
BY PushAssumption, SMTT(30) DEF PushAssumption

LEMMA MovesAre == Moves \subseteq 0..(Counts - 1)
BY PushAssumption, SMTT(30) DEF PushAssumption

LEMMA NumbersAre ==
  /\ SendMax \in Nat \ {0} /\ StallRestMs \in Nat /\ KickMs \in Nat /\ RestMs \in Nat
  /\ PwmHi \in Int /\ PwmLo \in Int /\ HoldTarget \in Int /\ HoldBandLo \in Int /\ PushStart \in Int
BY LoadAssumption, SMTT(30) DEF LoadAssumption

LEMMA LimitsAre ==
  /\ StepMax \in Nat \ {0} /\ StallMs \in Nat \ {0} /\ StallMove \in Nat \ {0} /\ Counts \in Nat \ {0}
BY LimitsAssumption, SMTT(30) DEF LimitsAssumption

\* The hold pushes as hard as a stall only far from where it holds.
LEMMA HoldAsks ==
  ASSUME NEW s, s.thresh \in Int, NEW pct \in Levels
  PROVE  /\ hold_load(s, pct).x \in Int /\ hold_load(s, pct).move \in BOOLEAN
         /\ \/ Mag(hold_load(s, pct).x) < 800
            \/ hold_load(s, pct).move /\ hold_load(s, pct).err >= 200
<1> DEFINE miss == pct - HoldFor(s)
           mag == retract_mag_from_err(miss)
<1>1. pct \in Int /\ HoldFor(s) \in Int /\ miss \in Int
  <2>1. pct \in Int /\ HoldTarget \in Int
    BY LevelsAre, NumbersAre
  <2>2. HoldFor(s) \in Int
    BY <2>1 DEF HoldFor
  <2> QED
    BY <2>1, <2>2
<1>2. CASE HoldRetracts(s, pct)
  <2>1. hold_load(s, pct) = Asks(mag, miss, FALSE)
    BY <1>2, Zenon DEF hold_load
  <2> HIDE DEF miss
  <2>2. mag \in Nat /\ (mag < 800 \/ miss >= 200)
    BY <1>1 DEF retract_mag_from_err, AtMost
  <2> HIDE DEF mag
  <2>3. Mag(mag) = mag
    BY <2>2 DEF Mag
  <2> QED
    BY <2>1, <2>2, <2>3 DEF Asks
<1>3. CASE ~HoldRetracts(s, pct) /\ pct >= HoldTarget - HoldBandLo
  <2>1. hold_load(s, pct) = Rests
    BY <1>3, Zenon DEF hold_load
  <2> QED
    BY <2>1 DEF Rests, Mag
<1>4. CASE ~HoldRetracts(s, pct) /\ ~(pct >= HoldTarget - HoldBandLo)
  <2>1. hold_load(s, pct) = Asks(-HoldPush(pct), HoldTarget - pct, TRUE)
    BY <1>4, Zenon DEF hold_load
  <2>2. pct < HoldTarget - HoldBandLo
    BY <1>1, <1>4, LoadAssumption DEF LoadAssumption
  <2>3. HoldPush(pct) \in Nat /\ (HoldPush(pct) >= 800 => HoldTarget - pct >= 200)
    BY <2>2, LoadAssumption DEF LoadAssumption, StallPwm
  <2>4. -HoldPush(pct) \in Int /\ Mag(-HoldPush(pct)) = HoldPush(pct)
    BY <2>3 DEF Mag
  <2> QED
    BY <2>1, <2>3, <2>4 DEF Asks
<1> QED
  BY <1>2, <1>3, <1>4

HoldTells(s, like, still, d, t) ==
  /\ Leaves(s, t)
  /\ ~like => t.stall = 0
  /\ like => /\ t.stall \in Nat
             /\ t.x \in Int /\ (t.x # 0 => t.stall <= StallRestMs)
             /\ Mag(t.x) < 800 \/ (still => t.stall = s.stall + d)

LEMMA HoldKeeps ==
  ASSUME NEW s, Whole(s), s.thresh \in Int, NEW pct \in Levels, NEW like \in BOOLEAN,
         NEW still \in BOOLEAN, NEW d \in Nat, s.stall \in Nat,
         NEW t, t = RunHold(s, pct, like, still, d)
  PROVE  HoldTells(s, like, still, d, t)
<1> DEFINE r == [s EXCEPT !.rhys = HoldRetracts(s, pct)]
           a == hold_load(s, pct)
           x == AtLeastMoves(a, Floored(a.x, r, TRUE))
           stall == Stalled(r, a, TRUE, still, d)
<1>1. Whole(r) /\ Leaves(s, r) /\ r.stall = s.stall
  BY DEF Whole, Parts, Leaves
<1>2. /\ a.x \in Int /\ a.move \in BOOLEAN /\ (Mag(a.x) < 800 \/ (a.move /\ a.err >= 200))
      /\ x \in Int /\ (Mag(x) < 800 \/ Mag(a.x) >= 800) /\ Mag(a.x) \in Int /\ Mag(x) \in Int
  <2>1. a.x \in Int /\ a.move \in BOOLEAN /\ (Mag(a.x) < 800 \/ (a.move /\ a.err >= 200))
    BY HoldAsks, Zenon
  <2> HIDE DEF r, a
  <2>2. x \in Int /\ (Mag(x) < 800 \/ Mag(a.x) >= 800)
    BY <2>1, HardIsAsked
  <2> HIDE DEF x
  <2>3. Mag(a.x) \in Int /\ Mag(x) \in Int
    BY <2>1, <2>2, MagHas
  <2> QED
    BY <2>1, <2>2, <2>3, Zenon
<1>3. t = Driven(r, a, like, TRUE, still, d)
  BY DEF RunHold
<1> HIDE DEF r, a
<1>4. /\ Leaves(r, t)
      /\ ~like => t.stall = 0
      /\ like => \/ t.x = 0 /\ t.stall \in {r.stall, 0}
                 \/ /\ t.stall = stall /\ ~(t.stall > StallRestMs)
                    /\ t.x \in {0, IF stall > KickMs THEN Signed(x, 850) ELSE x}
  <2>1. DriveTells(r, a, like, TRUE, still, d, t)
    BY <1>1, <1>3, DrivenLeaves
  <2> QED
    BY <2>1, Zenon DEF DriveTells
<1>5. stall \in {0, s.stall + d} /\ (stall = 0 \/ stall = s.stall + d)
      /\ (Strained(a, x, still) => stall = s.stall + d)
      /\ (~Strained(a, x, still) => stall = 0)
  BY <1>1 DEF Stalled
<1>6. StallRestMs \in Nat /\ KickMs \in Nat
  BY NumbersAre
<1> HIDE DEF stall, x
<1>7. Mag(x) >= 800 /\ still => Strained(a, x, still)
  BY <1>2 DEF Strained
<1>8. ASSUME like
      PROVE  /\ t.stall \in Nat
             /\ t.x \in Int /\ (t.x # 0 => t.stall <= StallRestMs)
             /\ Mag(t.x) < 800 \/ (still => t.stall = s.stall + d)
  <2>1. CASE t.x = 0 /\ t.stall \in {r.stall, 0}
    BY <1>1, <2>1 DEF Mag
  <2>2. CASE t.stall = stall /\ ~(t.stall > StallRestMs) /\ t.x = 0
    BY <1>5, <2>2 DEF Mag
  <2>3. CASE t.stall = stall /\ ~(t.stall > StallRestMs) /\ stall > KickMs /\ t.x = Signed(x, 850)
    <3>1. stall = s.stall + d
      BY <1>5, <1>6, <2>3
    <3>2. Signed(x, 850) \in Int
      BY <1>2, SignedHas
    <3>3. t.x \in Int
      BY <2>3, <3>2
    <3> QED
      BY <1>6, <2>3, <3>1, <3>3
  <2>4. CASE t.stall = stall /\ ~(t.stall > StallRestMs) /\ t.x = x
    <3>1. Mag(x) < 800 \/ (still => stall = s.stall + d)
      BY <1>2, <1>5, <1>7
    <3>2. Mag(t.x) < 800 \/ (still => t.stall = s.stall + d)
      BY <2>4, <3>1, Zenon
    <3> QED
      BY <1>2, <1>5, <1>6, <2>4, <3>2
  <2> QED
    BY <1>4, <1>8, <2>1, <2>2, <2>3, <2>4
<1>9. Leaves(s, t)
  BY <1>1, <1>4 DEF Leaves
<1> QED
  BY <1>4, <1>8, <1>9, Zenon DEF HoldTells

\* What a pass of a load makes of a channel, and of its guard g.
SendTells(s, g, still, d, r) ==
  /\ Whole(r) /\ r.motion = s.motion /\ r.send = IF s.aborted THEN s.send ELSE g
  /\ r.aborted \in BOOLEAN /\ (r.aborted <=> s.aborted \/ GuardTripped(g))
  /\ r.aborted => r.x = 0 /\ r.latched = s.latched
  /\ r.latched \in BOOLEAN /\ (s.latched => r.latched)
  /\ r.latched => r.stall \in Nat /\ r.thresh \in Int
  /\ r.latched /\ ~r.aborted =>
       \/ r.x = 0
       \/ ~s.latched /\ r.stall = 0
       \/ /\ s.latched /\ r.x \in Int /\ r.stall <= StallRestMs
          /\ Mag(r.x) < 800 \/ (still => r.stall = s.stall + d)

LEMMA RunSendTells ==
  ASSUME NEW s, Whole(s), s.aborted \in BOOLEAN, s.latched \in BOOLEAN,
         s.latched => s.stall \in Nat /\ s.thresh \in Int,
         NEW pct \in Levels, NEW still \in BOOLEAN, NEW d \in Nat, NEW ask,
         NEW g, g = motion_guard_check_at(s.send, Mag(s.x) >= StallPwm),
         NEW r, r = RunSend(s, pct, still, d, ask)
  PROVE  SendTells(s, g, still, d, r)
<1> DEFINE trips == GuardTripped(g)
           t == [s EXCEPT !.send = IF s.aborted THEN @ ELSE g, !.aborted = @ \/ trips]
           u == [t EXCEPT !.hard = FALSE]
           v == IF Latches(u, pct) THEN [u EXCEPT !.latched = TRUE, !.thresh = pct, !.rhys = FALSE] ELSE u
<1>1. r = IF t.aborted THEN Brake(t)
          ELSE IF Hard(t, pct) THEN [Brake(t) EXCEPT !.hard = TRUE]
          ELSE IF v.latched THEN RunHold(v, pct, s.latched, still, d)
          ELSE Driven(v, [Rests EXCEPT !.x = ask], FALSE, FALSE, still, d)
  BY DEF RunSend
<1>2. trips \in BOOLEAN
  BY DEF GuardTripped, ml_is_limit
<1> HIDE DEF trips
<1>3. /\ Whole(t) /\ t.motion = s.motion /\ t.send = (IF s.aborted THEN s.send ELSE g)
      /\ t.aborted = (s.aborted \/ trips) /\ t.latched = s.latched /\ t.thresh = s.thresh
      /\ t.stall = s.stall
  BY DEF Whole, Parts
<1> HIDE DEF t
<1>4. Whole(u) /\ Leaves(t, u) /\ u.stall = t.stall
  BY <1>3 DEF Whole, Parts, Leaves
<1> HIDE DEF u
<1>5. pct \in Int
  BY LevelsAre
<1>6. /\ Whole(v) /\ v.motion = s.motion /\ v.send = t.send /\ v.aborted = t.aborted
      /\ v.stall = s.stall /\ v.latched \in BOOLEAN
      /\ s.latched => v.latched /\ v.thresh = s.thresh
      /\ v.latched /\ ~s.latched => v.thresh = pct
  <2>1. CASE Latches(u, pct)
    <3>1. v = [u EXCEPT !.latched = TRUE, !.thresh = pct, !.rhys = FALSE]
      BY <2>1
    <3>2. ~u.latched
      BY <2>1 DEF Latches
    <3> HIDE DEF v
    <3> QED
      BY <1>3, <1>4, <3>1, <3>2 DEF Whole, Parts, Leaves
  <2>2. CASE ~Latches(u, pct)
    BY <1>3, <1>4, <2>2 DEF Leaves
  <2> QED
    BY <2>1, <2>2
<1> HIDE DEF v
<1>7. CASE t.aborted
  <2>1. Leaves(t, r) /\ r.x = 0 /\ r.stall = t.stall
    BY <1>1, <1>3, <1>7, BrakeLeaves
  <2> QED
    BY <1>2, <1>3, <1>7, <2>1 DEF SendTells, Leaves, trips
<1>8. CASE ~t.aborted /\ Hard(t, pct)
  <2>1. r = [Brake(t) EXCEPT !.hard = TRUE]
    BY <1>1, <1>8
  <2>2. Leaves(t, r) /\ r.x = 0 /\ r.stall = t.stall
    BY <1>3, <2>1 DEF Brake, Whole, Parts, Leaves
  <2> QED
    BY <1>2, <1>3, <1>8, <2>2 DEF SendTells, Leaves, trips
<1>9. CASE ~t.aborted /\ ~Hard(t, pct) /\ v.latched /\ s.latched
  <2>1. r = RunHold(v, pct, s.latched, still, d)
    BY <1>1, <1>9
  <2>2. v.thresh \in Int /\ v.stall \in Nat
    BY <1>6, <1>9
  <2>3. HoldTells(v, s.latched, still, d, r)
    BY <1>6, <2>1, <2>2, HoldKeeps
  <2>4. /\ Leaves(v, r) /\ r.stall \in Nat /\ r.x \in Int /\ (r.x # 0 => r.stall <= StallRestMs)
        /\ Mag(r.x) < 800 \/ (still => r.stall = s.stall + d)
    BY <1>6, <1>9, <2>3 DEF HoldTells
  <2> QED
    BY <1>2, <1>3, <1>6, <1>9, <2>2, <2>4 DEF SendTells, Leaves, trips
<1>10. CASE ~t.aborted /\ ~Hard(t, pct) /\ v.latched /\ ~s.latched
  <2> DEFINE w == [v EXCEPT !.rhys = HoldRetracts(v, pct)]
  <2>1. r = Driven(w, hold_load(v, pct), s.latched, TRUE, still, d)
    BY <1>1, <1>10 DEF RunHold
  <2>2. Whole(w) /\ Leaves(v, w)
    BY <1>6 DEF Whole, Parts, Leaves
  <2> HIDE DEF w
  <2>3. DriveTells(w, hold_load(v, pct), s.latched, TRUE, still, d, r)
    BY <2>1, <2>2, DrivenLeaves
  <2>4. Leaves(w, r) /\ r.stall = 0
    BY <1>10, <2>3 DEF DriveTells
  <2>5. /\ Whole(r) /\ r.motion = s.motion /\ r.send = t.send /\ r.aborted = t.aborted
        /\ r.latched = v.latched /\ r.thresh \in Int
    BY <1>5, <1>6, <1>10, <2>2, <2>4 DEF Leaves
  <2>6. /\ r.send = (IF s.aborted THEN s.send ELSE g) /\ r.latched \in BOOLEAN
        /\ r.aborted \in BOOLEAN /\ (r.aborted <=> s.aborted \/ GuardTripped(g)) /\ ~r.aborted
    BY <1>2, <1>3, <1>6, <1>10, <2>5 DEF trips
  <2>7. r.stall \in Nat /\ r.stall = 0 /\ ~s.latched
    BY <1>10, <2>4
  <2> QED
    BY <2>5, <2>6, <2>7, Zenon DEF SendTells
<1>11. CASE ~t.aborted /\ ~Hard(t, pct) /\ ~v.latched
  <2> DEFINE a == [Rests EXCEPT !.x = ask]
  <2>1. r = Driven(v, a, FALSE, FALSE, still, d)
    BY <1>1, <1>11
  <2> HIDE DEF a
  <2>2. DriveTells(v, a, FALSE, FALSE, still, d, r)
    BY <1>6, <2>1, DrivenLeaves
  <2>3. Leaves(v, r)
    BY <2>2 DEF DriveTells
  <2> QED
    BY <1>2, <1>3, <1>6, <1>11, <2>3 DEF SendTells, Leaves, trips
<1> QED
  BY <1>7, <1>8, <1>9, <1>10, <1>11

LEMMA NothingFloored ==
  ASSUME NEW s, NEW holds
  PROVE  Floored(0, s, holds) = 0
<1> DEFINE r == Raised(0, s, holds)
           cap == IF s.motion = "idle" THEN 800 ELSE 1000
<1>1. r = 0
  BY DEF Raised, Mag
<1>2. cap \in Nat
  OBVIOUS
<1>3. Floored(0, s, holds) = Signed(0, AtMost(Mag(r), cap))
  BY Zenon DEF Floored
<1> HIDE DEF r, cap
<1>4. Mag(r) = 0
  BY <1>1 DEF Mag
<1> DEFINE m == Mag(r)
<1> HIDE DEF m
<1>5. AtMost(m, cap) = 0
  BY <1>2, <1>4 DEF AtMost, m
<1> DEFINE k == AtMost(m, cap)
<1> HIDE DEF k
<1>6. Signed(0, k) = 0
  BY <1>5 DEF Signed, k
<1> QED
  BY <1>3, <1>6, Zenon DEF k, m

\* Without a filament the motor of a load that is held rests.
LEMMA RunEmptyTells ==
  ASSUME NEW s, Whole(s), s.latched => s.stall \in Nat, s.latched \in BOOLEAN, s.motion = "send",
         NEW still \in BOOLEAN, NEW d \in Nat, NEW r, r = RunEmpty(s, still, d)
  PROVE  Leaves(s, r) /\ r.x = 0 /\ (r.latched => r.stall \in Nat)
<1>1. r = Driven(s, Rests, s.latched, TRUE, still, d)
  BY DEF RunEmpty
<1>2. Floored(Rests.x, s, TRUE) = 0
  BY NothingFloored DEF Rests
<1>3. AtLeastMoves(Rests, 0) = 0 /\ Stalled(s, Rests, TRUE, still, d) = 0
  BY DEF Rests, AtLeastMoves, Stalled, Strained
<1>4. DriveTells(s, Rests, s.latched, TRUE, still, d, r)
  BY <1>1, DrivenLeaves
<1>5. StallRestMs \in Nat /\ KickMs \in Nat
  BY NumbersAre
<1>6. Leaves(s, r) /\ r.x = 0 /\ (s.latched => r.stall \in {s.stall, 0})
  <2> DEFINE x == AtLeastMoves(Rests, Floored(Rests.x, s, TRUE))
             stall == Stalled(s, Rests, TRUE, still, d)
  <2>1. /\ Leaves(s, r)
        /\ ~s.latched => r.x \in {0, Floored(Rests.x, s, TRUE)}
        /\ s.latched => \/ r.x = 0 /\ r.stall \in {s.stall, 0}
                        \/ r.stall = stall /\ r.x \in {0, IF stall > KickMs THEN Signed(x, 850) ELSE x}
    BY <1>4, Zenon DEF DriveTells
  <2>2. x = 0 /\ stall = 0
    BY <1>2, <1>3
  <2> HIDE DEF x, stall
  <2>3. ~(stall > KickMs)
    BY <1>5, <2>2
  <2> QED
    BY <1>2, <2>1, <2>2, <2>3
<1> QED
  BY <1>6 DEF Leaves

-----------------------------------------------------------------------------
\* A load goes on as it is, or begins.
Kept(s, t) ==
  /\ t.send = s.send /\ t.aborted = s.aborted /\ t.latched = s.latched
  /\ t.thresh = s.thresh /\ t.stall = s.stall /\ t.x = s.x

Fresh(t) ==
  t.send = motion_guard_start(0, SendMax) /\ t.aborted = FALSE /\ t.latched = FALSE /\ t.x = 0

SetTells(s, motion, t) ==
  /\ Whole(t) /\ t.motion = motion /\ t.ks = s.ks
  /\ motion = s.motion => Kept(s, t)
  /\ motion # s.motion /\ motion = "send" => Fresh(t)

\* ... and of the push of a parked channel, which goes on or is dropped.
SetIdle(s, motion, t) ==
  /\ Whole(t) /\ t.motion = motion /\ t.ks = s.ks
  /\ motion = s.motion => t.idle = s.idle /\ t.x = s.x
  /\ motion # s.motion => t.idle = NoPush /\ (motion # "on_use" => t.x = 0)

LEMMA Sets ==
  ASSUME NEW s, Whole(s), NEW motion, NEW pct, NEW over, NEW t, t = set_motion(s, motion, pct, over)
  PROVE  SetTells(s, motion, t) /\ SetIdle(s, motion, t)
<1> DEFINE l == IF motion = "stop" THEN Never ELSE over
           u == [s EXCEPT !.left = l]
           sends == "send" \in {motion, s.motion}
<1>1. /\ Whole(u) /\ u.motion = s.motion /\ u.ks = s.ks /\ u.idle = s.idle /\ u.x = s.x /\ Kept(s, u)
  BY DEF Whole, Parts, Kept
<1>2. CASE motion = s.motion
  <2>1. t = u
    BY <1>2, Zenon DEF set_motion
  <2> QED
    BY <1>1, <1>2, <2>1 DEF SetTells, SetIdle
<1>3. CASE motion # s.motion
  <2> HIDE DEF u
  <2> DEFINE low  == u.low /\ motion = "on_use"
             hi   == IF s.low /\ motion # "on_use" THEN 0 ELSE u.hi
             ab   == u.aborted /\ ~sends
             hard == u.hard /\ ~sends
             lat  == u.latched /\ ~sends
             thr  == Threshold(s, motion, pct)
             rhys == u.rhys /\ motion \notin {"send", "before_on_use", "stop_on_use", "on_use"} /\ s.motion # "on_use"
             ceil == IF motion = "on_use" THEN HandedOver(s, pct) ELSE NoLevel
             exit == IF motion = "send" THEN Never
                     ELSE IF s.motion = "on_use" THEN 0
                     ELSE IF motion = "on_use" /\ u.exit = Never THEN PostMs ELSE u.exit
             x    == IF s.motion = "send" /\ motion = "on_use" THEN u.x ELSE 0
  <2>1. t = [u EXCEPT !.motion = motion, !.idle = NoPush, !.low = low, !.hi = hi, !.aborted = ab,
                      !.hard = hard, !.latched = lat, !.send = motion_guard_start(0, SendMax),
                      !.thresh = thr, !.rhys = rhys, !.ceiling = ceil, !.handoff = 0,
                      !.exit = exit, !.x = x]
    BY <1>3 DEF set_motion, u
  <2>2. (motion = "send" => ab = FALSE /\ lat = FALSE /\ x = 0) /\ (motion # "on_use" => x = 0)
    OBVIOUS
  <2> HIDE DEF low, hi, ab, hard, lat, thr, rhys, ceil, exit, x
  <2>3. /\ Whole(t) /\ t.motion = motion /\ t.send = motion_guard_start(0, SendMax)
        /\ t.aborted = ab /\ t.latched = lat /\ t.x = x /\ t.ks = u.ks /\ t.idle = NoPush
    BY <1>1, <2>1 DEF Whole, Parts
  <2> QED
    BY <1>1, <1>3, <2>2, <2>3 DEF SetTells, SetIdle, Fresh
<1> QED
  BY <1>2, <1>3

LEMMA LaterTells ==
  ASSUME NEW s, Whole(s), NEW d, NEW move, NEW t, t = ChannelLater(s, d, move)
  PROVE  /\ Whole(t) /\ t.motion = s.motion /\ t.aborted = s.aborted /\ t.latched = s.latched
         /\ t.thresh = s.thresh /\ t.stall = s.stall /\ t.x = s.x /\ t.ks = s.ks
         /\ t.idle = PushLater(s.idle, d, move)
         /\ s.motion = "send" => t.send = GuardLater(s.send, d, move)
<1> DEFINE l == IF s.left >= d THEN s.left - d ELSE Never
           g == IF s.motion = "send" THEN GuardLater(s.send, d, move) ELSE s.send
           h == IF s.ceiling = NoLevel THEN 0 ELSE Later(s.handoff, d, HandoffMs)
           e == Later(s.exit, d, PostMs)
           i == PushLater(s.idle, d, move)
           r == IF s.rest > d THEN s.rest - d ELSE 0
<1>1. t = [s EXCEPT !.left = l, !.send = g, !.handoff = h, !.exit = e, !.idle = i, !.rest = r]
  BY DEF ChannelLater
<1>2. (s.motion = "send" => g = GuardLater(s.send, d, move)) /\ i = PushLater(s.idle, d, move)
  OBVIOUS
<1> HIDE DEF l, g, h, e, i, r
<1> QED
  BY <1>1, <1>2 DEF Whole, Parts

\* What a pass makes of a load before its motor; d later, the gear having turned by move.
LoadGoes(ks, host, wait) == IF ks THEN wait \/ host = "send" ELSE wait /\ host # "send"

PrepTells(host, ks, wait, d, move, p) ==
  /\ Whole(p) /\ p.motion \in Motions /\ p.ks = ks
  /\ p.motion = "send" /\ c.motion = "send" =>
       /\ p.send = GuardLater(c.send, d, move) /\ p.aborted = c.aborted /\ p.latched = c.latched
       /\ p.thresh = c.thresh /\ p.stall = c.stall /\ p.x = c.x
  /\ p.motion = "send" /\ c.motion # "send" => Fresh(p)
  /\ c.motion = "send" => (p.motion = "send" <=> LoadGoes(ks, host, wait))

LEMMA Prepares ==
  ASSUME Whole(c), c.motion \in Motions, NEW host \in Hosts, NEW ks, NEW pct,
         NEW wait, NEW d, NEW move, NEW p, p = Prepared(host, ks, pct, wait, d, move)
  PROVE  PrepTells(host, ks, wait, d, move, p)
<1> DEFINE l == ChannelLater(c, d, move)
           s == [l EXCEPT !.ks = ks]
           k == KeyNone(s, host, pct)
<1>1. /\ Whole(l) /\ l.motion = c.motion /\ l.aborted = c.aborted /\ l.latched = c.latched
      /\ l.thresh = c.thresh /\ l.stall = c.stall /\ l.x = c.x
      /\ c.motion = "send" => l.send = GuardLater(c.send, d, move)
  BY LaterTells
<1> HIDE DEF l
<1>2. /\ Whole(s) /\ s.motion = c.motion /\ Kept(l, s) /\ s.ks = ks
  BY <1>1 DEF Whole, Parts, Kept
<1>3. p = IF wait THEN k ELSE Commanded(k, host, pct)
  BY DEF Prepared, s, l
<1> HIDE DEF s
<1>4. /\ Whole(k) /\ k.ks = ks
      /\ ks \/ host # "send" => k.motion = s.motion /\ Kept(s, k)
      /\ ~ks /\ host = "send" => k.motion = "stop"
  <2>1. CASE ks
    <3>1. k = s
      BY <1>2, <2>1 DEF KeyNone
    <3> HIDE DEF k
    <3> QED
      BY <1>2, <2>1, <3>1 DEF Kept
  <2>2. CASE ~ks /\ host # "send"
    <3>1. k = [s EXCEPT !.hi = 0]
      BY <1>2, <2>2 DEF KeyNone
    <3> HIDE DEF k
    <3> QED
      BY <1>2, <2>2, <3>1 DEF Kept, Whole, Parts
  <2>3. CASE ~ks /\ host = "send"
    <3> DEFINE t == set_motion(s, "stop", pct, 0)
    <3>1. SetTells(s, "stop", t)
      BY <1>2, Sets
    <3>2. k = [t EXCEPT !.hi = 0]
      BY <1>2, <2>3 DEF KeyNone
    <3> HIDE DEF k, t
    <3> QED
      BY <1>2, <2>3, <3>1, <3>2 DEF SetTells, Whole, Parts
  <2> QED
    BY <2>1, <2>2, <2>3
<1> HIDE DEF k
<1>5. CASE wait
  <2>1. p = k
    BY <1>3, <1>5
  <2> QED
    BY <1>1, <1>2, <1>4, <1>5, <2>1 DEF PrepTells, Kept, Motions, LoadGoes
<1>6. CASE ~wait
  <2> DEFINE motion == IF host = "other" THEN IF k.ks \/ k.exit # Never THEN "idle" ELSE "stop"
                       ELSE IF k.ks THEN host ELSE "idle"
             over == IF host = "other" THEN ParkedMs ELSE OverMs
  <2>1. p = set_motion(k, motion, pct, over)
    BY <1>3, <1>6 DEF Commanded
  <2>2. motion \in Motions /\ (motion = "send" <=> ks /\ host = "send")
    BY <1>4, InputsAssumption DEF InputsAssumption, Motions
  <2> HIDE DEF motion, over
  <2>3. SetTells(k, motion, p)
    BY <1>4, <2>1, Sets
  <2>4. CASE motion = "send"
    BY <1>1, <1>2, <1>4, <1>6, <2>2, <2>3, <2>4 DEF PrepTells, SetTells, Kept, LoadGoes
  <2>5. CASE motion # "send"
    BY <1>1, <1>2, <1>4, <1>6, <2>2, <2>3, <2>5 DEF PrepTells, SetTells, Kept, LoadGoes
  <2> QED
    BY <2>4, <2>5
<1> QED
  BY <1>5, <1>6

LEMMA RunUseLeaves ==
  ASSUME NEW s, Whole(s), NEW pct, NEW still, NEW d
  PROVE  Leaves(s, RunOnUse(s, pct, still, d))
<1> DEFINE t == IF HandoffOver(s, pct) THEN [s EXCEPT !.ceiling = NoLevel, !.handoff = 0] ELSE s
           u == [t EXCEPT !.rhys = FALSE]
           r == RunOnUse(s, pct, still, d)
<1>1. Whole(t) /\ Leaves(s, t)
  BY DEF Whole, Parts, Leaves
<1>2. r = Driven(u, OnUse(pct, t.ceiling), TRUE, TRUE, still, d)
  BY DEF RunOnUse
<1> HIDE DEF t
<1>3. Whole(u) /\ Leaves(s, u)
  BY <1>1 DEF Whole, Parts, Leaves
<1> HIDE DEF u, r
<1>4. DriveTells(u, OnUse(pct, t.ceiling), TRUE, TRUE, still, d, r)
  BY <1>2, <1>3, DrivenLeaves
<1> QED
  BY <1>3, <1>4 DEF DriveTells, Leaves, r

LEMMA RunHoldLeaves ==
  ASSUME NEW s, Whole(s), NEW pct, NEW like, NEW still, NEW d
  PROVE  Leaves(s, RunHold(s, pct, like, still, d))
<1> DEFINE u == [s EXCEPT !.rhys = HoldRetracts(s, pct)]
           r == RunHold(s, pct, like, still, d)
<1>1. r = Driven(u, hold_load(s, pct), like, TRUE, still, d)
  BY DEF RunHold
<1>2. Whole(u) /\ Leaves(s, u)
  BY DEF Whole, Parts, Leaves
<1> HIDE DEF u, r
<1>3. DriveTells(u, hold_load(s, pct), like, TRUE, still, d, r)
  BY <1>1, <1>2, DrivenLeaves
<1> QED
  BY <1>2, <1>3 DEF DriveTells, Leaves, r

LEMMA RunFollowLeaves ==
  ASSUME NEW s, Whole(s), NEW pct, NEW still, NEW d
  PROVE  Leaves(s, RunFollow(s, pct, still, d))
<1> DEFINE u == [s EXCEPT !.pb = PullBackActive(s, pct)]
           a == FollowPull(u.pb, pct)
           r == RunFollow(s, pct, still, d)
<1>1. r = Driven(u, a, FALSE, FALSE, still, d)
  BY DEF RunFollow
<1>2. Whole(u) /\ Leaves(s, u)
  BY DEF Whole, Parts, Leaves
<1> HIDE DEF u, a, r
<1>3. DriveTells(u, a, FALSE, FALSE, still, d, r)
  BY <1>1, <1>2, DrivenLeaves
<1> QED
  BY <1>2, <1>3 DEF DriveTells, Leaves, r

LEMMA RunIdleLeaves ==
  ASSUME NEW s, Whole(s), NEW pct, NEW still, NEW d
  PROVE  Leaves(s, RunIdle(s, pct, still, d))
<1> DEFINE a == IF s.ks THEN Deadband(pct) ELSE EmptyIdle(s, pct)
           i == ml_idle_push_pass(s.idle, s.ks /\ a.x < 0, pct, s.x)
           t == [s EXCEPT !.idle = i]
           like == ~s.ks /\ PostOnUse(s)
           r == RunIdle(s, pct, still, d)
<1>1. r = IF ~s.ks /\ s.exit = Never THEN [Brake(s) EXCEPT !.idle = NoPush]
          ELSE IF t.idle.fault # "run" THEN Brake(t)
          ELSE Driven(t, a, like, TRUE, still, d)
  BY DEF RunIdle
<1> HIDE DEF i, r, a, like
<1>2. Whole(t) /\ Leaves(s, t)
  BY DEF Whole, Parts, Leaves
<1> HIDE DEF t
<1>3. CASE r = [Brake(s) EXCEPT !.idle = NoPush]
  BY <1>3 DEF Brake, Whole, Parts, Leaves, r
<1>4. CASE r = Brake(t)
  BY <1>2, <1>4, BrakeLeaves DEF Leaves, r
<1>5. CASE r = Driven(t, a, like, TRUE, still, d)
  <2>1. DriveTells(t, a, like, TRUE, still, d, r)
    BY <1>2, <1>5, DrivenLeaves
  <2> QED
    BY <1>2, <2>1 DEF DriveTells, Leaves, r
<1> QED
  BY <1>1, <1>3, <1>4, <1>5

LEMMA RunEmptyLeaves ==
  ASSUME NEW s, Whole(s), NEW still, NEW d
  PROVE  Leaves(s, RunEmpty(s, still, d))
<1> DEFINE like == s.motion \in {"on_use", "before_on_use", "stop_on_use"} \/ s.latched
           r == RunEmpty(s, still, d)
<1>1. r = Driven(s, Rests, like, TRUE, still, d)
  BY DEF RunEmpty
<1> HIDE DEF like, r
<1>2. DriveTells(s, Rests, like, TRUE, still, d, r)
  BY <1>1, DrivenLeaves
<1> QED
  BY <1>2 DEF DriveTells, r

\* What a pass makes of a channel; g: the guard of a load after it.
RunTells(s, g, still, d, r) ==
  /\ Whole(r) /\ r.motion \in {s.motion, "stop"}
  /\ r.motion = "send" =>
       \/ Leaves(s, r) /\ r.x = 0 /\ (r.latched => r.stall \in Nat)
       \/ SendTells(s, g, still, d, r)

LEMMA Runs ==
  ASSUME NEW s, Whole(s), s.motion \in Motions,
         s.motion = "send" => /\ s.aborted \in BOOLEAN /\ s.latched \in BOOLEAN
                              /\ s.latched => s.stall \in Nat /\ s.thresh \in Int,
         NEW pct \in Levels, NEW still \in BOOLEAN, NEW d \in Nat, NEW ask,
         NEW g, g = motion_guard_check_at(s.send, Mag(s.x) >= StallPwm),
         NEW r, r = Run(s, pct, still, d, ask)
  PROVE  RunTells(s, g, still, d, r)
<1>1. CASE s.motion = "stop"
  BY <1>1, BrakeLeaves DEF Run, RunTells, Leaves
<1>2. CASE s.motion # "stop" /\ s.left = Never
  <2>1. r = RunOut(s)
    BY <1>2 DEF Run
  <2> DEFINE e == IF s.motion = "on_use" THEN 0 ELSE s.exit
  <2>2. r = [Brake(s) EXCEPT !.motion = "stop", !.exit = IF s.motion = "on_use" THEN 0 ELSE @]
    BY <2>1 DEF RunOut
  <2>3. Whole(r) /\ r.motion = "stop"
    BY <2>2 DEF Brake, Whole, Parts
  <2> QED
    BY <2>3 DEF RunTells
<1>3. CASE s.motion # "stop" /\ s.left # Never /\ s.motion = "on_use" /\ s.low
  <2>1. r = [Brake(s) EXCEPT !.hi = 0]
    BY <1>3 DEF Run
  <2> QED
    BY <1>3, <2>1 DEF Brake, Whole, Parts, RunTells
<1>4. CASE s.motion # "stop" /\ s.left # Never /\ s.motion = "idle"
  <2>1. r = RunIdle(s, pct, still, d)
    BY <1>4 DEF Run
  <2> QED
    BY <1>4, <2>1, RunIdleLeaves DEF RunTells, Leaves
<1> DEFINE empties == s.motion # "stop" /\ s.left # Never /\ ~(s.motion = "on_use" /\ s.low)
                      /\ s.motion # "idle" /\ ~s.ks
           drives == s.motion # "stop" /\ s.left # Never /\ ~(s.motion = "on_use" /\ s.low)
                     /\ s.motion # "idle" /\ s.ks
<1>5. CASE empties
  <2>1. r = RunEmpty(s, still, d)
    BY <1>5 DEF Run
  <2>2. Leaves(s, r)
    BY <2>1, RunEmptyLeaves
  <2>3. s.motion = "send" => Leaves(s, r) /\ r.x = 0 /\ (r.latched => r.stall \in Nat)
    BY <2>1, RunEmptyTells
  <2> QED
    BY <2>2, <2>3 DEF RunTells, Leaves
<1>6. CASE drives /\ s.motion = "on_use"
  <2>1. r = RunOnUse(s, pct, still, d)
    BY <1>6 DEF Run
  <2> QED
    BY <1>6, <2>1, RunUseLeaves DEF RunTells, Leaves
<1>7. CASE drives /\ s.motion = "before_on_use"
  <2>1. r = RunHold(s, pct, TRUE, still, d)
    BY <1>7 DEF Run
  <2>2. Leaves(s, r)
    BY <2>1, RunHoldLeaves, Zenon
  <2> QED
    BY <1>7, <2>2 DEF RunTells, Leaves
<1>8. CASE drives /\ s.motion = "send"
  <2>1. r = RunSend(s, pct, still, d, ask)
    BY <1>8 DEF Run
  <2>2. SendTells(s, g, still, d, r)
    BY <1>8, <2>1, RunSendTells
  <2> QED
    BY <2>2, Zenon DEF RunTells, SendTells
<1>9. CASE drives /\ s.motion = "before_pull_back"
  <2>1. r = RunFollow(s, pct, still, d)
    BY <1>9 DEF Run
  <2> QED
    BY <1>9, <2>1, RunFollowLeaves DEF RunTells, Leaves
<1>10. CASE drives /\ s.motion = "stop_on_use"
  <2>1. r = Brake(s)
    BY <1>10 DEF Run
  <2> QED
    BY <1>10, <2>1, BrakeLeaves DEF RunTells, Leaves
<1> QED
  BY <1>1, <1>2, <1>3, <1>4, <1>5, <1>6, <1>7, <1>8, <1>9, <1>10 DEF Motions

-----------------------------------------------------------------------------
\* How far the gear has turned, and what its position tells of it.
LEMMA Remainders ==
  ASSUME NEW n \in Int, -Counts <= n, n < 2 * Counts
  PROVE  n % Counts = IF n < 0 THEN n + Counts ELSE IF n < Counts THEN n ELSE n - Counts
<1>1. Counts \in Nat \ {0}
  BY LimitsAssumption DEF LimitsAssumption
<1>2. CASE n < 0
  BY <1>1, <1>2
<1>3. CASE ~(n < 0) /\ n < Counts
  BY <1>1, <1>3
<1>4. CASE ~(n < Counts)
  BY <1>1, <1>4
<1> QED
  BY <1>2, <1>3, <1>4

LEMMA TurnedFar ==
  ASSUME NEW trip \in Int, NEW move \in 0..(Counts - 1)
  PROVE  /\ Turned(move) \in Int /\ ml_cnt_dist(move) \in Nat
         /\ Mag(trip) < SendMax => Mag(trip + Turned(move)) < SendMax + ml_cnt_dist(move)
<1>1. Counts \in Nat \ {0} /\ SendMax \in Nat
  BY LimitsAre, NumbersAre
<1> QED
  BY <1>1 DEF Turned, ml_cnt_dist, Mag

LEMMA TripWraps ==
  ASSUME NEW trip \in Int, NEW move \in 0..(Counts - 1), Mag(trip) < Counts, Mag(trip + Turned(move)) < Counts
  PROVE  ((trip % Counts) + move) % Counts = (trip + Turned(move)) % Counts
<1>1. Counts \in Nat \ {0}
  BY LimitsAssumption DEF LimitsAssumption
<1>2. Turned(move) \in Int /\ (Turned(move) = move \/ Turned(move) = move - Counts)
  BY <1>1 DEF Turned
<1> DEFINE q == trip % Counts
           t == trip + Turned(move)
<1>3. /\ -Counts < trip /\ trip < Counts /\ t \in Int /\ -Counts < t /\ t < Counts
  BY <1>1, <1>2 DEF Mag
<1>4. q \in 0..(Counts - 1) /\ (q = trip \/ q = trip + Counts)
  BY <1>1, <1>3, Remainders
<1>5. t % Counts = IF t < 0 THEN t + Counts ELSE t
  BY <1>1, <1>3, Remainders
<1> HIDE DEF q
<1>6. (q + move) % Counts = IF q + move < Counts THEN q + move ELSE q + move - Counts
  BY <1>1, <1>4, Remainders
<1> QED
  BY <1>1, <1>2, <1>3, <1>4, <1>5, <1>6 DEF q

LEMMA FarIsSeen ==
  ASSUME NEW trip \in Int, SendMax <= Mag(trip), Mag(trip) <= Counts - SendMax
  PROVE  ml_cnt_dist(trip % Counts) >= SendMax
<1>1. Counts \in Nat \ {0} /\ SendMax \in Nat \ {0}
  BY LimitsAre, NumbersAre
<1>2. -Counts <= trip /\ trip < Counts
  BY <1>1 DEF Mag
<1>3. trip % Counts = IF trip < 0 THEN trip + Counts ELSE trip
  BY <1>1, <1>2, Remainders
<1> QED
  BY <1>1, <1>3 DEF ml_cnt_dist, Mag

-----------------------------------------------------------------------------
Within(trip) == \E m \in Moves \cup {0} : Mag(trip) < SendMax + ml_cnt_dist(m)

\* The guard of a load as it may be at any time.
SendGuard(g) ==
  /\ g \in AnyGuard /\ g.since >= 0 /\ g.stall >= 0 /\ g.maxMs = 0 /\ g.maxCnt = SendMax
  /\ g.from = seen.trip % Counts

\* The guard knows how far the load has gone; the motor that is still on has not gone too far,
\* and one that holds with force has had its guard and its anti-stall count the same.
SendInv ==
  /\ SendGuard(c.send) /\ c.aborted \in BOOLEAN /\ c.latched \in BOOLEAN
  /\ c.latched => c.stall \in Nat /\ c.thresh \in Int
  /\ c.aborted \/ ~seen.loading => c.x = 0
  /\ c.x # 0 => Mag(seen.trip) < SendMax
  /\ Within(seen.trip)
  /\ ~c.aborted /\ c.latched /\ Mag(c.x) >= StallPwm /\ ~seen.slips /\ ~seen.stood =>
       c.send.still = 0 /\ c.send.since = 0 /\ c.send.stall <= c.stall /\ c.stall <= StallRestMs

Noted == {"loading", "why", "slips", "stood", "trip"}

LoadInv ==
  /\ Whole(c) /\ c.motion \in Motions /\ Noted \subseteq DOMAIN seen /\ seen.trip \in Int
  /\ seen.loading => c.motion = "send"
  /\ ~seen.loading => seen.trip = 0
  /\ c.motion = "send" => SendInv
  /\ HoldIsNoStall

LEMMA NoTrip == 0 \in Int /\ Within(0) /\ 0 % Counts = 0 /\ Mag(0) < SendMax
<1>1. SendMax \in Nat \ {0} /\ Counts \in Nat \ {0}
  BY LimitsAre, NumbersAre
<1>2. 0 % Counts = 0
  BY <1>1, Remainders
<1>3. Mag(0) = 0 /\ ml_cnt_dist(0) \in Nat
  BY <1>1 DEF Mag, ml_cnt_dist
<1> QED
  BY <1>1, <1>2, <1>3 DEF Within

LEMMA LoadStart == Init => LoadInv
BY DEF Init, LoadInv, Whole, Parts, Motions, Noted, HoldIsNoStall

LEMMA TurnsIn ==
  ASSUME NEW move \in Turns
  PROVE  move \in 0..(Counts - 1) /\ move \in Moves \cup {0}
<1>1. Moves \subseteq 0..(Counts - 1) /\ Counts \in Nat \ {0}
  BY MovesAre, LimitsAre
<1>2. move \in Moves \/ move = 0
  BY DEF Turns
<1>3. 0 \in 0..(Counts - 1)
  BY <1>1
<1> QED
  BY <1>1, <1>2, <1>3, Zenon

LEMMA TicksIn ==
  ASSUME NEW d \in Ticks \cup {StepMax + 1}
  PROVE  d \in Nat \ {0}
<1>1. Ticks \subseteq Nat \ {0} /\ StepMax \in Nat
  BY TicksAre, LimitsAre
<1>2. d \in Ticks \/ d = StepMax + 1
  OBVIOUS
<1> QED
  BY <1>1, <1>2

LEMMA KeysIn ==
  (\A ks \in Keys : ks \in BOOLEAN) /\ (\A wait \in Others : wait \in BOOLEAN)
<1>1. Keys \subseteq BOOLEAN
  BY InputsAssumption DEF InputsAssumption
<1>2. Others \subseteq BOOLEAN
  BY InputsAssumption DEF InputsAssumption
<1> QED
  BY <1>1, <1>2, Zenon

\* A trip within its limit, which a gear on its way may pass by its turn, wraps like the position.
LEMMA TripGoesOn ==
  ASSUME LoadInv, c.motion = "send", NEW move \in Turns
  PROVE  LET trip == IF seen.loading THEN seen.trip + Turned(move) ELSE 0
         IN /\ trip \in Int /\ Within(trip)
            /\ ((seen.trip % Counts) + move) % Counts = trip % Counts
            /\ Mag(trip) <= Counts - SendMax
<1>1. /\ seen.trip \in Int /\ Within(seen.trip) /\ (c.x # 0 => Mag(seen.trip) < SendMax)
      /\ ~seen.loading => seen.trip = 0 /\ c.x = 0
  BY DEF LoadInv, SendInv
<1>2. move \in 0..(Counts - 1) /\ move \in Moves \cup {0} /\ (c.x = 0 => move = 0)
  BY TurnsIn DEF Turns
<1>3. /\ SendMax \in Nat \ {0} /\ Counts \in Nat \ {0} /\ 2 * SendMax < Counts
      /\ \A m \in Moves : ml_cnt_dist(m) <= Counts - 2 * SendMax
  BY LimitsAre, LevelsAre, LoadAssumption DEF LoadAssumption
<1>4. \A m \in Moves \cup {0} : ml_cnt_dist(m) \in Nat /\ ml_cnt_dist(m) <= Counts - 2 * SendMax
  <2>1. ml_cnt_dist(0) = 0
    BY <1>3 DEF ml_cnt_dist
  <2>2. \A m \in 0..(Counts - 1) : ml_cnt_dist(m) \in Nat
    BY <1>3 DEF ml_cnt_dist
  <2>3. Moves \subseteq 0..(Counts - 1)
    BY MovesAre
  <2> TAKE m \in Moves \cup {0}
  <2>4. CASE m = 0
    BY <1>3, <2>1, <2>4
  <2>5. CASE m \in Moves
    BY <1>3, <2>2, <2>3, <2>5
  <2> QED
    BY <2>4, <2>5
<1>5. \A t \in Int : Within(t) => Mag(t) <= Counts - SendMax /\ Mag(t) < Counts
  BY <1>3, <1>4, MagHas DEF Within
<1>6. CASE c.x # 0
  <2>1. seen.loading
    BY <1>1, <1>6
  <2>2. Turned(move) \in Int /\ Mag(seen.trip + Turned(move)) < SendMax + ml_cnt_dist(move)
    BY <1>1, <1>2, <1>6, TurnedFar
  <2>3. Within(seen.trip + Turned(move)) /\ seen.trip + Turned(move) \in Int
    BY <1>1, <1>2, <2>2 DEF Within
  <2>4. ((seen.trip % Counts) + move) % Counts = (seen.trip + Turned(move)) % Counts
    BY <1>1, <1>2, <1>5, <2>3, TripWraps
  <2> QED
    BY <1>5, <2>1, <2>3, <2>4
<1>7. CASE c.x = 0
  <2>1. move = 0 /\ Turned(move) = 0
    BY <1>2, <1>3, <1>7 DEF Turned
  <2>2. (IF seen.loading THEN seen.trip + Turned(move) ELSE 0) = seen.trip
    BY <1>1, <2>1
  <2>3. ((seen.trip % Counts) + move) % Counts = (seen.trip + Turned(move)) % Counts
    BY <1>1, <1>2, <1>5, <2>1, TripWraps
  <2> QED
    BY <1>1, <1>5, <2>1, <2>2, <2>3
<1> QED
  BY <1>6, <1>7

\* The load as a pass finds it, and its trip with this pass.
Before(p, trip, d) ==
  /\ p.send \in AnyGuard /\ p.send.since >= 0 /\ p.send.stall >= 0
  /\ p.send.maxMs = 0 /\ p.send.maxCnt = SendMax /\ p.send.from = trip % Counts
  /\ trip \in Int /\ Within(trip) /\ Mag(trip) <= Counts - SendMax
  /\ p.aborted \in BOOLEAN /\ p.latched \in BOOLEAN
  /\ p.latched => p.stall \in Nat /\ p.thresh \in Int
  /\ p.aborted => p.x = 0
  /\ p.send.since > 0 \/ p.x = 0

Trip(move) == IF seen.loading THEN seen.trip + Turned(move) ELSE 0

LEMMA GuardWaits ==
  ASSUME NEW g \in AnyGuard, NEW d \in Nat \ {0}, NEW move \in Int, g.since >= 0, g.maxCnt # 0,
         NEW l, l = GuardLater(g, d, move)
  PROVE  /\ l \in AnyGuard /\ l.since > 0 /\ l.stall = g.stall /\ l.maxMs = g.maxMs /\ l.maxCnt = g.maxCnt
         /\ l.from = (g.from + move) % Counts
<1> DEFINE w == Later(g.since, d, StepMax + 1)
           f == IF g.maxCnt = 0 THEN 0 ELSE (g.from + move) % Counts
           m == (g.still + move) % Counts
<1>1. l = [g EXCEPT !.since = w, !.from = f, !.still = m]
  BY DEF GuardLater
<1>2. w \in Int /\ w > 0
  BY LimitsAssumption DEF LimitsAssumption, Later, Never, AnyGuard
<1>3. f = (g.from + move) % Counts /\ f \in Int /\ m \in Int
  BY InCounts DEF AnyGuard
<1> HIDE DEF w, f, m
<1>4. l = [since |-> w, run |-> g.run, stall |-> g.stall, from |-> f, still |-> m,
           maxMs |-> g.maxMs, maxCnt |-> g.maxCnt]
  BY <1>1, Zenon DEF AnyGuard
<1> QED
  BY <1>2, <1>3, <1>4 DEF AnyGuard

LEMMA Befores ==
  ASSUME LoadInv, NEW d \in Nat \ {0}, NEW move \in Turns, NEW host, NEW ks, NEW wait,
         NEW p, PrepTells(host, ks, wait, d, move, p), p.motion = "send"
  PROVE  Before(p, Trip(move), d)
<1>1. SendMax \in Nat \ {0} /\ Counts \in Nat \ {0} /\ 2 * SendMax < Counts
  BY LimitsAre, LevelsAre, LoadAssumption DEF LoadAssumption
<1>2. CASE c.motion = "send"
  <2>1. /\ p.send = GuardLater(c.send, d, move) /\ p.aborted = c.aborted /\ p.latched = c.latched
        /\ p.thresh = c.thresh /\ p.stall = c.stall /\ p.x = c.x
    BY <1>2 DEF PrepTells
  <2>2. SendInv
    BY <1>2 DEF LoadInv
  <2>3. move \in Int
    BY <1>1, TurnsIn
  <2>4. /\ p.send \in AnyGuard /\ p.send.since > 0 /\ p.send.stall = c.send.stall /\ p.send.maxMs = 0
        /\ p.send.maxCnt = SendMax /\ p.send.from = ((seen.trip % Counts) + move) % Counts
        /\ p.send.stall >= 0
    BY <1>1, <2>1, <2>2, <2>3, GuardWaits DEF SendInv, SendGuard
  <2>5. /\ Trip(move) \in Int /\ Within(Trip(move)) /\ Mag(Trip(move)) <= Counts - SendMax
        /\ ((seen.trip % Counts) + move) % Counts = Trip(move) % Counts
    BY <1>2, TripGoesOn DEF Trip
  <2>6. p.send.since >= 0
    BY <2>4 DEF AnyGuard
  <2> QED
    BY <2>1, <2>2, <2>4, <2>5, <2>6 DEF Before, SendInv
<1>3. CASE c.motion # "send"
  <2>1. Fresh(p)
    BY <1>3 DEF PrepTells
  <2>2. Trip(move) = 0
    BY <1>3 DEF Trip, LoadInv
  <2>3. Within(0) /\ 0 % Counts = 0 /\ Mag(0) < SendMax
    BY NoTrip
  <2>4. Mag(0) <= Counts - SendMax
    BY <1>1 DEF Mag
  <2>5. /\ p.send \in AnyGuard /\ p.send.since = 0 /\ p.send.stall = 0 /\ p.send.maxMs = 0
        /\ p.send.maxCnt = SendMax /\ p.send.from = 0
    BY <1>1, <2>1 DEF Fresh, motion_guard_start, AnyGuard
  <2>6. p.aborted = FALSE /\ p.latched = FALSE /\ p.x = 0
    BY <2>1, Zenon DEF Fresh
  <2>7. p.send.from = 0 % Counts /\ 0 \in Int /\ p.send.since >= 0 /\ p.send.stall >= 0
    BY <2>3, <2>5
  <2>8. Before(p, 0, d)
    BY <2>3, <2>4, <2>5, <2>6, <2>7, Zenon DEF Before
  <2> QED
    BY <2>2, <2>8
<1> QED
  BY <1>2, <1>3

\* What the check makes of its guard.
LEMMA Checks ==
  ASSUME NEW p, NEW trip, NEW d, Before(p, trip, d), NEW high \in BOOLEAN, high => p.x # 0,
         NEW g, g = motion_guard_check_at(p.send, high)
  PROVE  /\ g \in AnyGuard /\ g.since = 0 /\ g.stall >= 0 /\ g.maxMs = 0 /\ g.maxCnt = SendMax
         /\ g.from = trip % Counts
         /\ g.stall > 0 \/ g.still = 0
         /\ ~GuardTripped(g) => Mag(trip) < SendMax
         /\ GuardResult(g) = "stall" => g.stall >= StallMs
<1>1. SendMax \in Nat \ {0} /\ StepMax \in Nat \ {0}
  BY LimitsAre, NumbersAre
<1> DEFINE gap == p.send.since > StepMax
           dt == IF gap THEN 0 ELSE p.send.since
           begins == gap \/ ~high \/ ml_cnt_dist(p.send.still) >= StallMove
           s == IF begins THEN 0 ELSE p.send.stall + dt
           m == IF begins THEN 0 ELSE p.send.still
<1>2. g = [p.send EXCEPT !.since = 0, !.run = 0, !.stall = s, !.still = m]
  BY DEF motion_guard_check_at, Before
<1>3. /\ p.send \in AnyGuard /\ p.send.since \in Int /\ p.send.stall \in Int /\ p.send.still \in Int
      /\ p.send.since >= 0 /\ p.send.stall >= 0 /\ (p.send.since > 0 \/ p.x = 0)
  BY DEF Before, AnyGuard
<1>4. s \in Int /\ s >= 0 /\ m \in Int /\ (s > 0 \/ m = 0)
  BY <1>1, <1>3
<1> HIDE DEF s, m
<1>5. g = [since |-> 0, run |-> 0, stall |-> s, from |-> p.send.from, still |-> m,
           maxMs |-> p.send.maxMs, maxCnt |-> p.send.maxCnt]
  BY <1>2, <1>3, Zenon DEF AnyGuard
<1>6. /\ g \in AnyGuard /\ g.since = 0 /\ g.stall = s /\ g.still = m /\ g.maxMs = 0 /\ g.maxCnt = SendMax
      /\ g.from = trip % Counts
  BY <1>3, <1>4, <1>5 DEF AnyGuard, Before
<1>7. ~GuardTripped(g) => Mag(trip) < SendMax
  <2> SUFFICES ASSUME ~(Mag(trip) < SendMax) PROVE GuardTripped(g)
    OBVIOUS
  <2>1. trip \in Int /\ Mag(trip) <= Counts - SendMax /\ Mag(trip) \in Nat
    BY MagHas DEF Before
  <2>2. SendMax <= Mag(trip)
    BY <1>1, <2>1
  <2>3. ml_cnt_dist(trip % Counts) >= SendMax
    BY <2>1, <2>2, FarIsSeen
  <2>4. GuardResult(g) = "dist"
    BY <1>1, <1>6, <2>3 DEF GuardResult
  <2> QED
    BY <2>4 DEF GuardTripped, ml_is_limit
<1>8. GuardResult(g) = "stall" => g.stall >= StallMs
  BY DEF GuardResult
<1> QED
  BY <1>4, <1>6, <1>7, <1>8

\* While a hold has the gear on its way or at rest, neither clock runs without the other.
LEMMA HoldCounts ==
  ASSUME LoadInv, NEW d \in Ticks, NEW move \in Turns, NEW still \in BOOLEAN, still => move = 0,
         NEW host, NEW ks, NEW wait, NEW p, PrepTells(host, ks, wait, d, move, p), p.motion = "send",
         p.latched, ~p.aborted, ~seen.slips, ~seen.stood, ~Slips(move, still),
         NEW g, g = motion_guard_check_at(p.send, Mag(p.x) >= StallPwm)
  PROVE  /\ g.still = 0 /\ g.stall < StallMs
         /\ g.stall = 0 \/ (still /\ g.stall <= p.stall + d)
<1>1. /\ d \in Nat \ {0} /\ d <= StepMax /\ StallRestMs + d < StallMs /\ StallRestMs \in Nat
      /\ StallMs \in Nat \ {0} /\ StepMax \in Nat /\ Counts \in Nat \ {0} /\ StallMove \in Nat
  <2>1. d \in Nat \ {0} /\ d <= StepMax
    BY TicksAre
  <2>2. StallRestMs + d < StallMs /\ StallRestMs \in Nat
    BY LoadAssumption DEF LoadAssumption
  <2> QED
    BY <2>1, <2>2, LimitsAssumption DEF LimitsAssumption
<1>2. c.motion = "send"
  BY DEF PrepTells, Fresh
<1>3. /\ p.send = GuardLater(c.send, d, move) /\ ~c.aborted /\ c.latched /\ p.stall = c.stall /\ p.x = c.x
  BY <1>2 DEF PrepTells
<1>4. /\ c.send \in AnyGuard /\ c.send.since >= 0 /\ c.send.stall >= 0 /\ c.stall \in Nat
      /\ Mag(c.x) >= StallPwm =>
           c.send.still = 0 /\ c.send.since = 0 /\ c.send.stall <= c.stall /\ c.stall <= StallRestMs
  BY <1>2, <1>3 DEF LoadInv, SendInv, SendGuard
<1>5. move \in 0..(Counts - 1) /\ move \in Int
  BY <1>1, TurnsIn
<1> DEFINE high == Mag(c.x) >= StallPwm
<1>6. high \in BOOLEAN /\ g = Checked(c.send, d, move, high)
  BY <1>3 DEF Checked
<1> HIDE DEF high
<1>7. Tells(g, c.send, d, move, high)
  BY <1>1, <1>4, <1>5, <1>6, CheckTells
<1>8. CASE ~high
  <2>1. g.stall = 0 /\ g.still = 0
    BY <1>7, <1>8 DEF Tells, Begins
  <2> QED
    BY <1>1, <2>1
<1>9. CASE high
  <2>1. c.send.still = 0 /\ c.send.since = 0 /\ c.send.stall <= c.stall /\ c.stall <= StallRestMs
    BY <1>4, <1>9 DEF high
  <2>2. (c.send.still + move) % Counts = move
    BY <1>1, <1>5, <2>1, Remainders
  <2>3. Begins(c.send, d, move, high) <=> ml_cnt_dist(move) >= StallMove
    BY <1>1, <1>9, <2>1, <2>2 DEF Begins
  <2>4. InTime(c.send, d) = d
    BY <1>1, <2>1 DEF InTime
  <2>5. CASE ml_cnt_dist(move) >= StallMove
    <3>1. g.stall = 0 /\ g.still = 0
      BY <1>7, <2>3, <2>5 DEF Tells
    <3> QED
      BY <1>1, <3>1
  <2>6. CASE ~(ml_cnt_dist(move) >= StallMove)
    <3>1. still /\ move = 0
      <4>1. ml_cnt_dist(move) \in Int
        BY <1>1, <1>5 DEF ml_cnt_dist
      <4> QED
        BY <1>1, <2>6, <4>1 DEF Slips
    <3>2. g.stall = c.send.stall + d /\ g.still = 0
      BY <1>7, <2>2, <2>3, <2>4, <2>6, <3>1 DEF Tells
    <3> QED
      BY <1>1, <1>3, <1>4, <2>1, <3>1, <3>2 DEF AnyGuard
  <2> QED
    BY <2>5, <2>6
<1> QED
  BY <1>8, <1>9

LEMMA NotBelow ==
  ASSUME NEW m \in Int, NEW n \in Int, m >= n
  PROVE  ~(m < n)
OBVIOUS

LEMMA StallTime == StallMs \in Int
BY LimitsAssumption DEF LimitsAssumption

\* What the history keeps of a pass.
NoticeTells(p, t, still, move) ==
  /\ Noted \subseteq DOMAIN seen'
  /\ seen'.loading = (t.motion = "send")
  /\ seen'.why = StoppedBy(p, t)
  /\ seen'.slips = (t.motion = "send" /\ (seen.slips \/ Slips(move, still)))
  /\ seen'.stood = (t.motion = "send" /\ (seen.stood \/ StoodAtHold(p, t)))
  /\ seen'.trip = IF seen.loading /\ t.motion = "send" THEN seen.trip + Turned(move) ELSE 0

LEMMA Notices ==
  ASSUME NEW p, NEW t, NEW moved, NEW pct, NEW still, NEW d, NEW move,
         Noticed(p, t, moved, pct, still, d, move)
  PROVE  NoticeTells(p, t, still, move)
BY DEF Noticed, Noted, NoticeTells

\* A channel that is not being loaded.
LEMMA NotLoading ==
  ASSUME Whole(c'), c'.motion \in Motions, c'.motion # "send", Noted \subseteq DOMAIN seen',
         ~seen'.loading, seen'.trip = 0, seen'.why # "hold stall"
  PROVE  LoadInv'
<1>1. HoldIsNoStall'
  BY Zenon DEF HoldIsNoStall
<1>2. seen'.trip \in Int
  BY NoTrip, Zenon
<1> QED
  BY <1>1, <1>2 DEF LoadInv, Whole

\* A load whose motor rests.
LEMMA QuietKeeps ==
  ASSUME NEW p, NEW d, Before(p, seen'.trip, d), Leaves(p, c'), c'.x = 0, c'.latched => c'.stall \in Nat
  PROVE  SendInv'
<1>1. SendGuard(c.send)' /\ Within(seen.trip)'
  BY DEF SendGuard, Before, Leaves, Within
<1>2. ~(Mag(c'.x) >= StallPwm)
  BY DEF Mag, StallPwm
<1> QED
  BY <1>1, <1>2 DEF SendInv, Before, Leaves

LEMMA PassKeeps ==
  ASSUME LoadInv, NEW host \in Hosts, NEW ks \in Keys, NEW pct \in Levels, NEW wait \in Others,
         NEW d \in Ticks, NEW move \in Turns, NEW still \in BOOLEAN, still => move = 0,
         NEW p, p = Prepared(host, ks, pct, wait, d, move), NEW ask, c' = Run(p, pct, still, d, -ask),
         NEW moved, Noticed(p, c', moved, pct, still, d, move)
  PROVE  LoadInv'
<1> DEFINE g == motion_guard_check_at(p.send, Mag(p.x) >= StallPwm)
<1>1. ks \in BOOLEAN /\ wait \in BOOLEAN /\ d \in Nat /\ d \in Nat \ {0}
  <2>1. ks \in BOOLEAN /\ wait \in BOOLEAN
    BY KeysIn, Zenon
  <2>2. d \in Nat \ {0}
    BY TicksIn, Zenon
  <2> QED
    BY <2>1, <2>2
<1>2. PrepTells(host, ks, wait, d, move, p)
  BY <1>1, Prepares DEF LoadInv
<1>3. p.motion = "send" => Before(p, Trip(move), d)
  BY <1>1, <1>2, Befores
<1>4. RunTells(p, g, still, d, c')
  <2>1. Whole(p) /\ p.motion \in Motions
    BY <1>2 DEF PrepTells
  <2>2. p.motion = "send" => /\ p.aborted \in BOOLEAN /\ p.latched \in BOOLEAN
                             /\ p.latched => p.stall \in Nat /\ p.thresh \in Int
    BY <1>3 DEF Before
  <2> QED
    BY <1>1, <2>1, <2>2, Runs
<1>5. /\ Noted \subseteq DOMAIN seen'
      /\ seen'.loading = (c'.motion = "send")
      /\ seen'.why = StoppedBy(p, c')
      /\ seen'.slips = (c'.motion = "send" /\ (seen.slips \/ Slips(move, still)))
      /\ seen'.stood = (c'.motion = "send" /\ (seen.stood \/ StoodAtHold(p, c')))
      /\ seen'.trip = IF seen.loading /\ c'.motion = "send" THEN seen.trip + Turned(move) ELSE 0
  BY Notices DEF NoticeTells
<1>6. Whole(c') /\ c'.motion \in Motions
  <2>1. p.motion \in Motions
    BY <1>2 DEF PrepTells
  <2> QED
    BY <1>4, <2>1 DEF RunTells, Motions
<1>7. CASE c'.motion # "send"
  BY <1>5, <1>6, <1>7, NotLoading DEF StoppedBy
<1>8. CASE c'.motion = "send"
  <2>1. p.motion = "send" /\ Before(p, Trip(move), d)
    BY <1>3, <1>4, <1>8 DEF RunTells, Motions
  <2>2. /\ seen'.loading = TRUE /\ seen'.trip = Trip(move)
        /\ seen'.slips = (seen.slips \/ Slips(move, still))
        /\ seen'.stood = (seen.stood \/ StoodAtHold(p, c'))
    BY <1>5, <1>8 DEF Trip
  <2> DEFINE high == Mag(p.x) >= StallPwm
  <2>3. high \in BOOLEAN /\ (high => p.x # 0)
    BY DEF Mag, StallPwm
  <2>4. /\ g \in AnyGuard /\ g.since = 0 /\ g.stall >= 0 /\ g.maxMs = 0 /\ g.maxCnt = SendMax
        /\ g.from = Trip(move) % Counts
        /\ g.stall > 0 \/ g.still = 0
        /\ ~GuardTripped(g) => Mag(Trip(move)) < SendMax
        /\ GuardResult(g) = "stall" => g.stall >= StallMs
    <3> HIDE DEF high, g
    <3>1. g = motion_guard_check_at(p.send, high)
      BY DEF high, g
    <3> QED
      BY <2>1, <2>3, <3>1, Checks
  <2>5. p.latched /\ ~p.aborted /\ ~seen'.slips /\ ~seen'.stood =>
          /\ g.still = 0 /\ g.stall < StallMs
          /\ g.stall = 0 \/ (still /\ g.stall <= p.stall + d)
    <3> HIDE DEF g
    <3>1. g = motion_guard_check_at(p.send, Mag(p.x) >= StallPwm)
      BY DEF g
    <3> SUFFICES ASSUME p.latched, ~p.aborted, ~seen'.slips, ~seen'.stood
                 PROVE  /\ g.still = 0 /\ g.stall < StallMs
                        /\ g.stall = 0 \/ (still /\ g.stall <= p.stall + d)
      OBVIOUS
    <3>2. ~seen.slips /\ ~seen.stood /\ ~Slips(move, still)
      BY <2>2
    <3> QED
      BY <1>2, <2>1, <3>1, <3>2, HoldCounts
  <2> HIDE DEF g, high
  <2>6. CASE Leaves(p, c') /\ c'.x = 0 /\ (c'.latched => c'.stall \in Nat)
    <3>1. SendInv'
      BY <2>1, <2>2, <2>6, QuietKeeps
    <3>2. HoldIsNoStall'
      BY <1>5, <2>1, <2>2, <2>6 DEF LoadInv, HoldIsNoStall, StoppedBy, Leaves, Before
    <3> QED
      BY <1>5, <1>6, <1>8, <2>1, <2>2, <3>1, <3>2 DEF LoadInv, Whole, Before
  <2>7. CASE SendTells(p, g, still, d, c')
    <3>1. SendInv'
      <4>1. SendGuard(c.send)'
        BY <2>1, <2>2, <2>4, <2>7 DEF SendGuard, SendTells, Before
      <4>2. /\ c'.aborted \in BOOLEAN /\ c'.latched \in BOOLEAN /\ (c'.aborted => c'.x = 0)
            /\ c'.latched => c'.stall \in Nat /\ c'.thresh \in Int
        BY <2>7 DEF SendTells
      <4>3. c'.x # 0 => Mag(seen'.trip) < SendMax
        BY <2>2, <2>4, <2>7 DEF SendTells
      <4>4. Within(seen.trip)'
        BY <2>1, <2>2 DEF Before, Within
      <4>5. ASSUME ~c'.aborted, c'.latched, Mag(c'.x) >= StallPwm, ~seen'.slips, ~seen'.stood
            PROVE  /\ c'.send.still = 0 /\ c'.send.since = 0 /\ c'.send.stall <= c'.stall
                   /\ c'.stall <= StallRestMs
        <5>1. c'.x # 0
          BY <4>5 DEF Mag, StallPwm
        <5>2. c'.send = g /\ ~p.aborted /\ c'.stall \in Nat
          BY <2>1, <2>7, <4>5 DEF SendTells, Before
        <5>3. CASE ~p.latched /\ c'.stall = 0
          <6>1. ~(c'.send.stall > 0)
            BY <2>2, <4>5, <5>3 DEF StoodAtHold
          <6>2. StallRestMs \in Nat
            BY LoadAssumption DEF LoadAssumption
          <6> QED
            BY <2>4, <5>2, <5>3, <6>1, <6>2 DEF AnyGuard
        <5>4. CASE /\ p.latched /\ c'.x \in Int /\ c'.stall <= StallRestMs
                   /\ Mag(c'.x) < 800 \/ (still => c'.stall = p.stall + d)
          <6>1. still => c'.stall = p.stall + d
            <7>1. Mag(c'.x) \in Nat /\ Mag(c'.x) >= 800
              BY <4>5, <5>4, MagHas DEF StallPwm
            <7>2. ~(Mag(c'.x) < 800)
              BY <7>1
            <7> QED
              BY <5>4, <7>2
          <6> QED
            BY <2>4, <2>5, <4>5, <5>2, <5>4, <6>1 DEF AnyGuard
        <5> QED
          BY <2>7, <4>5, <5>1, <5>3, <5>4 DEF SendTells
      <4> QED
        BY <2>2, <4>1, <4>2, <4>3, <4>4, <4>5 DEF SendInv
    <3>2. HoldIsNoStall'
      <4> SUFFICES ASSUME seen'.why = "hold stall" PROVE seen'.slips \/ seen'.stood
        BY DEF HoldIsNoStall
      <4>1. CASE p.aborted \/ ~c'.aborted
        <5>1. seen.why = "hold stall"
          BY <1>5, <1>8, <4>1 DEF StoppedBy
        <5> QED
          BY <2>2, <5>1 DEF LoadInv, HoldIsNoStall
      <4>2. CASE ~(p.aborted \/ ~c'.aborted)
        <5>1. p.latched /\ GuardResult(c'.send) = "stall"
          BY <1>5, <1>8, <4>2 DEF StoppedBy
        <5>2. c'.send = g
          BY <2>7, <4>2 DEF SendTells
        <5>3. g.stall >= StallMs /\ ~(g.stall < StallMs)
          <6>1. g.stall \in Int /\ StallMs \in Int
            <7>1. g.stall \in Int
              BY <2>4 DEF AnyGuard
            <7> QED
              BY <7>1, StallTime
          <6>2. g.stall >= StallMs
            BY <2>4, <5>1, <5>2
          <6>3. ~(g.stall < StallMs)
            BY <6>1, <6>2, NotBelow, Zenon
          <6> QED
            BY <6>2, <6>3, Zenon
        <5> QED
          BY <2>5, <4>2, <5>1, <5>3
      <4> QED
        BY <4>1, <4>2
    <3> QED
      BY <1>5, <1>6, <1>8, <2>1, <2>2, <3>1, <3>2 DEF LoadInv, Whole, Before
  <2> QED
    BY <1>4, <1>8, <2>6, <2>7 DEF RunTells
<1> QED
  BY <1>7, <1>8

LEMMA StoppedKeeps == LoadInv /\ StoppedPass => LoadInv'
<1> SUFFICES ASSUME LoadInv, StoppedPass PROVE LoadInv'
  OBVIOUS
<1>1. PICK host \in Hosts, ks \in Keys, pct \in Levels, wait \in Others, d \in Ticks, move \in Turns :
        /\ c' = Brake(set_motion(Prepared(host, ks, pct, wait, d, move), "stop", pct, 0))
        /\ Noticed(Prepared(host, ks, pct, wait, d, move), c', TRUE, pct, FALSE, d, move)
  BY DEF StoppedPass
<1> DEFINE p == Prepared(host, ks, pct, wait, d, move)
           t == set_motion(p, "stop", pct, 0)
<1>2. Whole(p)
  BY Prepares DEF LoadInv, PrepTells
<1>3. c' = Brake(t) /\ Noticed(p, c', TRUE, pct, FALSE, d, move)
  BY <1>1
<1> HIDE DEF p
<1>4. SetTells(p, "stop", t)
  BY <1>2, Sets
<1> HIDE DEF t
<1>5. Whole(c') /\ c'.motion = "stop"
  BY <1>3, <1>4, BrakeLeaves DEF SetTells, Leaves
<1>6. /\ Noted \subseteq DOMAIN seen' /\ seen'.loading = (c'.motion = "send")
      /\ seen'.why = StoppedBy(p, c')
      /\ seen'.trip = IF seen.loading /\ c'.motion = "send" THEN seen.trip + Turned(move) ELSE 0
  <2>1. NoticeTells(p, c', FALSE, move)
    BY <1>3, Notices, Zenon
  <2> QED
    BY <2>1 DEF NoticeTells
<1>7. c'.motion \in Motions /\ c'.motion # "send"
  BY <1>5 DEF Motions
<1>8. ~seen'.loading /\ seen'.trip = 0 /\ seen'.why # "hold stall"
  BY <1>6, <1>7 DEF StoppedBy
<1> QED
  BY <1>5, <1>6, <1>7, <1>8, NotLoading

LEMMA StaleKeeps == LoadInv /\ StalePass => LoadInv'
<1> SUFFICES ASSUME LoadInv, StalePass PROVE LoadInv'
  OBVIOUS
<1>1. PICK host \in Hosts, pct \in Levels, wait \in Others, d \in Ticks \cup {StepMax + 1}, move \in Turns :
       LET s == Prepared(host, c.ks, pct, wait, d, move)
       IN /\ d > StepMax => c.x = 0
          /\ c' = motor_brake_hold(s)
          /\ seen' = [seen EXCEPT !.stales = @ + 1,
                                  !.spent  = IF c.motion = "idle" /\ Goes(host, wait, "other")
                                             THEN @ + DrivenFor(d) ELSE 0,
                                  !.strain = 0, !.strays = 0,
                                  !.loading = GoesOn(host, wait),
                                  !.trip   = IF GoesOn(host, wait) THEN @ + Turned(move) ELSE 0,
                                  !.why    = IF c'.motion = "send" THEN @ ELSE "none",
                                  !.slips  = @ /\ c'.motion = "send",
                                  !.stood  = @ /\ c'.motion = "send",
                                  !.edge   = @ /\ c'.motion = "idle",
                                  !.hold   = @ /\ host = "other"]
  BY Zenon DEF StalePass
<1> DEFINE p == Prepared(host, c.ks, pct, wait, d, move)
<1>2. d \in Nat \ {0}
  BY TicksIn
<1>3. PrepTells(host, c.ks, wait, d, move, p)
  BY Prepares DEF LoadInv
<1> HIDE DEF p
<1>4. /\ Noted \subseteq DOMAIN seen' /\ seen'.loading = GoesOn(host, wait)
      /\ seen'.trip = IF GoesOn(host, wait) THEN seen.trip + Turned(move) ELSE 0
      /\ seen'.why = IF c'.motion = "send" THEN seen.why ELSE "none"
      /\ seen'.slips = (seen.slips /\ c'.motion = "send") /\ seen'.stood = (seen.stood /\ c'.motion = "send")
  BY <1>1 DEF LoadInv, Noted
<1>5. Leaves(p, c') /\ c'.x = 0 /\ c'.stall = p.stall
  BY <1>1, <1>3, BrakeLeaves DEF PrepTells, motor_brake_hold, p
<1>6. GoesOn(host, wait) <=> seen.loading /\ LoadGoes(c.ks, host, wait)
  BY DEF GoesOn, Goes, LoadGoes
<1>7. seen.loading => (p.motion = "send" <=> LoadGoes(c.ks, host, wait))
  BY <1>3 DEF PrepTells, LoadInv
<1>8. GoesOn(host, wait) => p.motion = "send"
  BY <1>6, <1>7
<1>9. Whole(c') /\ c'.motion = p.motion /\ c'.motion \in Motions
  BY <1>3, <1>5 DEF Leaves, PrepTells
<1>10. CASE c'.motion = "send"
  <2>1. Before(p, Trip(move), d)
    BY <1>2, <1>3, <1>9, <1>10, Befores
  <2>2. seen'.trip = Trip(move) /\ (~seen'.loading => seen'.trip = 0)
    BY <1>4, <1>6, <1>7, <1>9, <1>10 DEF Trip
  <2>3. c'.latched => c'.stall \in Nat
    BY <1>5, <2>1 DEF Before, Leaves
  <2>4. SendInv'
    BY <1>5, <2>1, <2>2, <2>3, QuietKeeps
  <2>5. HoldIsNoStall'
    BY <1>4, <1>10 DEF LoadInv, HoldIsNoStall
  <2>6. seen'.trip \in Int
    BY <2>1, <2>2 DEF Before
  <2> QED
    BY <1>4, <1>9, <1>10, <2>2, <2>4, <2>5, <2>6 DEF LoadInv, Whole
<1>11. CASE c'.motion # "send"
  <2>1. ~seen'.loading /\ seen'.trip = 0 /\ seen'.why # "hold stall"
    BY <1>4, <1>8, <1>9, <1>11
  <2> QED
    BY <1>4, <1>9, <1>11, <2>1, NotLoading
<1> QED
  BY <1>10, <1>11

LEMMA LoadStep == LoadInv /\ [Next]_vars => LoadInv'
<1> SUFFICES ASSUME LoadInv, [Next]_vars PROVE LoadInv'
  OBVIOUS
<1>1. CASE Pass
  <2>1. PICK host \in Hosts, ks \in Keys, pct \in Levels, wait \in Others, d \in Ticks,
             move \in Turns, still \in BOOLEAN :
          LET s == Prepared(host, ks, pct, wait, d, move)
          IN /\ still => move = 0
             /\ \E ask \in IF s.motion = "send" THEN SendPwms ELSE {0} : c' = Run(s, pct, still, d, -ask)
             /\ Noticed(s, c', host # "other", pct, still, d, move)
    BY <1>1, Zenon DEF Pass
  <2> DEFINE p == Prepared(host, ks, pct, wait, d, move)
  <2>2. PICK ask : c' = Run(p, pct, still, d, -ask)
    BY <2>1, Zenon
  <2>3. (still => move = 0) /\ Noticed(p, c', host # "other", pct, still, d, move)
    BY <2>1, Zenon
  <2>4. p = Prepared(host, ks, pct, wait, d, move)
    OBVIOUS
  <2> HIDE DEF p
  <2> QED
    BY <2>2, <2>3, <2>4, PassKeeps
<1>2. CASE StoppedPass
  BY <1>2, StoppedKeeps
<1>3. CASE StalePass
  BY <1>3, StaleKeeps
<1>4. CASE UNCHANGED vars
  BY <1>4 DEF vars, LoadInv, Whole, SendInv, SendGuard, Within, HoldIsNoStall
<1> QED
  BY <1>1, <1>2, <1>3, <1>4 DEF Next

\* One load feeds no more than its limit and the turn of one pass, whatever holds, hard stops
\* and stale spells come between, and its hold is no stall, for all limits, times and gears.
THEOREM LoadsKeepTheirLimit == Spec => []LoadKeepsItsLimit
<1>1. LoadInv => LoadKeepsItsLimit
  <2> SUFFICES ASSUME LoadInv PROVE LoadKeepsItsLimit
    OBVIOUS
  <2>1. Within(seen.trip)
    BY NoTrip DEF LoadInv, SendInv
  <2> QED
    BY <2>1 DEF LoadInv, Within, LoadKeepsItsLimit, LoadIsBounded
<1> QED
  BY <1>1, LoadStart, LoadStep, PTL DEF Spec

-----------------------------------------------------------------------------
(* The push of a parked channel.                                           *)

LEMMA IdleTime == IdleMaxMs \in Nat \ {0}
BY IdleAssumption, SMTT(30) DEF IdleAssumption

PushStates == [pushing : BOOLEAN, fault : {"run", "brake", "fault"}, guard : AnyGuard]

\* A push that has not begun, and one that begins.
NotPushing(i) == i \in PushStates /\ i.pushing = FALSE /\ i.fault = "run"

Starts(i) ==
  /\ i \in PushStates /\ i.pushing = TRUE /\ i.fault = "run"
  /\ i.guard.since = 0 /\ i.guard.run = 0 /\ i.guard.stall = 0 /\ i.guard.still = 0
  /\ i.guard.maxMs = IdleMaxMs /\ i.guard.maxCnt = 0

LEMMA NoPushIs == NotPushing(NoPush) /\ Starts([NoPush EXCEPT !.pushing = TRUE])
<1> DEFINE g == motion_guard_start(IdleMaxMs, 0)
<1>1. /\ g \in AnyGuard /\ g.since = 0 /\ g.run = 0 /\ g.stall = 0 /\ g.still = 0
      /\ g.maxMs = IdleMaxMs /\ g.maxCnt = 0
  BY IdleTime DEF AnyGuard, motion_guard_start
<1>2. NoPush = [pushing |-> FALSE, fault |-> "run", guard |-> g]
  BY DEF NoPush
<1> HIDE DEF g
<1>3. NoPush \in PushStates
  BY <1>1, <1>2, Zenon DEF PushStates
<1>4. [NoPush EXCEPT !.pushing = TRUE] = [pushing |-> TRUE, fault |-> "run", guard |-> g]
  <2>1. \A b : [NoPush EXCEPT !.pushing = b] = [pushing |-> b, fault |-> "run", guard |-> g]
    BY <1>2
  <2> QED
    BY <2>1, Zenon
<1>5. [NoPush EXCEPT !.pushing = TRUE] \in PushStates
  BY <1>1, <1>4, Zenon DEF PushStates
<1>6. NotPushing(NoPush)
  BY <1>2, <1>3 DEF NotPushing
<1> DEFINE e == [NoPush EXCEPT !.pushing = TRUE]
<1>7. e = [pushing |-> TRUE, fault |-> "run", guard |-> g] /\ e \in PushStates
  BY <1>4, <1>5
<1> HIDE DEF e
<1>8. Starts(e)
  BY <1>1, <1>7 DEF Starts
<1> QED
  BY <1>6, <1>8 DEF e

\* What a pass makes of a push; g: its guard after the check.
PassTells(i, push, pct, g, r) ==
  /\ r \in PushStates
  /\ ~push => NotPushing(r)
  /\ push => CASE i.fault = "brake" /\ EdgeExits(pct) -> Starts(r)
               [] i.fault # "run" /\ ~(i.fault = "brake" /\ EdgeExits(pct)) -> r = i
               [] i.fault = "run" /\ ~i.pushing -> Starts(r)
               [] i.fault = "run" /\ i.pushing ->
                    r.pushing = TRUE /\ r.guard = g /\ (r.fault = "run" <=> ~GuardTripped(g))

LEMMA PushPass ==
  ASSUME NEW i \in PushStates, NEW push \in BOOLEAN, NEW pct, NEW x,
         NEW g, g = motion_guard_check_at(i.guard, Mag(x) >= IdleStallPwm), g \in AnyGuard,
         NEW r, r = ml_idle_push_pass(i, push, pct, x)
  PROVE  PassTells(i, push, pct, g, r)
<1> DEFINE edge == i.fault = "brake" /\ EdgeExits(pct)
           q == IF edge THEN NoPush ELSE i
           h == motion_guard_check_at(q.guard, Mag(x) >= IdleStallPwm)
           f == IF ~GuardTripped(h) THEN "run" ELSE IF Rounded(pct) >= EdgePct THEN "brake" ELSE "fault"
<1>1. r = IF ~push THEN NoPush ELSE IF q.fault # "run" THEN q
          ELSE IF PushBegins(q, pct) THEN [NoPush EXCEPT !.pushing = TRUE]
          ELSE [q EXCEPT !.guard = h, !.fault = f]
  BY DEF ml_idle_push_pass
<1>2. f \in {"run", "brake", "fault"} /\ (f = "run" <=> ~GuardTripped(h))
  OBVIOUS
<1>3. ~edge => h = g
  OBVIOUS
<1> HIDE DEF f, h
<1>4. i.fault \in {"run", "brake", "fault"} /\ i.pushing \in BOOLEAN
  BY DEF PushStates
<1>5. CASE ~push
  <2>1. NotPushing(r)
    BY <1>1, <1>5, NoPushIs
  <2> QED
    BY <1>5, <2>1 DEF PassTells, NotPushing
<1>6. CASE push /\ edge
  <2>1. q = NoPush
    BY <1>6
  <2>2. q.fault = "run" /\ q.pushing = FALSE
    BY <2>1, NoPushIs DEF NotPushing
  <2>3. r = [NoPush EXCEPT !.pushing = TRUE]
    BY <1>1, <1>6, <2>2 DEF PushBegins
  <2>4. Starts(r)
    BY <2>3, NoPushIs
  <2> QED
    BY <1>6, <2>4 DEF PassTells, Starts
<1>7. CASE push /\ ~edge /\ i.fault # "run"
  <2>1. r = i
    BY <1>1, <1>7
  <2> QED
    BY <1>7, <2>1 DEF PassTells
<1>8. CASE push /\ ~edge /\ i.fault = "run" /\ ~i.pushing
  <2>1. r = [NoPush EXCEPT !.pushing = TRUE]
    BY <1>1, <1>8 DEF PushBegins
  <2>2. Starts(r)
    BY <2>1, NoPushIs
  <2> QED
    BY <1>8, <2>2 DEF PassTells, Starts
<1>9. CASE push /\ ~edge /\ i.fault = "run" /\ i.pushing
  <2>1. r = [i EXCEPT !.guard = h, !.fault = f]
    BY <1>1, <1>9 DEF PushBegins
  <2>2. r = [i EXCEPT !.guard = g, !.fault = f]
    BY <1>3, <1>9, <2>1
  <2>3. r \in PushStates /\ r.pushing = i.pushing /\ r.guard = g /\ r.fault = f
    BY <1>2, <2>2 DEF PushStates
  <2>4. r.fault = "run" <=> ~GuardTripped(g)
    BY <1>2, <1>3, <1>9, <2>3
  <2> QED
    BY <1>4, <1>9, <2>3, <2>4 DEF PassTells
<1> QED
  BY <1>5, <1>6, <1>7, <1>8, <1>9

-----------------------------------------------------------------------------
\* The deadband is left below 30 % with a push a stall is looked for at.
LEMMA DeadbandAsks ==
  ASSUME NEW pct \in Levels, NEW a, a = Deadband(pct)
  PROVE  /\ a.x \in Int
         /\ Rounded(pct) < 30 => a.x < -1
         /\ ~(Rounded(pct) < 30) => ~(a.x < 0)
<1>1. pct \in 0..10000
  BY LevelsAre
<1> DEFINE k == PressurePid(pct - 5000)
<1>2. k = (25 * (pct - 5000)) \div 100
  BY DEF PressurePid, PullPctP
<1>3. /\ k \in Int
      /\ (pct + 50) \div 100 < 30 => k < -1
      /\ (pct + 50) \div 100 > 70 => k >= 0
  BY <1>1, <1>2
<1> HIDE DEF k
<1>4. CASE OutsideDeadband(pct)
  <2>1. a = [Rests EXCEPT !.x = k]
    BY <1>4 DEF Deadband, k
  <2>2. a.x = k
    BY <2>1 DEF Rests
  <2> QED
    BY <1>1, <1>3, <1>4, <2>2 DEF OutsideDeadband, Rounded
<1>5. CASE ~OutsideDeadband(pct)
  <2>1. a = Rests
    BY <1>5 DEF Deadband
  <2>2. a.x = 0
    BY <2>1 DEF Rests
  <2> QED
    BY <1>5, <2>2 DEF OutsideDeadband
<1> QED
  BY <1>4, <1>5

LEMMA SignedFar ==
  ASSUME NEW x \in Int, NEW m \in Nat, x < -1 => m >= 420
  PROVE  /\ Signed(x, m) \in Int /\ (~(x < 0) => ~(Signed(x, m) < 0))
         /\ x < -1 => Signed(x, m) < 0 /\ Mag(Signed(x, m)) >= 420
<1>1. Signed(x, m) \in Int /\ Mag(Signed(x, m)) = m
  BY SignedHas
<1>2. Signed(x, m) = IF x < 0 THEN -m ELSE m
  BY DEF Signed
<1> DEFINE y == Signed(x, m)
<1> HIDE DEF y
<1>3. ~(x < 0) => ~(y < 0)
  BY <1>2 DEF y
<1>4. x < -1 => y < 0 /\ Mag(y) >= 420
  BY <1>1, <1>2 DEF y
<1> QED
  BY <1>1, <1>3, <1>4 DEF y

LEMMA IdleFloored ==
  ASSUME NEW x \in Int, NEW s, s.motion = "idle", NEW y, y = Floored(x, s, TRUE)
  PROVE  /\ y \in Int /\ (~(x < 0) => ~(y < 0))
         /\ x < -1 => y < 0 /\ Mag(y) >= 420
<1> DEFINE r == Raised(x, s, TRUE)
           m == AtMost(Mag(r), 800)
<1>1. r \in Int /\ (x < -1 => Mag(r) >= 420)
  BY DEF Raised, Mag, Signed
<1>2. y = Signed(x, m)
  BY DEF Floored
<1> HIDE DEF r
<1>3. m \in Nat /\ (x < -1 => m >= 420)
  BY <1>1 DEF AtMost, Mag
<1> HIDE DEF m
<1> QED
  BY <1>2, <1>3, SignedFar, Zenon

-----------------------------------------------------------------------------
\* A control that leaves the push as it is.
Spares(s, t) == Whole(t) /\ t.motion = s.motion /\ t.idle = s.idle /\ t.ks = s.ks

LEMMA ForceSpares ==
  ASSUME NEW s, Whole(s), NEW x, NEW d
  PROVE  /\ Spares(s, FullForce(s, x, d))
         /\ s.motion # "on_use" => FullForce(s, x, d).x = x
<1> DEFINE hi == IF x < -FullPwm THEN AtMost(s.hi + d, PushMaxMs) ELSE 0
<1>1. CASE s.motion # "on_use" \/ s.low \/ ~s.ks
  <2>1. FullForce(s, x, d) = [s EXCEPT !.hi = 0, !.x = x]
    BY <1>1, Zenon DEF FullForce
  <2> QED
    BY <2>1 DEF Whole, Parts, Spares
<1>2. CASE ~(s.motion # "on_use" \/ s.low \/ ~s.ks) /\ hi = PushMaxMs
  <2>1. FullForce(s, x, d) = [Brake(s) EXCEPT !.hi = 0, !.low = TRUE]
    BY <1>2, Zenon DEF FullForce
  <2> QED
    BY <1>2, <2>1 DEF Whole, Parts, Spares, Brake
<1>3. CASE ~(s.motion # "on_use" \/ s.low \/ ~s.ks) /\ hi # PushMaxMs
  <2>1. FullForce(s, x, d) = [s EXCEPT !.hi = hi, !.x = x]
    BY <1>3, Zenon DEF FullForce
  <2> HIDE DEF hi
  <2> QED
    BY <1>3, <2>1 DEF Whole, Parts, Spares
<1> QED
  BY <1>1, <1>2, <1>3

DriveSpares(s, a, like, holds, t) == Spares(s, t) /\ (~like => t.x = Floored(a.x, s, holds))

LEMMA DrivenSpares ==
  ASSUME NEW s, Whole(s), s.motion = "idle", NEW a, NEW like, NEW holds, NEW still, NEW d,
         NEW t, t = Driven(s, a, like, holds, still, d)
  PROVE  DriveSpares(s, a, like, holds, t)
<1> DEFINE x == AtLeastMoves(a, Floored(a.x, s, holds))
           stall == Stalled(s, a, holds, still, d)
           y == IF stall > KickMs THEN Signed(x, 850) ELSE x
<1>1. CASE ~like
  <2> DEFINE u == [s EXCEPT !.stall = 0, !.rest = 0]
  <2>1. Whole(u) /\ Spares(s, u)
    BY DEF Whole, Parts, Spares
  <2>2. t = FullForce(u, Floored(a.x, s, holds), d)
    BY <1>1, Zenon DEF Driven
  <2> HIDE DEF u
  <2>3. u.motion # "on_use"
    BY <2>1 DEF Spares
  <2>4. Spares(u, t) /\ t.x = Floored(a.x, s, holds)
    BY <2>1, <2>2, <2>3, ForceSpares
  <2>5. Spares(s, t)
    BY <2>1, <2>4 DEF Spares
  <2> QED
    BY <2>4, <2>5, Zenon DEF DriveSpares
<1>2. CASE like /\ s.rest > 0
  <2>1. t = Brake(s)
    BY <1>2, Zenon DEF Driven
  <2>2. Spares(s, Brake(s))
    BY DEF Spares, Brake, Whole, Parts
  <2> QED
    BY <1>2, <2>1, <2>2, Zenon DEF DriveSpares
<1>3. CASE like /\ ~(s.rest > 0) /\ stall > StallRestMs
  <2>1. t = RestBegins(s)
    BY <1>3, Zenon DEF Driven, Stalled
  <2>2. Spares(s, RestBegins(s))
    BY DEF RestBegins, Brake, Whole, Parts, Spares
  <2> QED
    BY <1>3, <2>1, <2>2, Zenon DEF DriveSpares
<1>4. CASE like /\ ~(s.rest > 0) /\ ~(stall > StallRestMs)
  <2> DEFINE u == [s EXCEPT !.stall = stall]
  <2> HIDE DEF stall
  <2>1. Whole(u) /\ Spares(s, u)
    BY DEF Whole, Parts, Spares
  <2>2. t = FullForce(u, y, d)
    BY <1>4, Zenon DEF Driven, Stalled, stall
  <2> HIDE DEF u, x, y
  <2>3. Spares(u, t)
    BY <2>1, <2>2, ForceSpares
  <2>4. Spares(s, t)
    BY <2>1, <2>3 DEF Spares
  <2> QED
    BY <1>4, <2>4, Zenon DEF DriveSpares
<1> QED
  BY <1>1, <1>2, <1>3, <1>4

\* What a pass of the idle control makes of a channel.
IdleTells(s, pct, g, r) ==
  /\ Whole(r) /\ r.motion = "idle" /\ r.ks = s.ks
  /\ ~s.ks => NotPushing(r.idle)
  /\ s.ks => /\ PassTells(s.idle, Rounded(pct) < 30, pct, g, r.idle)
             /\ r.idle.fault # "run" => r.x = 0
             /\ r.idle.fault = "run" =>
                  /\ r.x \in Int /\ (~(Rounded(pct) < 30) => ~(r.x < 0))
                  /\ Rounded(pct) < 30 => r.x < 0 /\ Mag(r.x) >= 420

LEMMA RunIdleTells ==
  ASSUME NEW s, Whole(s), s.motion = "idle", s.idle \in PushStates, s.ks \in BOOLEAN,
         NEW pct \in Levels, NEW still, NEW d,
         NEW g, g = motion_guard_check_at(s.idle.guard, Mag(s.x) >= IdleStallPwm), g \in AnyGuard,
         NEW r, r = RunIdle(s, pct, still, d)
  PROVE  IdleTells(s, pct, g, r)
<1> DEFINE a == IF s.ks THEN Deadband(pct) ELSE EmptyIdle(s, pct)
           push == s.ks /\ a.x < 0
           i == ml_idle_push_pass(s.idle, push, pct, s.x)
           t == [s EXCEPT !.idle = i]
           like == ~s.ks /\ PostOnUse(s)
<1>1. r = IF ~s.ks /\ s.exit = Never THEN [Brake(s) EXCEPT !.idle = NoPush]
          ELSE IF t.idle.fault # "run" THEN Brake(t)
          ELSE Driven(t, a, like, TRUE, still, d)
  BY DEF RunIdle
<1>2. s.ks => /\ a.x \in Int /\ (push <=> Rounded(pct) < 30)
              /\ Rounded(pct) < 30 => a.x < -1
              /\ ~(Rounded(pct) < 30) => ~(a.x < 0)
  <2> SUFFICES ASSUME s.ks
               PROVE  /\ a.x \in Int /\ (push <=> Rounded(pct) < 30)
                      /\ Rounded(pct) < 30 => a.x < -1
                      /\ ~(Rounded(pct) < 30) => ~(a.x < 0)
    OBVIOUS
  <2>1. a = Deadband(pct)
    OBVIOUS
  <2>2. push <=> a.x < 0
    OBVIOUS
  <2> HIDE DEF a, push
  <2>3. /\ a.x \in Int
        /\ Rounded(pct) < 30 => a.x < -1
        /\ ~(Rounded(pct) < 30) => ~(a.x < 0)
    BY <2>1, DeadbandAsks
  <2>4. a.x < -1 => a.x < 0
    BY <2>3
  <2> QED
    BY <2>2, <2>3, <2>4
<1>3. push \in BOOLEAN /\ (~s.ks => push = FALSE)
  OBVIOUS
<1>4. like \in BOOLEAN /\ (s.ks => like = FALSE)
  OBVIOUS
<1> HIDE DEF a, push, like
<1>5. PassTells(s.idle, push, pct, g, i)
  BY <1>3, PushPass
<1> HIDE DEF i
<1>6. Whole(t) /\ t.motion = "idle" /\ t.idle = i /\ t.ks = s.ks
  BY DEF Whole, Parts
<1> HIDE DEF t
<1>7. CASE ~s.ks /\ s.exit = Never
  <2>1. r = [Brake(s) EXCEPT !.idle = NoPush]
    BY <1>1, <1>7
  <2>2. Whole(r) /\ r.motion = "idle" /\ r.idle = NoPush /\ r.ks = s.ks
    BY <2>1 DEF Brake, Whole, Parts
  <2> QED
    BY <1>7, <2>2, NoPushIs DEF IdleTells
<1>8. CASE ~(~s.ks /\ s.exit = Never) /\ t.idle.fault # "run"
  <2>1. r = Brake(t)
    BY <1>1, <1>8
  <2>2. Whole(r) /\ r.motion = "idle" /\ r.idle = i /\ r.ks = s.ks /\ r.x = 0
    BY <1>6, <2>1 DEF Brake, Whole, Parts
  <2>3. s.ks
    BY <1>3, <1>5, <1>6, <1>8 DEF PassTells, NotPushing
  <2>4. PassTells(s.idle, Rounded(pct) < 30, pct, g, r.idle)
    BY <1>2, <1>5, <2>2, <2>3 DEF PassTells
  <2> QED
    BY <1>6, <1>8, <2>2, <2>3, <2>4 DEF IdleTells
<1>9. CASE ~(~s.ks /\ s.exit = Never) /\ t.idle.fault = "run"
  <2>1. r = Driven(t, a, like, TRUE, still, d)
    BY <1>1, <1>9
  <2>2. DriveSpares(t, a, like, TRUE, r)
    BY <1>6, <2>1, DrivenSpares
  <2>3. Whole(r) /\ r.motion = "idle" /\ r.idle = i /\ r.ks = s.ks
    BY <1>6, <2>2 DEF DriveSpares, Spares
  <2>4. CASE ~s.ks
    <3>1. NotPushing(i)
      BY <1>3, <1>5, <2>4 DEF PassTells
    <3> QED
      BY <2>3, <2>4, <3>1 DEF IdleTells
  <2>5. CASE s.ks
    <3>1. r.x = Floored(a.x, t, TRUE)
      BY <1>4, <2>2, <2>5, Zenon DEF DriveSpares
    <3>2. /\ r.x \in Int /\ (~(a.x < 0) => ~(r.x < 0))
          /\ a.x < -1 => r.x < 0 /\ Mag(r.x) >= 420
      BY <1>2, <1>6, <2>5, <3>1, IdleFloored, Zenon
    <3>3. PassTells(s.idle, Rounded(pct) < 30, pct, g, r.idle)
      BY <1>2, <1>5, <2>3, <2>5 DEF PassTells
    <3> QED
      BY <1>2, <1>6, <1>9, <2>3, <2>5, <3>2, <3>3 DEF IdleTells
  <2> QED
    BY <2>4, <2>5
<1> QED
  BY <1>7, <1>8, <1>9

-----------------------------------------------------------------------------
\* What a pass finds of the push; d later, the gear having turned by move.
PushComes(host, ks, wait, d, move, p) ==
  /\ Whole(p) /\ p.ks = ks
  /\ p.motion = "idle" =>
       \/ c.motion = "idle" /\ p.idle = PushLater(c.idle, d, move) /\ p.x = c.x
       \/ (c.motion # "idle" \/ ~ks) /\ p.idle = NoPush /\ p.x = 0
  /\ c.motion = "idle" /\ ks /\ (wait \/ host = "other") => p.motion = "idle"

LEMMA PreparesPush ==
  ASSUME Whole(c), NEW host, NEW ks, NEW pct, NEW wait, NEW d, NEW move,
         NEW p, p = Prepared(host, ks, pct, wait, d, move)
  PROVE  PushComes(host, ks, wait, d, move, p)
<1> DEFINE l == ChannelLater(c, d, move)
           s == [l EXCEPT !.ks = ks]
           k == KeyNone(s, host, pct)
<1>1. Whole(l) /\ l.motion = c.motion /\ l.idle = PushLater(c.idle, d, move) /\ l.x = c.x
  BY LaterTells
<1> HIDE DEF l
<1>2. Whole(s) /\ s.motion = c.motion /\ s.idle = l.idle /\ s.x = l.x /\ s.ks = ks
  BY <1>1 DEF Whole, Parts
<1>3. p = IF wait THEN k ELSE Commanded(k, host, pct)
  BY DEF Prepared, s, l
<1> HIDE DEF s
<1>4. /\ Whole(k) /\ k.ks = ks
      /\ \/ k.motion = c.motion /\ k.idle = s.idle /\ k.x = s.x
         \/ ~ks /\ k.motion = "stop"
  <2>1. CASE ks
    <3>1. k = s
      BY <1>2, <2>1 DEF KeyNone
    <3> HIDE DEF k
    <3> QED
      BY <1>2, <2>1, <3>1
  <2>2. CASE ~ks /\ host # "send"
    <3>1. k = [s EXCEPT !.hi = 0]
      BY <1>2, <2>2 DEF KeyNone
    <3> HIDE DEF k
    <3> QED
      BY <1>2, <2>2, <3>1 DEF Whole, Parts
  <2>3. CASE ~ks /\ host = "send"
    <3> DEFINE t == set_motion(s, "stop", pct, 0)
    <3>1. SetIdle(s, "stop", t)
      BY <1>2, Sets
    <3>2. k = [t EXCEPT !.hi = 0]
      BY <1>2, <2>3 DEF KeyNone
    <3> HIDE DEF k, t
    <3> QED
      BY <1>2, <2>3, <3>1, <3>2 DEF SetIdle, Whole, Parts
  <2> QED
    BY <2>1, <2>2, <2>3
<1> HIDE DEF k
<1>5. CASE wait
  <2>1. p = k
    BY <1>3, <1>5
  <2> QED
    BY <1>1, <1>2, <1>4, <1>5, <2>1 DEF PushComes
<1>6. CASE ~wait
  <2> DEFINE motion == IF host = "other" THEN IF k.ks \/ k.exit # Never THEN "idle" ELSE "stop"
                       ELSE IF k.ks THEN host ELSE "idle"
             over == IF host = "other" THEN ParkedMs ELSE OverMs
  <2>1. p = set_motion(k, motion, pct, over)
    BY <1>3, <1>6 DEF Commanded
  <2>2. ks /\ host = "other" => motion = "idle"
    BY <1>4
  <2> HIDE DEF motion, over
  <2>3. SetIdle(k, motion, p)
    BY <1>4, <2>1, Sets
  <2>4. CASE motion = "idle"
    BY <1>1, <1>2, <1>4, <1>6, <2>3, <2>4 DEF PushComes, SetIdle
  <2>5. CASE motion # "idle"
    BY <1>1, <1>2, <1>4, <1>6, <2>2, <2>3, <2>5 DEF PushComes, SetIdle
  <2> QED
    BY <2>4, <2>5
<1> QED
  BY <1>5, <1>6

-----------------------------------------------------------------------------
StaleTime(n) == StepMax * n

LEMMA StaleTimes ==
  ASSUME NEW n \in Nat
  PROVE  StaleTime(n) \in Nat /\ StaleTime(n + 1) = StaleTime(n) + StepMax
<1>1. StepMax \in Nat
  BY LimitsAre
<1> QED
  BY <1>1 DEF StaleTime

Unspent == seen.spent = 0 /\ seen.strain = 0 /\ seen.strays = 0 /\ ~seen.edge

\* The buffer needs no push; or one is on its way; or it has hit a limit.
Calm == NotPushing(c.idle) /\ ~(c.x < 0) /\ Unspent

GuardOfPush(g) ==
  /\ g \in AnyGuard /\ g.since >= 0 /\ g.run >= 0 /\ g.run < IdleMaxMs
  /\ g.maxMs = IdleMaxMs /\ g.maxCnt = 0
  /\ seen.spent <= g.run + StaleTime(seen.stales)

Pushes ==
  /\ c.idle \in PushStates /\ c.idle.pushing = TRUE /\ c.idle.fault = "run" /\ ~seen.edge
  /\ GuardOfPush(c.idle.guard)
  /\ \/ /\ c.x \in Int /\ c.x < 0 /\ Mag(c.x) >= 420
        /\ c.idle.guard.since = 0 /\ c.idle.guard.stall < StallMs
        /\ seen.strain = c.idle.guard.stall /\ seen.strays = c.idle.guard.still
     \/ c.x = 0 /\ seen.strain = 0 /\ seen.strays = 0

Braked ==
  /\ c.idle \in PushStates /\ c.idle.fault # "run" /\ c.x = 0
  /\ seen.edge => c.idle.fault = "brake"
  /\ seen.spent <= IdleMaxMs + StepMax + StaleTime(seen.stales)
  /\ seen.strain <= StallMs + StepMax

Timed == {"spent", "strain", "strays", "edge", "stales"}

IdleInv ==
  /\ Whole(c) /\ Timed \subseteq DOMAIN seen
  /\ seen.stales \in Nat /\ seen.spent \in Nat /\ seen.strain \in Nat /\ seen.strays \in Nat
  /\ IF c.motion = "idle" /\ c.ks THEN Calm \/ Pushes \/ Braked ELSE Unspent
  /\ c.motion = "idle" /\ ~c.ks => NotPushing(c.idle)

LEMMA IdleStart == Init => IdleInv
BY DEF Init, IdleInv, Whole, Parts, Timed, Unspent

LEMMA LaterPush ==
  ASSUME NEW i \in PushStates, i.guard.since >= 0 \/ ~(i.pushing /\ i.fault = "run"),
         NEW d \in Nat \ {0}, NEW move \in Int, NEW j, j = PushLater(i, d, move)
  PROVE  /\ j \in PushStates /\ j.pushing = i.pushing /\ j.fault = i.fault
         /\ ~(i.pushing /\ i.fault = "run") => j = i
         /\ i.pushing /\ i.fault = "run" =>
              /\ j.guard = GuardLater(i.guard, d, move)
              /\ j.guard.since >= 0 /\ j.guard.run = i.guard.run
              /\ j.guard.maxMs = i.guard.maxMs /\ j.guard.maxCnt = i.guard.maxCnt
<1>1. CASE ~(i.pushing /\ i.fault = "run")
  <2>1. j = i
    BY <1>1, Zenon DEF PushLater
  <2> QED
    BY <1>1, <2>1
<1>2. CASE i.pushing /\ i.fault = "run"
  <2> DEFINE g == i.guard
             l == GuardLater(g, d, move)
  <2>1. g \in AnyGuard /\ g.since >= 0
    BY <1>2 DEF PushStates
  <2>2. j = [i EXCEPT !.guard = l]
    BY <1>2 DEF PushLater
  <2>3. (g.still + move) % Counts \in Int /\ (g.from + move) % Counts \in Int
    BY <2>1, InCounts DEF AnyGuard
  <2>4. Later(g.since, d, StepMax + 1) \in Int /\ Later(g.since, d, StepMax + 1) >= 0
    BY <2>1, LimitsAre DEF Later, Never, AnyGuard
  <2> HIDE DEF g
  <2>5. /\ l \in AnyGuard /\ l.run = g.run /\ l.maxMs = g.maxMs /\ l.maxCnt = g.maxCnt
        /\ l.since = Later(g.since, d, StepMax + 1)
    BY <2>1, <2>3, <2>4 DEF GuardLater, AnyGuard
  <2> HIDE DEF l
  <2>6. j \in PushStates /\ j.pushing = i.pushing /\ j.fault = i.fault /\ j.guard = l
    BY <2>2, <2>5 DEF PushStates
  <2> QED
    BY <1>2, <2>4, <2>5, <2>6 DEF g, l
<1> QED
  BY <1>1, <1>2

LEMMA CheckedAny ==
  ASSUME NEW g \in AnyGuard, NEW high \in BOOLEAN
  PROVE  motion_guard_check_at(g, high) \in AnyGuard
<1> DEFINE gap == g.since > StepMax
           dt == IF gap THEN 0 ELSE g.since
           begins == gap \/ ~high \/ ml_cnt_dist(g.still) >= StallMove
           r == IF g.maxMs = 0 THEN 0 ELSE Later(g.run, dt, g.maxMs)
           s == IF begins THEN 0 ELSE g.stall + dt
           m == IF begins THEN 0 ELSE g.still
<1>1. dt \in Int
  BY DEF AnyGuard
<1> HIDE DEF dt
<1>2. r \in Int
  BY <1>1 DEF AnyGuard, Later, Never
<1> HIDE DEF begins
<1>3. s \in Int /\ m \in Int
  BY <1>1 DEF AnyGuard
<1>4. motion_guard_check_at(g, high) = [g EXCEPT !.since = 0, !.run = r, !.stall = s, !.still = m]
  BY DEF motion_guard_check_at, dt, begins
<1> HIDE DEF r, s, m
<1> DEFINE h == [g EXCEPT !.since = 0, !.run = r, !.stall = s, !.still = m]
<1>5. h = [since |-> 0, run |-> r, stall |-> s, from |-> g.from, still |-> m,
           maxMs |-> g.maxMs, maxCnt |-> g.maxCnt]
  <2>1. g \in AnyGuard
    OBVIOUS
  <2>2. h = [g EXCEPT !.since = 0, !.run = r, !.stall = s, !.still = m]
    OBVIOUS
  <2> HIDE DEF h
  <2> QED
    BY <2>1, <2>2, Zenon DEF AnyGuard
<1>6. g.from \in Int /\ g.maxMs \in Int /\ g.maxCnt \in Int
  BY DEF AnyGuard
<1>7. h \in AnyGuard
  <2> HIDE DEF h
  <2> QED
    BY <1>2, <1>3, <1>5, <1>6 DEF AnyGuard
<1> QED
  BY <1>4, <1>7

-----------------------------------------------------------------------------
\* A push that goes on: its guard knows for how long the motor has been on, and for how long
\* the gear has not got anywhere.
SpentWith(d) == seen.spent + DrivenFor(d)
StrainWith(d, move) == IF GotOn(move) THEN 0 ELSE seen.strain + d
StraysWith(move) == IF GotOn(move) THEN 0 ELSE Strayed(move)

PushGoes(h, d, move) ==
  /\ h \in AnyGuard /\ h.since = 0 /\ h.run >= 0 /\ h.maxMs = IdleMaxMs /\ h.maxCnt = 0
  /\ SpentWith(d) \in Nat /\ StrainWith(d, move) \in Nat /\ StraysWith(move) \in Nat
  /\ SpentWith(d) <= IdleMaxMs + StepMax + StaleTime(seen.stales)
  /\ StrainWith(d, move) <= StallMs + StepMax
  /\ StrainWith(d, move) = h.stall /\ StraysWith(move) = h.still
  /\ ~GuardTripped(h) => /\ h.run < IdleMaxMs /\ h.stall < StallMs
                         /\ SpentWith(d) <= h.run + StaleTime(seen.stales)

LEMMA PushGoesOn ==
  ASSUME Pushes, c.motion = "idle", c.ks, NEW d \in Ticks, NEW move \in Turns,
         seen.stales \in Nat, seen.spent \in Nat, seen.strain \in Nat, seen.strays \in Nat,
         NEW h, h = Checked(c.idle.guard, d, move, Mag(c.x) >= IdleStallPwm)
  PROVE  PushGoes(h, d, move)
<1> DEFINE g == c.idle.guard
           high == Mag(c.x) >= IdleStallPwm
           old == StaleTime(seen.stales)
<1>1. d \in Nat \ {0} /\ d <= StepMax /\ move \in 0..(Counts - 1)
  BY TicksAre, TurnsIn
<1>2. /\ StepMax \in Nat \ {0} /\ StallMs \in Nat \ {0} /\ IdleMaxMs \in Nat \ {0} /\ Counts \in Nat \ {0}
  BY LimitsAre, IdleTime
<1>3. old \in Nat
  BY StaleTimes
<1>4. /\ g \in AnyGuard /\ g.since >= 0 /\ g.run >= 0 /\ g.run < IdleMaxMs
      /\ g.maxMs = IdleMaxMs /\ g.maxCnt = 0 /\ seen.spent <= g.run + old
  BY DEF Pushes, GuardOfPush
<1>5. high \in BOOLEAN
  OBVIOUS
<1>6. h = Checked(g, d, move, high)
  OBVIOUS
<1>7. /\ \/ /\ c.x \in Int /\ c.x < 0 /\ high /\ g.since = 0 /\ g.stall < StallMs
            /\ seen.strain = g.stall /\ seen.strays = g.still
         \/ c.x = 0 /\ seen.strain = 0 /\ seen.strays = 0
      /\ c.x = 0 => ~high
  BY DEF Pushes, IdleStallPwm, Mag
<1> HIDE DEF g, high, old
<1>8. Tells(h, g, d, move, high)
  BY <1>1, <1>4, <1>5, <1>6, CheckTells
<1>9. /\ h.since = 0 /\ h.maxMs = IdleMaxMs /\ h.maxCnt = 0 /\ h \in AnyGuard
      /\ h.run = Later(g.run, InTime(g, d), IdleMaxMs)
      /\ h.stall = IF Begins(g, d, move, high) THEN 0 ELSE g.stall + InTime(g, d)
      /\ h.still = IF Begins(g, d, move, high) THEN 0 ELSE (g.still + move) % Counts
  BY <1>2, <1>4, <1>8 DEF Tells
<1>10. g.run \in Int /\ g.since \in Int /\ g.stall \in Int /\ g.still \in Int
  BY <1>4 DEF AnyGuard
<1>11. /\ InTime(g, d) \in Nat /\ h.run \in Int
       /\ h.run >= g.run /\ (h.run < IdleMaxMs => h.run = g.run + InTime(g, d))
  BY <1>1, <1>2, <1>4, <1>9, <1>10 DEF InTime, Later, Never
<1>12. ~GuardTripped(h) => h.run < IdleMaxMs /\ h.stall < StallMs
  <2>1. h.stall \in Int
    BY <1>9 DEF AnyGuard
  <2> QED
    BY <1>2, <1>9, <1>11, <2>1 DEF GuardTripped, ml_is_limit, GuardResult
<1>13. CASE c.x = 0
  <2>1. ~IdleDrove /\ GotOn(move) /\ DrivenFor(d) = 0
    BY <1>13 DEF IdleDrove, GotOn, DrivenFor
  <2>2. SpentWith(d) = seen.spent /\ StrainWith(d, move) = 0 /\ StraysWith(move) = 0
    BY <2>1 DEF SpentWith, StrainWith, StraysWith
  <2>3. h.stall = 0 /\ h.still = 0
    BY <1>7, <1>9, <1>13 DEF Begins
  <2> QED
    BY <1>1, <1>2, <1>3, <1>4, <1>9, <1>10, <1>11, <1>12, <2>2, <2>3 DEF PushGoes, old
<1>14. CASE c.x # 0
  <2>1. IdleDrove /\ DrivenFor(d) = d /\ SpentWith(d) = seen.spent + d
    BY <1>7, <1>14 DEF IdleDrove, DrivenFor, SpentWith
  <2>2. InTime(g, d) = d /\ high
    BY <1>1, <1>2, <1>7, <1>14 DEF InTime
  <2>3. Strayed(move) = (g.still + move) % Counts /\ Strayed(move) \in Nat
    <3>1. Strayed(move) = (g.still + move) % Counts
      BY <1>7, <1>14 DEF Strayed
    <3>2. (g.still + move) % Counts \in 0..(Counts - 1)
      BY <1>1, <1>2, <1>10, InCounts
    <3> QED
      BY <1>2, <3>1, <3>2
  <2>4. Begins(g, d, move, high) <=> GotOn(move)
    <3>1. ~(g.since + d > StepMax)
      BY <1>1, <1>2, <1>7, <1>14
    <3> QED
      BY <2>1, <2>2, <2>3, <3>1 DEF Begins, GotOn
  <2>5. StrainWith(d, move) = h.stall /\ StraysWith(move) = h.still
    BY <1>7, <1>9, <1>14, <2>2, <2>3, <2>4 DEF StrainWith, StraysWith
  <2>6. StrainWith(d, move) \in Nat /\ StraysWith(move) \in Nat /\ SpentWith(d) \in Nat
    BY <1>1, <2>1, <2>3 DEF StrainWith, StraysWith
  <2>7. StrainWith(d, move) <= StallMs + StepMax
    BY <1>1, <1>2, <1>7, <1>10, <1>14 DEF StrainWith
  <2>8. /\ SpentWith(d) <= IdleMaxMs + StepMax + old
        /\ h.run < IdleMaxMs => SpentWith(d) <= h.run + old
    BY <1>1, <1>2, <1>3, <1>4, <1>10, <1>11, <2>1, <2>2
  <2>9. h.run >= 0
    BY <1>4, <1>10, <1>11
  <2>10. /\ SpentWith(d) <= IdleMaxMs + StepMax + old
         /\ ~GuardTripped(h) => /\ h.run < IdleMaxMs /\ h.stall < StallMs
                                /\ SpentWith(d) <= h.run + old
    BY <1>12, <2>8
  <2> QED
    BY <1>9, <2>5, <2>6, <2>7, <2>9, <2>10, Zenon DEF PushGoes, old
<1> QED
  BY <1>13, <1>14

\* What the history keeps of the push in a pass.
PushNoticed(t, pct, d, move) ==
  /\ Timed \subseteq DOMAIN seen' /\ seen'.stales = seen.stales
  /\ seen'.spent = IF Excused(t, pct) THEN 0 ELSE SpentWith(d)
  /\ seen'.strain = IF Excused(t, pct) THEN 0 ELSE StrainWith(d, move)
  /\ seen'.strays = IF Excused(t, pct) THEN 0 ELSE StraysWith(move)
  /\ seen'.edge <=> /\ t.motion = "idle" /\ t.ks /\ Rounded(pct) \in 27..29
                    /\ seen.edge \/ t.idle.fault = "brake"

LEMMA NoticesPush ==
  ASSUME NEW p, NEW t, NEW moved, NEW pct, NEW still, NEW d, NEW move,
         Noticed(p, t, moved, pct, still, d, move)
  PROVE  PushNoticed(t, pct, d, move)
<1> DEFINE ex == Excused(t, pct)
           got == GotOn(move)
           str == Strayed(move)
           drv == DrivenFor(d)
<1>1. /\ Timed \subseteq DOMAIN seen' /\ seen'.stales = seen.stales
      /\ seen'.spent = IF ex THEN 0 ELSE seen.spent + drv
      /\ seen'.strain = IF ex \/ got THEN 0 ELSE seen.strain + d
      /\ seen'.strays = IF ex \/ got THEN 0 ELSE str
      /\ seen'.edge = (/\ t.motion = "idle" /\ t.ks /\ Rounded(pct) \in 27..29
                       /\ seen.edge \/ t.idle.fault = "brake")
  <2> HIDE DEF ex, got, str, drv
  <2> QED
    BY DEF Noticed, Timed, ex, got, str, drv
<1> HIDE DEF ex, got
<1> QED
  BY <1>1 DEF PushNoticed, SpentWith, StrainWith, StraysWith, ex, got

\* A channel whose idle control is not on its way with a push.
LEMMA UnspentKeeps ==
  ASSUME Whole(c'), NEW pct, NEW d, NEW move, PushNoticed(c', pct, d, move), seen.stales \in Nat,
         c'.motion # "idle" \/ ~c'.ks, c'.motion = "idle" => NotPushing(c'.idle)
  PROVE  IdleInv'
<1>1. Excused(c', pct)
  BY DEF Excused
<1>2. seen'.spent = 0 /\ seen'.strain = 0 /\ seen'.strays = 0 /\ ~seen'.edge
  BY <1>1 DEF PushNoticed
<1>3. Unspent'
  BY <1>2 DEF Unspent
<1>4. Timed \subseteq DOMAIN seen' /\ seen'.stales \in Nat
  BY DEF PushNoticed
<1>5. (c.motion = "idle" /\ ~c.ks => NotPushing(c.idle))'
  BY DEF NotPushing
<1> QED
  BY <1>2, <1>3, <1>4, <1>5 DEF IdleInv, Whole

\* A push that begins, with a motor that has been off.
LEMMA FreshPush ==
  ASSUME Starts(c'.idle), c'.x \in Int, c'.x < 0, Mag(c'.x) >= 420, ~seen'.edge,
         seen'.spent = 0, seen'.strain = 0, seen'.strays = 0, seen'.stales \in Nat
  PROVE  Pushes'
<1>1. IdleMaxMs \in Nat \ {0} /\ StallMs \in Nat \ {0}
  BY IdleTime, LimitsAre
<1>2. StaleTime(seen'.stales) \in Nat
  BY StaleTimes
<1> DEFINE i == c'.idle
           g == i.guard
           x == c'.x
<1>3. /\ i \in PushStates /\ i.pushing = TRUE /\ i.fault = "run"
      /\ g.since = 0 /\ g.run = 0 /\ g.stall = 0 /\ g.still = 0
      /\ g.maxMs = IdleMaxMs /\ g.maxCnt = 0
  BY DEF Starts
<1>4. g \in AnyGuard
  BY <1>3 DEF PushStates
<1> HIDE DEF i
<1>5. GuardOfPush(c.idle.guard)'
  BY <1>1, <1>2, <1>3, <1>4 DEF GuardOfPush, i
<1> QED
  BY <1>1, <1>3, <1>5 DEF Pushes, i

LEMMA FreshKeeps ==
  ASSUME Unspent, seen.stales \in Nat, ~IdleDrove, NEW pct \in Levels, NEW d \in Nat, NEW move \in Int,
         NEW p, p.ks, NotPushing(p.idle), NEW g, IdleTells(p, pct, g, c'), PushNoticed(c', pct, d, move)
  PROVE  IdleInv'
<1>1. SpentWith(d) = 0 /\ StrainWith(d, move) = 0 /\ StraysWith(move) = 0
  BY DEF SpentWith, StrainWith, StraysWith, Unspent, DrivenFor, GotOn
<1>2. /\ Timed \subseteq DOMAIN seen' /\ seen'.stales \in Nat
      /\ seen'.spent = 0 /\ seen'.strain = 0 /\ seen'.strays = 0
      /\ seen'.edge => Rounded(pct) \in 27..29 /\ c'.idle.fault = "brake"
  BY <1>1 DEF PushNoticed, Unspent
<1>3. /\ Whole(c') /\ c'.motion = "idle" /\ c'.ks
      /\ PassTells(p.idle, Rounded(pct) < 30, pct, g, c'.idle)
      /\ c'.idle.fault = "run" =>
           /\ c'.x \in Int /\ (~(Rounded(pct) < 30) => ~(c'.x < 0))
           /\ Rounded(pct) < 30 => c'.x < 0 /\ Mag(c'.x) >= 420
  BY DEF IdleTells
<1>4. CASE Rounded(pct) < 30
  <2>1. Starts(c'.idle)
    BY <1>3, <1>4 DEF PassTells, NotPushing
  <2>2. c'.idle.fault = "run"
    BY <2>1 DEF Starts
  <2>3. Pushes'
    BY <1>2, <1>3, <1>4, <2>1, <2>2, FreshPush
  <2> QED
    BY <1>2, <1>3, <2>3 DEF IdleInv, Whole
<1>5. CASE ~(Rounded(pct) < 30)
  <2>1. NotPushing(c'.idle) /\ c'.idle.fault = "run"
    BY <1>3, <1>5 DEF PassTells, NotPushing
  <2>2. ~(c'.x < 0) /\ ~seen'.edge
    BY <1>2, <1>3, <1>5, <2>1
  <2>3. Calm'
    BY <1>2, <2>1, <2>2 DEF Calm, Unspent, NotPushing
  <2> QED
    BY <1>2, <1>3, <2>3 DEF IdleInv, Whole
<1> QED
  BY <1>4, <1>5

\* A push on its way: it goes on, or it has hit a limit.
LEMMA GoesOnKeeps ==
  ASSUME Pushes, c.motion = "idle", c.ks, NEW pct \in Levels, NEW d \in Ticks, NEW move \in Turns,
         seen.stales \in Nat, seen.spent \in Nat, seen.strain \in Nat, seen.strays \in Nat,
         NEW p, p.ks, p.x = c.x, p.idle = PushLater(c.idle, d, move),
         NEW g, g = motion_guard_check_at(p.idle.guard, Mag(p.x) >= IdleStallPwm),
         IdleTells(p, pct, g, c'), PushNoticed(c', pct, d, move)
  PROVE  IdleInv'
<1>1. c.idle \in PushStates /\ c.idle.pushing /\ c.idle.fault = "run" /\ c.idle.guard.since >= 0 /\ ~seen.edge
  BY DEF Pushes, GuardOfPush
<1>2. d \in Nat \ {0} /\ move \in Int
  BY TicksAre, TurnsIn, LimitsAre
<1>3. p.idle.pushing = TRUE /\ p.idle.fault = "run" /\ p.idle.guard = GuardLater(c.idle.guard, d, move)
  <2>1. c.idle.pushing = TRUE
    BY <1>1 DEF PushStates
  <2> QED
    BY <1>1, <1>2, <2>1, LaterPush
<1>4. g = Checked(c.idle.guard, d, move, Mag(c.x) >= IdleStallPwm)
  BY <1>3 DEF Checked
<1>5. PushGoes(g, d, move)
  BY <1>4, PushGoesOn
<1>6. /\ Whole(c') /\ c'.motion = "idle" /\ c'.ks
      /\ PassTells(p.idle, Rounded(pct) < 30, pct, g, c'.idle)
      /\ c'.idle.fault # "run" => c'.x = 0
      /\ c'.idle.fault = "run" =>
           /\ c'.x \in Int /\ (~(Rounded(pct) < 30) => ~(c'.x < 0))
           /\ Rounded(pct) < 30 => c'.x < 0 /\ Mag(c'.x) >= 420
  BY DEF IdleTells
<1>7. Timed \subseteq DOMAIN seen' /\ seen'.stales = seen.stales
  BY DEF PushNoticed
<1>8. CASE ~(Rounded(pct) < 30)
  <2>1. NotPushing(c'.idle) /\ c'.idle.fault = "run"
    BY <1>6, <1>8 DEF PassTells, NotPushing
  <2>2. pct \in 0..10000
    BY LevelsAre
  <2>3. Rounded(pct) >= 30 /\ ~(Rounded(pct) \in 27..29)
    BY <1>8, <2>2 DEF Rounded
  <2>4. Excused(c', pct)
    BY <2>3 DEF Excused
  <2>5. seen'.spent = 0 /\ seen'.strain = 0 /\ seen'.strays = 0 /\ ~seen'.edge
    BY <2>3, <2>4 DEF PushNoticed
  <2>6. ~(c'.x < 0)
    BY <1>6, <1>8, <2>1
  <2>7. Calm'
    BY <2>1, <2>5, <2>6 DEF Calm, Unspent, NotPushing
  <2> QED
    BY <1>6, <1>7, <2>5, <2>7 DEF IdleInv, Whole
<1>9. CASE Rounded(pct) < 30
  <2>1. c'.idle \in PushStates /\ c'.idle.pushing = TRUE /\ c'.idle.guard = g /\ (c'.idle.fault = "run" <=> ~GuardTripped(g))
    BY <1>3, <1>6, <1>9 DEF PassTells
  <2>2. ~Excused(c', pct)
    <3>1. pct \in 0..10000
      BY LevelsAre
    <3>2. ~(Rounded(pct) >= 30)
      BY <1>9, <3>1 DEF Rounded
    <3> QED
      BY <1>1, <1>6, <3>2 DEF Excused
  <2>3. /\ seen'.spent = SpentWith(d) /\ seen'.strain = StrainWith(d, move) /\ seen'.strays = StraysWith(move)
        /\ seen'.edge => c'.idle.fault = "brake"
    BY <1>1, <2>2 DEF PushNoticed
  <2>4. seen'.spent \in Nat /\ seen'.strain \in Nat /\ seen'.strays \in Nat
    BY <1>5, <2>3 DEF PushGoes
  <2>5. CASE c'.idle.fault = "run"
    <3>1. GuardOfPush(c.idle.guard)'
      BY <1>5, <1>7, <2>1, <2>3, <2>5 DEF PushGoes, GuardOfPush
    <3>2. /\ c'.idle.guard.since = 0 /\ c'.idle.guard.stall < StallMs
          /\ seen'.strain = c'.idle.guard.stall /\ seen'.strays = c'.idle.guard.still
      BY <1>5, <2>1, <2>3, <2>5 DEF PushGoes
    <3>3. Pushes'
      BY <1>6, <1>9, <2>1, <2>3, <2>5, <3>1, <3>2 DEF Pushes
    <3> QED
      BY <1>6, <1>7, <2>4, <3>3 DEF IdleInv, Whole
  <2>6. CASE c'.idle.fault # "run"
    <3>1. Braked'
      BY <1>5, <1>6, <1>7, <2>1, <2>3, <2>6 DEF PushGoes, Braked
    <3> QED
      BY <1>6, <1>7, <2>4, <3>1 DEF IdleInv, Whole
  <2> QED
    BY <2>5, <2>6
<1> QED
  BY <1>8, <1>9

\* A push that has hit a limit is over until the buffer is up again or far down.
LEMMA BrakedKeeps ==
  ASSUME Braked, c.motion = "idle", c.ks, NEW pct \in Levels, NEW d \in Ticks, NEW move \in Turns,
         seen.stales \in Nat, seen.spent \in Nat, seen.strain \in Nat, seen.strays \in Nat,
         NEW p, p.ks, p.idle = PushLater(c.idle, d, move),
         NEW g, IdleTells(p, pct, g, c'), PushNoticed(c', pct, d, move)
  PROVE  IdleInv'
<1>1. /\ c.idle \in PushStates /\ c.idle.fault # "run" /\ c.x = 0
      /\ seen.edge => c.idle.fault = "brake"
      /\ seen.spent <= IdleMaxMs + StepMax + StaleTime(seen.stales)
  BY DEF Braked
<1>2. p.idle = c.idle
  <2>1. d \in Nat \ {0} /\ move \in Int
    BY TicksAre, TurnsIn, LimitsAre
  <2> QED
    BY <1>1, <2>1, LaterPush
<1>3. /\ Whole(c') /\ c'.motion = "idle" /\ c'.ks
      /\ PassTells(c.idle, Rounded(pct) < 30, pct, g, c'.idle)
      /\ c'.idle.fault # "run" => c'.x = 0
      /\ c'.idle.fault = "run" =>
           /\ c'.x \in Int /\ (~(Rounded(pct) < 30) => ~(c'.x < 0))
           /\ Rounded(pct) < 30 => c'.x < 0 /\ Mag(c'.x) >= 420
  BY <1>2 DEF IdleTells
<1>4. Timed \subseteq DOMAIN seen' /\ seen'.stales = seen.stales
  BY DEF PushNoticed
<1>5. Rounded(pct) \in Int
  <2>1. pct \in 0..10000
    BY LevelsAre
  <2> QED
    BY <2>1 DEF Rounded
<1>6. SpentWith(d) = seen.spent /\ StrainWith(d, move) = 0 /\ StraysWith(move) = 0
  BY <1>1 DEF SpentWith, StrainWith, StraysWith, DrivenFor, GotOn, IdleDrove
<1>7. CASE ~(Rounded(pct) < 30)
  <2>1. NotPushing(c'.idle) /\ c'.idle.fault = "run"
    BY <1>3, <1>7 DEF PassTells, NotPushing
  <2>2. Rounded(pct) >= 30 /\ ~(Rounded(pct) \in 27..29)
    BY <1>5, <1>7
  <2>3. Excused(c', pct)
    BY <2>2 DEF Excused
  <2>4. seen'.spent = 0 /\ seen'.strain = 0 /\ seen'.strays = 0 /\ ~seen'.edge
    BY <2>2, <2>3 DEF PushNoticed
  <2>5. ~(c'.x < 0)
    BY <1>3, <1>7, <2>1
  <2>6. Calm'
    BY <2>1, <2>4, <2>5 DEF Calm, Unspent, NotPushing
  <2> QED
    BY <1>3, <1>4, <2>4, <2>6 DEF IdleInv, Whole
<1>8. CASE Rounded(pct) < 30 /\ c.idle.fault = "brake" /\ EdgeExits(pct)
  <2>1. Excused(c', pct)
    BY <1>8 DEF Excused
  <2>2. ~(Rounded(pct) \in 27..29)
    BY <1>5, <1>8 DEF EdgeExits, EdgePct
  <2>3. seen'.spent = 0 /\ seen'.strain = 0 /\ seen'.strays = 0 /\ ~seen'.edge
    BY <2>1, <2>2 DEF PushNoticed
  <2>4. Starts(c'.idle) /\ c'.idle.fault = "run"
    BY <1>3, <1>8 DEF PassTells, Starts
  <2>5. Pushes'
    BY <1>3, <1>4, <1>8, <2>3, <2>4, FreshPush
  <2> QED
    BY <1>3, <1>4, <2>3, <2>5 DEF IdleInv, Whole
<1>9. CASE Rounded(pct) < 30 /\ ~(c.idle.fault = "brake" /\ EdgeExits(pct))
  <2>1. c'.idle = c.idle
    BY <1>1, <1>3, <1>9 DEF PassTells
  <2>2. ~Excused(c', pct)
    BY <1>3, <1>5, <1>9 DEF Excused
  <2>3. seen'.spent = seen.spent /\ seen'.strain = 0 /\ seen'.strays = 0
    BY <1>6, <2>2 DEF PushNoticed
  <2>4. seen'.edge => c'.idle.fault = "brake"
    BY <1>1, <2>1 DEF PushNoticed
  <2>5. 0 <= StallMs + StepMax
    BY LimitsAre
  <2>6. Braked'
    BY <1>1, <1>3, <1>4, <2>1, <2>3, <2>4, <2>5 DEF Braked
  <2> QED
    BY <1>3, <1>4, <2>3, <2>6 DEF IdleInv, Whole
<1> QED
  BY <1>7, <1>8, <1>9

LEMMA PushIsReady ==
  ASSUME IdleInv, c.motion = "idle"
  PROVE  /\ c.idle \in PushStates
         /\ c.idle.guard.since >= 0 \/ ~(c.idle.pushing /\ c.idle.fault = "run")
<1>1. NotPushing(c.idle) \/ Pushes \/ Braked
  BY DEF IdleInv, Calm
<1>2. CASE NotPushing(c.idle)
  BY <1>2 DEF NotPushing
<1>3. CASE Pushes
  BY <1>3 DEF Pushes, GuardOfPush
<1>4. CASE Braked
  BY <1>4 DEF Braked
<1> QED
  BY <1>1, <1>2, <1>3, <1>4

\* A pass of the idle control.
LEMMA IdlePassKeeps ==
  ASSUME IdleInv, NEW host, NEW ks \in BOOLEAN, NEW pct \in Levels, NEW wait,
         NEW d \in Ticks, NEW move \in Turns, NEW still,
         NEW p, PushComes(host, ks, wait, d, move, p), p.motion = "idle", c' = RunIdle(p, pct, still, d),
         PushNoticed(c', pct, d, move)
  PROVE  IdleInv'
<1> DEFINE g == motion_guard_check_at(p.idle.guard, Mag(p.x) >= IdleStallPwm)
<1>1. /\ Whole(p) /\ p.ks = ks
      /\ \/ c.motion = "idle" /\ p.idle = PushLater(c.idle, d, move) /\ p.x = c.x
         \/ (c.motion # "idle" \/ ~ks) /\ p.idle = NoPush /\ p.x = 0
  BY DEF PushComes
<1>2. d \in Nat \ {0} /\ d \in Nat /\ move \in Int
  BY TicksAre, TurnsIn, LimitsAre
<1>3. p.idle \in PushStates
  BY <1>1, <1>2, PushIsReady, LaterPush, NoPushIs DEF NotPushing
<1>4. g \in AnyGuard
  <2>1. p.idle.guard \in AnyGuard
    BY <1>3 DEF PushStates
  <2>2. (Mag(p.x) >= IdleStallPwm) \in BOOLEAN
    OBVIOUS
  <2> QED
    BY <2>1, <2>2, CheckedAny
<1>5. IdleTells(p, pct, g, c')
  <2> DEFINE h == g
  <2>1. h = motion_guard_check_at(p.idle.guard, Mag(p.x) >= IdleStallPwm) /\ h \in AnyGuard
    BY <1>4
  <2> HIDE DEF h
  <2>2. IdleTells(p, pct, h, c')
    BY <1>1, <1>3, <2>1, RunIdleTells
  <2> QED
    BY <2>2 DEF h
<1>6. /\ Whole(c') /\ c'.motion = "idle" /\ c'.ks = ks /\ (~ks => NotPushing(c'.idle))
  BY <1>1, <1>5 DEF IdleTells
<1>7. /\ seen.stales \in Nat /\ seen.spent \in Nat /\ seen.strain \in Nat /\ seen.strays \in Nat
  BY DEF IdleInv
<1>8. CASE ~ks
  BY <1>6, <1>7, <1>8, UnspentKeeps
<1>9. CASE ks /\ (c.motion # "idle" \/ ~c.ks)
  <2>1. Unspent /\ ~IdleDrove
    BY <1>9 DEF IdleInv, IdleDrove
  <2>2. NotPushing(p.idle)
    <3>1. CASE c.motion # "idle"
      BY <1>1, <3>1, NoPushIs
    <3>2. CASE c.motion = "idle"
      <4>1. NotPushing(c.idle)
        BY <1>9, <3>2 DEF IdleInv
      <4>2. p.idle = PushLater(c.idle, d, move)
        BY <1>1, <1>9, <3>2
      <4> QED
        BY <1>2, <4>1, <4>2, LaterPush DEF NotPushing
    <3> QED
      BY <3>1, <3>2
  <2> HIDE DEF g
  <2> QED
    BY <1>1, <1>2, <1>5, <1>7, <1>9, <2>1, <2>2, FreshKeeps
<1>10. CASE ks /\ c.motion = "idle" /\ c.ks
  <2>1. p.ks /\ p.x = c.x /\ p.idle = PushLater(c.idle, d, move)
    BY <1>1, <1>10
  <2>2. Calm \/ Pushes \/ Braked
    BY <1>10 DEF IdleInv
  <2>3. CASE Calm
    <3>1. NotPushing(c.idle) /\ Unspent /\ ~IdleDrove
      BY <2>3 DEF Calm, IdleDrove
    <3>2. NotPushing(p.idle)
      BY <1>2, <2>1, <3>1, LaterPush DEF NotPushing
    <3> HIDE DEF g
    <3> QED
      BY <1>2, <1>5, <1>7, <2>1, <3>1, <3>2, FreshKeeps
  <2>4. CASE Pushes
    <3> DEFINE h == g
    <3>1. h = motion_guard_check_at(p.idle.guard, Mag(p.x) >= IdleStallPwm) /\ IdleTells(p, pct, h, c')
      BY <1>5
    <3> HIDE DEF h
    <3> QED
      BY <1>7, <1>10, <2>1, <2>4, <3>1, GoesOnKeeps
  <2>5. CASE Braked
    <3> HIDE DEF g
    <3> QED
      BY <1>5, <1>7, <1>10, <2>1, <2>5, BrakedKeeps
  <2> QED
    BY <2>2, <2>3, <2>4, <2>5
<1> QED
  BY <1>8, <1>9, <1>10

LEMMA RunsIdle ==
  ASSUME NEW s, Whole(s), NEW pct, NEW still, NEW d, NEW ask,
         NEW r, r = Run(s, pct, still, d, ask), r.motion = "idle", r.motion \in {s.motion, "stop"}
  PROVE  s.motion = "idle" /\ r = RunIdle(s, pct, still, d)
<1>1. s.motion = "idle"
  OBVIOUS
<1>2. CASE s.left = Never
  <2>1. r = RunOut(s)
    BY <1>1, <1>2 DEF Run
  <2> DEFINE e == IF s.motion = "on_use" THEN 0 ELSE s.exit
  <2>2. r = [Brake(s) EXCEPT !.motion = "stop", !.exit = IF s.motion = "on_use" THEN 0 ELSE @]
    BY <2>1 DEF RunOut
  <2>3. r.motion = "stop"
    BY <2>2 DEF Brake, Whole, Parts
  <2> QED
    BY <2>3
<1>3. CASE s.left # Never
  BY <1>1, <1>3 DEF Run
<1> QED
  BY <1>1, <1>2, <1>3

LEMMA PushPassKeeps ==
  ASSUME LoadInv, IdleInv, NEW host \in Hosts, NEW ks \in Keys, NEW pct \in Levels, NEW wait \in Others,
         NEW d \in Ticks, NEW move \in Turns, NEW still \in BOOLEAN,
         NEW p, p = Prepared(host, ks, pct, wait, d, move), NEW ask, c' = Run(p, pct, still, d, -ask),
         NEW moved, Noticed(p, c', moved, pct, still, d, move)
  PROVE  IdleInv'
<1> DEFINE g == motion_guard_check_at(p.send, Mag(p.x) >= StallPwm)
<1>1. ks \in BOOLEAN /\ wait \in BOOLEAN /\ d \in Nat /\ d \in Nat \ {0}
  <2>1. ks \in BOOLEAN /\ wait \in BOOLEAN
    BY KeysIn, Zenon
  <2>2. d \in Nat \ {0}
    BY TicksIn, Zenon
  <2> QED
    BY <2>1, <2>2
<1>2. PrepTells(host, ks, wait, d, move, p)
  BY <1>1, Prepares DEF LoadInv
<1>3. p.motion = "send" => Before(p, Trip(move), d)
  BY <1>1, <1>2, Befores
<1>4. RunTells(p, g, still, d, c')
  <2>1. Whole(p) /\ p.motion \in Motions
    BY <1>2 DEF PrepTells
  <2>2. p.motion = "send" => /\ p.aborted \in BOOLEAN /\ p.latched \in BOOLEAN
                             /\ p.latched => p.stall \in Nat /\ p.thresh \in Int
    BY <1>3 DEF Before
  <2> QED
    BY <1>1, <2>1, <2>2, Runs
<1>5. PushComes(host, ks, wait, d, move, p)
  BY PreparesPush DEF IdleInv
<1>6. PushNoticed(c', pct, d, move)
  BY NoticesPush, Zenon
<1> HIDE DEF g
<1>7. Whole(p) /\ Whole(c') /\ c'.motion \in {p.motion, "stop"}
  BY <1>4, <1>5 DEF RunTells, PushComes
<1>8. CASE c'.motion = "idle"
  <2>1. p.motion = "idle" /\ c' = RunIdle(p, pct, still, d)
    BY <1>7, <1>8, RunsIdle
  <2> QED
    BY <1>1, <1>5, <1>6, <2>1, IdlePassKeeps
<1>9. CASE c'.motion # "idle"
  <2>1. seen.stales \in Nat
    BY DEF IdleInv
  <2> QED
    BY <1>6, <1>7, <1>9, <2>1, UnspentKeeps
<1> QED
  BY <1>8, <1>9

LEMMA PushStoppedKeeps == IdleInv /\ StoppedPass => IdleInv'
<1> SUFFICES ASSUME IdleInv, StoppedPass PROVE IdleInv'
  OBVIOUS
<1>1. PICK host \in Hosts, ks \in Keys, pct \in Levels, wait \in Others, d \in Ticks, move \in Turns :
        /\ c' = Brake(set_motion(Prepared(host, ks, pct, wait, d, move), "stop", pct, 0))
        /\ Noticed(Prepared(host, ks, pct, wait, d, move), c', TRUE, pct, FALSE, d, move)
  BY DEF StoppedPass
<1> DEFINE p == Prepared(host, ks, pct, wait, d, move)
           t == set_motion(p, "stop", pct, 0)
<1>2. Whole(p)
  BY PreparesPush DEF IdleInv, PushComes
<1>3. c' = Brake(t) /\ Noticed(p, c', TRUE, pct, FALSE, d, move)
  BY <1>1
<1> HIDE DEF p
<1>4. SetIdle(p, "stop", t)
  BY <1>2, Sets
<1> HIDE DEF t
<1>5. Whole(c') /\ c'.motion = "stop"
  BY <1>3, <1>4, BrakeLeaves DEF SetIdle, Leaves
<1>6. PushNoticed(c', pct, d, move)
  BY <1>3, NoticesPush, Zenon
<1>7. c'.motion # "idle" /\ seen.stales \in Nat
  BY <1>5 DEF IdleInv
<1> QED
  BY <1>5, <1>6, <1>7, UnspentKeeps

\* What the history keeps of the push when the readings are old.
StalePush(host, wait, d) ==
  /\ Timed \subseteq DOMAIN seen' /\ seen'.stales = seen.stales + 1
  /\ seen'.spent = IF c.motion = "idle" /\ Goes(host, wait, "other") THEN SpentWith(d) ELSE 0
  /\ seen'.strain = 0 /\ seen'.strays = 0
  /\ seen'.edge <=> seen.edge /\ c'.motion = "idle"

LEMMA PushStaleKeeps == IdleInv /\ StalePass => IdleInv'
<1> SUFFICES ASSUME IdleInv, StalePass PROVE IdleInv'
  OBVIOUS
<1>1. PICK host \in Hosts, pct \in Levels, wait \in Others, d \in Ticks \cup {StepMax + 1}, move \in Turns :
       LET s == Prepared(host, c.ks, pct, wait, d, move)
       IN /\ d > StepMax => c.x = 0
          /\ c' = motor_brake_hold(s)
          /\ seen' = [seen EXCEPT !.stales = @ + 1,
                                  !.spent  = IF c.motion = "idle" /\ Goes(host, wait, "other")
                                             THEN @ + DrivenFor(d) ELSE 0,
                                  !.strain = 0, !.strays = 0,
                                  !.loading = GoesOn(host, wait),
                                  !.trip   = IF GoesOn(host, wait) THEN @ + Turned(move) ELSE 0,
                                  !.why    = IF c'.motion = "send" THEN @ ELSE "none",
                                  !.slips  = @ /\ c'.motion = "send",
                                  !.stood  = @ /\ c'.motion = "send",
                                  !.edge   = @ /\ c'.motion = "idle",
                                  !.hold   = @ /\ host = "other"]
  BY Zenon DEF StalePass
<1> DEFINE p == Prepared(host, c.ks, pct, wait, d, move)
<1>2. PushComes(host, c.ks, wait, d, move, p)
  BY PreparesPush DEF IdleInv
<1>3. (d > StepMax => c.x = 0) /\ c' = Brake(p)
  BY <1>1 DEF motor_brake_hold
<1> HIDE DEF p
<1>4. StalePush(host, wait, d)
  <2> DEFINE n == IF c.motion = "idle" /\ Goes(host, wait, "other") THEN seen.spent + DrivenFor(d) ELSE 0
  <2>1. Timed \subseteq DOMAIN seen
    BY DEF IdleInv
  <2>2. /\ Timed \subseteq DOMAIN seen' /\ seen'.stales = seen.stales + 1
        /\ seen'.spent = n /\ seen'.strain = 0 /\ seen'.strays = 0
        /\ seen'.edge = (seen.edge /\ c'.motion = "idle")
    BY <1>1, <2>1 DEF Timed
  <2> QED
    BY <2>2 DEF StalePush, SpentWith
<1>5. d \in Nat \ {0} /\ d \in Nat /\ move \in Int
  BY TicksIn, TurnsIn, LimitsAre
<1>6. Whole(c') /\ c'.motion = p.motion /\ c'.idle = p.idle /\ c'.ks = c.ks /\ c'.x = 0
  BY <1>2, <1>3 DEF PushComes, Brake, Whole, Parts
<1>7. /\ seen.stales \in Nat /\ seen.spent \in Nat /\ StepMax \in Nat /\ IdleMaxMs \in Nat
      /\ StaleTime(seen.stales) \in Nat /\ StaleTime(seen'.stales) = StaleTime(seen.stales) + StepMax
  BY <1>4, StaleTimes, LimitsAre, IdleTime DEF IdleInv, StalePush
<1>8. seen'.stales \in Nat /\ seen'.spent \in Nat /\ seen'.strain = 0 /\ seen'.strays = 0
  <2>1. SpentWith(d) \in Nat
    BY <1>5, <1>7 DEF SpentWith, DrivenFor
  <2> QED
    BY <1>4, <1>7, <2>1 DEF StalePush
<1>9. SpentWith(d) <= seen.spent + StepMax /\ (~IdleDrove => SpentWith(d) = seen.spent)
  <2>1. IdleDrove => d <= StepMax
    BY <1>3, <1>5, <1>7 DEF IdleDrove
  <2> QED
    BY <1>5, <1>7, <2>1 DEF SpentWith, DrivenFor
<1>10. CASE c.motion # "idle" \/ ~c.ks
  <2>1. Unspent /\ ~IdleDrove
    BY <1>10 DEF IdleInv, IdleDrove
  <2>2. seen'.spent = 0 /\ ~seen'.edge
    BY <1>4, <1>9, <2>1 DEF StalePush, Unspent
  <2>3. c'.motion = "idle" => NotPushing(c'.idle)
    <3> SUFFICES ASSUME c'.motion = "idle" PROVE NotPushing(c'.idle)
      OBVIOUS
    <3>1. CASE c.motion = "idle" /\ p.idle = PushLater(c.idle, d, move)
      <4>1. NotPushing(c.idle)
        BY <1>10, <3>1 DEF IdleInv
      <4> QED
        BY <1>5, <1>6, <3>1, <4>1, LaterPush DEF NotPushing
    <3>2. CASE p.idle = NoPush
      BY <1>6, <3>2, NoPushIs
    <3> QED
      BY <1>2, <1>6, <3>1, <3>2 DEF PushComes
  <2>4. Unspent' /\ ~(c'.x < 0)
    BY <1>6, <1>8, <2>2 DEF Unspent
  <2>5. c'.motion = "idle" => Calm'
    BY <2>3, <2>4 DEF Calm, NotPushing
  <2>6. Timed \subseteq DOMAIN seen'
    BY <1>4 DEF StalePush
  <2>7. (c.motion = "idle" /\ ~c.ks => NotPushing(c.idle))'
    BY <2>3 DEF NotPushing
  <2> QED
    BY <1>6, <1>8, <2>4, <2>5, <2>6, <2>7 DEF IdleInv, Whole
<1>11. CASE c.motion = "idle" /\ c.ks /\ p.motion # "idle"
  <2>1. ~Goes(host, wait, "other")
    BY <1>2, <1>11 DEF PushComes, Goes
  <2>2. seen'.spent = 0 /\ ~seen'.edge
    BY <1>4, <1>6, <1>11, <2>1 DEF StalePush
  <2>3. Unspent'
    BY <1>8, <2>2 DEF Unspent
  <2>4. Timed \subseteq DOMAIN seen'
    BY <1>4 DEF StalePush
  <2> QED
    BY <1>6, <1>8, <1>11, <2>3, <2>4 DEF IdleInv, Whole
<1>12. CASE c.motion = "idle" /\ c.ks /\ p.motion = "idle"
  <2>1. c'.idle = PushLater(c.idle, d, move) /\ c'.motion = "idle" /\ c'.ks /\ c'.x = 0
    BY <1>2, <1>6, <1>12 DEF PushComes
  <2>2. Timed \subseteq DOMAIN seen' /\ (seen'.edge <=> seen.edge) /\ seen'.spent \in {0, SpentWith(d)}
    BY <1>4, <2>1 DEF StalePush
  <2>3. CASE Calm
    <3>1. NotPushing(c'.idle)
      BY <1>5, <2>1, <2>3, LaterPush DEF Calm, NotPushing
    <3>2. SpentWith(d) = 0 /\ ~seen.edge
      BY <1>9, <2>3 DEF Calm, Unspent, IdleDrove
    <3>3. Calm'
      BY <1>8, <2>1, <2>2, <3>1, <3>2 DEF Calm, Unspent, NotPushing
    <3> QED
      BY <1>6, <1>8, <2>1, <2>2, <3>3 DEF IdleInv, Whole
  <2>4. CASE Pushes
    <3>1. /\ c.idle \in PushStates /\ c.idle.pushing = TRUE /\ c.idle.fault = "run" /\ ~seen.edge
          /\ c.idle.guard.since >= 0 /\ c.idle.guard.run >= 0 /\ c.idle.guard.run < IdleMaxMs
          /\ c.idle.guard.maxMs = IdleMaxMs /\ c.idle.guard.maxCnt = 0
          /\ seen.spent <= c.idle.guard.run + StaleTime(seen.stales)
      BY <2>4 DEF Pushes, GuardOfPush
    <3>2. c.idle.guard.run \in Int
      BY <3>1 DEF PushStates, AnyGuard
    <3>3. /\ c'.idle \in PushStates /\ c'.idle.pushing = TRUE /\ c'.idle.fault = "run"
          /\ c'.idle.guard.since >= 0 /\ c'.idle.guard.run = c.idle.guard.run
          /\ c'.idle.guard.maxMs = IdleMaxMs /\ c'.idle.guard.maxCnt = 0
      BY <1>5, <2>1, <3>1, LaterPush
    <3>4. c'.idle.guard \in AnyGuard
      BY <3>3 DEF PushStates
    <3>5. seen'.spent <= c.idle.guard.run + StaleTime(seen'.stales)
      BY <1>7, <1>8, <1>9, <2>2, <3>1, <3>2
    <3>6. GuardOfPush(c.idle.guard)'
      BY <3>1, <3>3, <3>4, <3>5 DEF GuardOfPush
    <3>7. Pushes'
      BY <1>8, <2>1, <2>2, <3>1, <3>3, <3>6 DEF Pushes
    <3> QED
      BY <1>6, <1>8, <2>1, <2>2, <3>7 DEF IdleInv, Whole
  <2>5. CASE Braked
    <3>1. /\ c.idle \in PushStates /\ c.idle.fault # "run" /\ (seen.edge => c.idle.fault = "brake")
          /\ seen.spent <= IdleMaxMs + StepMax + StaleTime(seen.stales) /\ ~IdleDrove
      BY <2>5 DEF Braked, IdleDrove
    <3>2. c'.idle = c.idle
      BY <1>5, <2>1, <3>1, LaterPush
    <3>3. seen'.spent <= IdleMaxMs + StepMax + StaleTime(seen'.stales)
      BY <1>7, <1>8, <1>9, <2>2, <3>1
    <3>4. 0 <= StallMs + StepMax
      BY LimitsAre
    <3>5. Braked'
      BY <1>8, <2>1, <2>2, <3>1, <3>2, <3>3, <3>4 DEF Braked
    <3> QED
      BY <1>6, <1>8, <2>1, <2>2, <3>5 DEF IdleInv, Whole
  <2> QED
    BY <1>12, <2>3, <2>4, <2>5 DEF IdleInv
<1> QED
  BY <1>10, <1>11, <1>12

LEMMA IdleStep == LoadInv /\ IdleInv /\ [Next]_vars => IdleInv'
<1> SUFFICES ASSUME LoadInv, IdleInv, [Next]_vars PROVE IdleInv'
  OBVIOUS
<1>1. CASE Pass
  <2>1. PICK host \in Hosts, ks \in Keys, pct \in Levels, wait \in Others, d \in Ticks,
             move \in Turns, still \in BOOLEAN :
          LET s == Prepared(host, ks, pct, wait, d, move)
          IN /\ still => move = 0
             /\ \E ask \in IF s.motion = "send" THEN SendPwms ELSE {0} : c' = Run(s, pct, still, d, -ask)
             /\ Noticed(s, c', host # "other", pct, still, d, move)
    BY <1>1, Zenon DEF Pass
  <2> DEFINE p == Prepared(host, ks, pct, wait, d, move)
  <2>2. PICK ask : c' = Run(p, pct, still, d, -ask)
    BY <2>1, Zenon
  <2>3. Noticed(p, c', host # "other", pct, still, d, move)
    BY <2>1, Zenon
  <2>4. p = Prepared(host, ks, pct, wait, d, move)
    OBVIOUS
  <2> HIDE DEF p
  <2> QED
    BY <2>2, <2>3, <2>4, PushPassKeeps
<1>2. CASE StoppedPass
  BY <1>2, PushStoppedKeeps
<1>3. CASE StalePass
  BY <1>3, PushStaleKeeps
<1>4. CASE UNCHANGED vars
  BY <1>4 DEF vars, IdleInv, Whole, Calm, Pushes, Braked, Unspent, GuardOfPush
<1> QED
  BY <1>1, <1>2, <1>3, <1>4 DEF Next

\* The push of a parked channel ends within its time, and soon when the gear does not turn, and
\* a brake at the edge of the deadband holds while the reading flickers there, for all times,
\* gears and buffers, however often the readings go stale.
THEOREM IdlePushesHold == Spec => [](IdlePushIsBounded /\ EdgeBrakeHolds)
<1>1. IdleInv => IdlePushIsBounded /\ EdgeBrakeHolds
  <2> SUFFICES ASSUME IdleInv PROVE IdlePushIsBounded /\ EdgeBrakeHolds
    OBVIOUS
  <2>1. /\ StepMax \in Nat /\ StallMs \in Nat /\ IdleMaxMs \in Nat /\ seen.stales \in Nat
        /\ seen.spent \in Nat /\ seen.strain \in Nat
        /\ StaleTime(seen.stales) \in Nat
    BY LimitsAre, IdleTime, StaleTimes DEF IdleInv
  <2>2. /\ seen.spent <= IdleMaxMs + StepMax + StaleTime(seen.stales)
        /\ seen.strain <= StallMs + StepMax /\ (seen.edge => c.x = 0)
    <3>1. CASE Unspent
      BY <2>1, <3>1 DEF Unspent
    <3>2. CASE Pushes
      <4>1. c.idle.guard \in AnyGuard
        BY <3>2 DEF Pushes, PushStates
      <4>2. c.idle.guard.run \in Int /\ c.idle.guard.stall \in Int
        BY <4>1 DEF AnyGuard
      <4> QED
        BY <2>1, <3>2, <4>2 DEF Pushes, GuardOfPush
    <3>3. CASE Braked
      BY <3>3 DEF Braked
    <3> QED
      BY <3>1, <3>2, <3>3 DEF IdleInv, Calm
  <2>3. StaleTime(seen.stales) + StepMax = StepMax * (1 + seen.stales)
    BY <2>1, SMTT(30) DEF StaleTime
  <2> QED
    BY <2>1, <2>2, <2>3 DEF IdlePushIsBounded, EdgeBrakeHolds
<1> QED
  BY <1>1, LoadStart, LoadStep, IdleStart, IdleStep, PTL DEF Spec
-----------------------------------------------------------------------------
(* The push of a channel in use.                                           *)

LEMMA PushTime ==
  /\ PushMaxMs \in Nat \ {0} /\ UseTarget \in Int /\ UseBandLo \in Int /\ 5000 <= UseTarget - UseBandLo
BY UseAssumption, SMTT(30) DEF UseAssumption

LEMMA LongestIs == Longest \in Nat \ {0} /\ Longest < StallRestMs /\ \A d \in Ticks : d <= Longest
<1>1. \E t \in Ticks : \A u \in Ticks : u <= t
  BY UseAssumption DEF UseAssumption
<1>2. Longest \in Ticks /\ \A u \in Ticks : u <= Longest
  BY <1>1, Zenon DEF Longest
<1>3. \A t \in Ticks : t < StallRestMs
  BY UseAssumption DEF UseAssumption
<1> QED
  BY <1>2, <1>3, TicksAre

\* The clocks of the anti-stall and of a push at full force.
Paced(s) ==
  /\ Whole(s) /\ s.stall \in Nat /\ s.stall <= StallRestMs /\ s.rest \in Nat /\ s.rest <= RestMs
  /\ s.rest > 0 => s.stall = 0
  /\ s.hi \in Nat /\ s.hi < PushMaxMs

SamePace(s, t) == Whole(t) /\ t.stall = s.stall /\ t.rest = s.rest /\ t.hi = s.hi

LEMMA PacesOn ==
  ASSUME NEW s, Paced(s), NEW t, SamePace(s, t)
  PROVE  Paced(t)
BY DEF Paced, SamePace

LEMMA BrakePaces ==
  ASSUME NEW s, Paced(s)
  PROVE  SamePace(s, Brake(s)) /\ Paced(Brake(s)) /\ Brake(s).ks = s.ks /\ Brake(s).low = s.low
<1>1. SamePace(s, Brake(s)) /\ Brake(s).ks = s.ks /\ Brake(s).low = s.low
  BY DEF Paced, SamePace, Brake, Whole, Parts
<1> QED
  BY <1>1, PacesOn

\* What the limit at full force makes of them.
ForceTells(s, x, d, t) ==
  /\ Paced(t) /\ t.stall = s.stall /\ t.rest = s.rest /\ t.ks = s.ks
  /\ s.motion = "on_use" /\ ~s.low /\ s.ks /\ x < -FullPwm => t.low \/ t.hi = s.hi + d

LEMMA ForcePaces ==
  ASSUME NEW s, Paced(s), NEW x, NEW d \in Nat
  PROVE  ForceTells(s, x, d, FullForce(s, x, d))
<1> DEFINE t == FullForce(s, x, d)
           hi == IF x < -FullPwm THEN AtMost(s.hi + d, PushMaxMs) ELSE 0
<1>1. PushMaxMs \in Nat \ {0} /\ s.hi \in Nat /\ s.hi < PushMaxMs
  BY PushTime DEF Paced
<1>2. CASE s.motion # "on_use" \/ s.low \/ ~s.ks
  <2>1. t = [s EXCEPT !.hi = 0, !.x = x]
    BY <1>2, Zenon DEF FullForce
  <2> HIDE DEF t
  <2>2. Paced(t) /\ t.stall = s.stall /\ t.rest = s.rest /\ t.ks = s.ks
    BY <1>1, <2>1 DEF Paced, Whole, Parts
  <2> QED
    BY <1>2, <2>2 DEF ForceTells, t
<1>3. CASE ~(s.motion # "on_use" \/ s.low \/ ~s.ks) /\ hi = PushMaxMs
  <2>1. t = [Brake(s) EXCEPT !.hi = 0, !.low = TRUE]
    BY <1>3, Zenon DEF FullForce
  <2> HIDE DEF t
  <2>2. Paced(t) /\ t.stall = s.stall /\ t.rest = s.rest /\ t.ks = s.ks /\ t.low
    BY <1>1, <2>1 DEF Paced, Whole, Parts, Brake
  <2> QED
    BY <2>2 DEF ForceTells, t
<1>4. CASE ~(s.motion # "on_use" \/ s.low \/ ~s.ks) /\ hi # PushMaxMs
  <2>1. t = [s EXCEPT !.hi = hi, !.x = x]
    BY <1>4, Zenon DEF FullForce
  <2>2. hi \in Nat /\ hi < PushMaxMs /\ (x < -FullPwm => hi = s.hi + d)
    BY <1>1, <1>4 DEF AtMost
  <2> HIDE DEF t, hi
  <2>3. Paced(t) /\ t.stall = s.stall /\ t.rest = s.rest /\ t.ks = s.ks /\ t.hi = hi
    BY <2>1, <2>2 DEF Paced, Whole, Parts
  <2> QED
    BY <2>2, <2>3 DEF ForceTells, t
<1> QED
  BY <1>2, <1>3, <1>4

\* What a control makes of them that pushes with x, or with as much as a kick.
Paces(s, x, d, t) ==
  /\ s.rest > 0 => SamePace(s, t)
  /\ s.rest = 0 /\ s.motion = "on_use" /\ ~s.low /\ s.ks /\ x < -FullPwm /\ Signed(x, 850) < -FullPwm =>
       \/ t.low
       \/ t.rest = 0 /\ t.hi = s.hi + d /\ t.stall \in {0, s.stall + d}
       \/ t.rest = RestMs /\ t.stall = 0 /\ t.hi = s.hi /\ s.stall + d > StallRestMs

Pushed(s, like, x, d, t) == Paced(t) /\ t.ks = s.ks /\ (like => Paces(s, x, d, t))

LEMMA DrivenPaces ==
  ASSUME NEW s, Paced(s), NEW a, NEW like, NEW holds, NEW still, NEW d \in Nat,
         NEW t, t = Driven(s, a, like, holds, still, d)
  PROVE  Pushed(s, like, AtLeastMoves(a, Floored(a.x, s, holds)), d, t)
<1> DEFINE x == AtLeastMoves(a, Floored(a.x, s, holds))
           stall == Stalled(s, a, holds, still, d)
           y == IF stall > KickMs THEN Signed(x, 850) ELSE x
<1>1. s.stall \in Nat /\ s.rest \in Nat /\ RestMs \in Nat /\ StallRestMs \in Nat /\ Whole(s)
  BY NumbersAre DEF Paced
<1>2. stall \in Nat /\ stall \in {0, s.stall + d}
  BY <1>1 DEF Stalled
<1>3. CASE ~like
  <2> DEFINE u == [s EXCEPT !.stall = 0, !.rest = 0]
  <2>1. Paced(u) /\ u.ks = s.ks
    BY <1>1 DEF Paced, Whole, Parts
  <2>2. t = FullForce(u, Floored(a.x, s, holds), d)
    BY <1>3, Zenon DEF Driven
  <2> HIDE DEF u
  <2>3. Paced(t) /\ t.ks = s.ks
    BY <2>1, <2>2, ForcePaces DEF ForceTells
  <2> HIDE DEF x
  <2>4. Pushed(s, like, x, d, t)
    BY <1>3, <2>3 DEF Pushed
  <2> QED
    BY <2>4 DEF x
<1>4. CASE like /\ s.rest > 0
  <2>1. t = Brake(s)
    BY <1>4, Zenon DEF Driven
  <2>2. SamePace(s, t) /\ Paced(t) /\ t.ks = s.ks
    BY <2>1, BrakePaces
  <2>3. ~(s.rest = 0)
    BY <1>1, <1>4
  <2> HIDE DEF x
  <2>4. Pushed(s, like, x, d, t)
    BY <1>4, <2>2, <2>3, Zenon DEF Pushed, Paces
  <2> QED
    BY <2>4 DEF x
<1>5. CASE like /\ ~(s.rest > 0) /\ stall > StallRestMs
  <2>1. t = RestBegins(s)
    BY <1>5, Zenon DEF Driven, Stalled
  <2>2. Paced(t) /\ t.ks = s.ks /\ t.rest = RestMs /\ t.stall = 0 /\ t.hi = s.hi
    BY <1>1, <2>1 DEF RestBegins, Brake, Paced, Whole, Parts
  <2>3. s.stall + d > StallRestMs
    BY <1>1, <1>2, <1>5
  <2> HIDE DEF x, stall
  <2>4. Pushed(s, like, x, d, t)
    BY <1>5, <2>2, <2>3 DEF Pushed, Paces
  <2> QED
    BY <2>4 DEF x
<1>6. CASE like /\ ~(s.rest > 0) /\ ~(stall > StallRestMs)
  <2> DEFINE u == [s EXCEPT !.stall = stall]
  <2>1. t = FullForce(u, y, d)
    BY <1>6, Zenon DEF Driven, Stalled
  <2> HIDE DEF stall
  <2>2. /\ Paced(u) /\ u.stall = stall /\ u.rest = s.rest /\ u.hi = s.hi
        /\ u.ks = s.ks /\ u.motion = s.motion /\ u.low = s.low
    BY <1>1, <1>2, <1>6 DEF Paced, Whole, Parts
  <2> HIDE DEF u, x, y
  <2>3. ForceTells(u, y, d, t)
    BY <2>1, <2>2, ForcePaces
  <2>4. y \in {x, Signed(x, 850)}
    BY DEF y
  <2>5. Paced(t) /\ t.ks = s.ks /\ t.stall \in {0, s.stall + d} /\ t.rest = s.rest /\ s.rest = 0
    <3>1. Paced(t) /\ t.ks = u.ks /\ t.stall = u.stall /\ t.rest = u.rest
      BY <2>3, Zenon DEF ForceTells
    <3>2. ~(s.rest > 0)
      BY <1>6, Zenon
    <3>3. s.rest = 0
      BY <1>1, <3>2
    <3> QED
      BY <1>2, <2>2, <3>1, <3>3
  <2>6. s.motion = "on_use" /\ ~s.low /\ s.ks /\ x < -FullPwm /\ Signed(x, 850) < -FullPwm =>
          t.low \/ t.hi = s.hi + d
    BY <2>2, <2>3, <2>4 DEF ForceTells
  <2>7. Paces(s, x, d, t)
    BY <2>5, <2>6 DEF Paces
  <2>8. Pushed(s, like, x, d, t)
    BY <2>5, <2>7, Zenon DEF Pushed
  <2> QED
    BY <2>8 DEF x
<1> QED
  BY <1>1, <1>3, <1>4, <1>5, <1>6

\* What the on_use control makes of them far below where it keeps the buffer.
UseTells(s, d, t) ==
  \/ t.low
  \/ s.rest > 0 /\ SamePace(s, t)
  \/ s.rest = 0 /\ t.rest = 0 /\ t.hi = s.hi + d /\ t.stall \in {0, s.stall + d}
  \/ s.rest = 0 /\ t.rest = RestMs /\ t.stall = 0 /\ t.hi = s.hi /\ s.stall + d > StallRestMs

LEMMA FarBelow ==
  ASSUME NEW s, s.motion = "on_use", NEW pct \in Levels, pct < 5000, NEW ceiling, NEW holds,
         NEW a, a = OnUse(pct, ceiling), NEW x, x = AtLeastMoves(a, Floored(a.x, s, holds))
  PROVE  x < -FullPwm /\ Signed(x, 850) < -FullPwm
<1>1. pct \in 0..10000 /\ pct < UseTarget - UseBandLo
  BY LevelsAre, PushTime
<1>2. a = Asks(-900, UseTarget - pct, TRUE)
  BY <1>1 DEF OnUse, UsePush
<1>3. a.x = -900 /\ a.linear = TRUE
  BY <1>2 DEF Asks
<1> DEFINE m == -900
<1>4. m \in Int /\ m < 0 /\ m = -900 /\ a.x = m
  BY <1>3
<1> HIDE DEF m
<1>5. Mag(m) = 900 /\ Signed(m, 900) = m /\ Signed(m, 850) = -850 /\ AtMost(900, 1000) = 900
  <2>1. Mag(m) = 900
    <3>1. m + 900 = 0
      BY <1>4
    <3>2. m \in Int /\ m < 0
      BY <1>4
    <3> QED
      BY <3>1, <3>2 DEF Mag
  <2>2. Signed(m, 900) = m
    BY <1>4 DEF Signed
  <2>3. Signed(m, 850) = -850
    BY <1>4 DEF Signed
  <2>4. AtMost(900, 1000) = 900
    BY DEF AtMost
  <2> QED
    BY <2>1, <2>2, <2>3, <2>4
<1>6. Raised(m, s, holds) = m
  BY <1>5 DEF Raised
<1>7. Floored(m, s, holds) = m
  BY <1>5, <1>6 DEF Floored
<1>8. x = m
  BY <1>3, <1>4, <1>7 DEF AtLeastMoves
<1> QED
  BY <1>4, <1>5, <1>8 DEF FullPwm

LEMMA UsePaces ==
  ASSUME NEW s, Paced(s), s.motion = "on_use", NEW pct \in Levels, NEW still, NEW d \in Nat,
         NEW t, t = RunOnUse(s, pct, still, d)
  PROVE  /\ Paced(t) /\ t.ks = s.ks
         /\ ~s.low /\ s.ks /\ pct < 5000 => UseTells(s, d, t)
<1> DEFINE v == IF HandoffOver(s, pct) THEN [s EXCEPT !.ceiling = NoLevel, !.handoff = 0] ELSE s
           u == [v EXCEPT !.rhys = FALSE]
           a == OnUse(pct, v.ceiling)
           yes == TRUE
           x == AtLeastMoves(a, Floored(a.x, u, yes))
<1>1. SamePace(s, v) /\ v.ks = s.ks /\ v.low = s.low /\ v.motion = s.motion
  BY DEF Paced, SamePace, Whole, Parts
<1>2. t = Driven(u, a, yes, yes, still, d) /\ yes
  BY DEF RunOnUse
<1> HIDE DEF v, yes
<1>3. SamePace(s, u) /\ u.ks = s.ks /\ u.low = s.low /\ u.motion = s.motion
  BY <1>1 DEF SamePace, Whole, Parts
<1> HIDE DEF u
<1>4. Paced(u)
  BY <1>3, PacesOn
<1>5. pct < 5000 => x < -FullPwm /\ Signed(x, 850) < -FullPwm
  <2>1. a = OnUse(pct, v.ceiling) /\ u.motion = "on_use"
    BY <1>3
  <2> HIDE DEF a
  <2> QED
    BY <2>1, FarBelow
<1>6. Paced(t) /\ t.ks = u.ks /\ Paces(u, x, d, t)
  <2> HIDE DEF a
  <2>1. Pushed(u, yes, x, d, t)
    BY <1>2, <1>4, DrivenPaces
  <2> HIDE DEF x
  <2> QED
    BY <1>2, <2>1, Zenon DEF Pushed
<1> HIDE DEF a, x
<1>7. s.rest > 0 \/ s.rest = 0
  BY DEF Paced
<1> QED
  BY <1>3, <1>5, <1>6, <1>7 DEF UseTells, SamePace, Paces

LEMMA RunPaces ==
  ASSUME NEW s, Paced(s), NEW pct \in Levels, NEW still, NEW d \in Nat, NEW ask,
         s.motion \in Motions, NEW r, r = Run(s, pct, still, d, ask)
  PROVE  Paced(r)
<1>0. RestMs \in Nat /\ StallRestMs \in Nat /\ PushMaxMs \in Nat \ {0} /\ Whole(s)
  BY NumbersAre, PushTime DEF Paced
<1>1. CASE r = Brake(s)
  BY <1>1, BrakePaces
<1>2. CASE r = RunOut(s)
  <2> DEFINE e == IF s.motion = "on_use" THEN 0 ELSE s.exit
  <2>1. r = [Brake(s) EXCEPT !.motion = "stop", !.exit = IF s.motion = "on_use" THEN 0 ELSE @]
    BY <1>2 DEF RunOut
  <2>2. SamePace(s, r)
    BY <1>0, <2>1 DEF Brake, SamePace, Whole, Parts
  <2> QED
    BY <2>2, PacesOn
<1>3. CASE r = [Brake(s) EXCEPT !.hi = 0]
  BY <1>0, <1>3 DEF Brake, Paced, Whole, Parts
<1>4. CASE r = RunIdle(s, pct, still, d)
  <2> DEFINE a == IF s.ks THEN Deadband(pct) ELSE EmptyIdle(s, pct)
             i == ml_idle_push_pass(s.idle, s.ks /\ a.x < 0, pct, s.x)
             t == [s EXCEPT !.idle = i]
             like == ~s.ks /\ PostOnUse(s)
  <2>1. r = IF ~s.ks /\ s.exit = Never THEN [Brake(s) EXCEPT !.idle = NoPush]
            ELSE IF t.idle.fault # "run" THEN Brake(t)
            ELSE Driven(t, a, like, TRUE, still, d)
    BY <1>4 DEF RunIdle
  <2> HIDE DEF i, a, like
  <2>2. SamePace(s, t)
    BY <1>0 DEF SamePace, Whole, Parts
  <2> HIDE DEF t
  <2>3. Paced(t)
    BY <2>2, PacesOn
  <2>4. CASE r = [Brake(s) EXCEPT !.idle = NoPush]
    <3>1. SamePace(s, r)
      BY <1>0, <2>4 DEF Brake, SamePace, Whole, Parts
    <3> QED
      BY <3>1, PacesOn
  <2>5. CASE r = Brake(t)
    BY <2>3, <2>5, BrakePaces
  <2>6. CASE r = Driven(t, a, like, TRUE, still, d)
    BY <2>3, <2>6, DrivenPaces DEF Pushed
  <2> QED
    BY <2>1, <2>4, <2>5, <2>6
<1>5. CASE r = RunEmpty(s, still, d)
  <2> DEFINE like == s.motion \in {"on_use", "before_on_use", "stop_on_use"} \/ s.latched
  <2>1. r = Driven(s, Rests, like, TRUE, still, d)
    BY <1>5 DEF RunEmpty
  <2> HIDE DEF like
  <2> QED
    BY <2>1, DrivenPaces DEF Pushed
<1>6. CASE s.motion = "on_use" /\ r = RunOnUse(s, pct, still, d)
  BY <1>6, UsePaces
<1>7. ASSUME NEW v, Paced(v), NEW like, NEW t, t = RunHold(v, pct, like, still, d)
      PROVE  Paced(t)
  <2> DEFINE u == [v EXCEPT !.rhys = HoldRetracts(v, pct)]
             a == hold_load(v, pct)
  <2>1. t = Driven(u, a, like, TRUE, still, d)
    BY <1>7 DEF RunHold
  <2>2. SamePace(v, u)
    BY <1>7 DEF Paced, SamePace, Whole, Parts
  <2> HIDE DEF u, a
  <2>3. Paced(u)
    BY <1>7, <2>2, PacesOn
  <2> QED
    BY <2>1, <2>3, DrivenPaces DEF Pushed
<1>8. CASE r = RunHold(s, pct, TRUE, still, d)
  BY <1>7, <1>8
<1>9. CASE r = RunSend(s, pct, still, d, ask)
  <2> DEFINE g == motion_guard_check_at(s.send, Mag(s.x) >= StallPwm)
             t == [s EXCEPT !.send = IF s.aborted THEN @ ELSE g, !.aborted = @ \/ GuardTripped(g)]
             u == [t EXCEPT !.hard = FALSE]
             v == IF Latches(u, pct) THEN [u EXCEPT !.latched = TRUE, !.thresh = pct, !.rhys = FALSE] ELSE u
             a == [Rests EXCEPT !.x = ask]
  <2>1. r = IF t.aborted THEN Brake(t)
            ELSE IF Hard(t, pct) THEN [Brake(t) EXCEPT !.hard = TRUE]
            ELSE IF v.latched THEN RunHold(v, pct, s.latched, still, d)
            ELSE Driven(v, a, FALSE, FALSE, still, d)
    BY <1>9 DEF RunSend
  <2>2. SamePace(s, t)
    <3> DEFINE h == IF s.aborted THEN s.send ELSE g
               b == s.aborted \/ GuardTripped(g)
    <3>1. t = [s EXCEPT !.send = h, !.aborted = b]
      OBVIOUS
    <3> HIDE DEF t, h, b
    <3> QED
      BY <1>0, <3>1 DEF SamePace, Whole, Parts
  <2> HIDE DEF t, g, a
  <2>3. SamePace(t, u) /\ SamePace(t, v)
    BY <2>2 DEF SamePace, Whole, Parts
  <2> HIDE DEF u, v
  <2>4. Paced(t)
    BY <2>2, PacesOn
  <2>5. Paced(v)
    BY <2>3, <2>4, PacesOn
  <2>6. CASE r = Brake(t)
    BY <2>4, <2>6, BrakePaces
  <2>7. CASE r = [Brake(t) EXCEPT !.hard = TRUE]
    <3>1. SamePace(t, r)
      BY <2>2, <2>7 DEF Brake, SamePace, Whole, Parts
    <3> QED
      BY <2>4, <3>1, PacesOn
  <2>8. CASE r = RunHold(v, pct, s.latched, still, d)
    BY <1>7, <2>5, <2>8
  <2>9. CASE r = Driven(v, a, FALSE, FALSE, still, d)
    <3> DEFINE no == FALSE
    <3>1. r = Driven(v, a, no, no, still, d)
      BY <2>9
    <3> HIDE DEF no
    <3> QED
      BY <2>5, <3>1, DrivenPaces DEF Pushed
  <2> QED
    BY <2>1, <2>6, <2>7, <2>8, <2>9
<1>10. CASE r = RunFollow(s, pct, still, d)
  <2> DEFINE u == [s EXCEPT !.pb = PullBackActive(s, pct)]
             a == FollowPull(u.pb, pct)
             no == FALSE
  <2>1. r = Driven(u, a, no, no, still, d)
    BY <1>10 DEF RunFollow
  <2>2. SamePace(s, u)
    BY <1>0 DEF SamePace, Whole, Parts
  <2> HIDE DEF u, a, no
  <2>3. Paced(u)
    BY <2>2, PacesOn
  <2> QED
    BY <2>1, <2>3, DrivenPaces DEF Pushed
<1>11. s.motion \in Motions =>
         \/ r = Brake(s) \/ r = RunOut(s) \/ r = [Brake(s) EXCEPT !.hi = 0]
         \/ r = RunIdle(s, pct, still, d) \/ r = RunEmpty(s, still, d)
         \/ s.motion = "on_use" /\ r = RunOnUse(s, pct, still, d)
         \/ r = RunHold(s, pct, TRUE, still, d) \/ r = RunSend(s, pct, still, d, ask)
         \/ r = RunFollow(s, pct, still, d)
  BY DEF Run, Motions
<1> QED
  BY <1>1, <1>2, <1>3, <1>4, <1>5, <1>6, <1>8, <1>9, <1>10, <1>11

-----------------------------------------------------------------------------
\* What a pass finds of them.
Less(rest, d) == IF rest > d THEN rest - d ELSE 0

LEMMA LessIs ==
  ASSUME NEW rest \in Nat, NEW d \in Nat
  PROVE  Less(rest, d) \in Nat /\ Less(rest, d) <= rest /\ (Less(rest, d) > 0 => Less(rest, d) = rest - d)
BY DEF Less

LEMMA LaterPaces ==
  ASSUME NEW s, Whole(s), NEW d, NEW move, NEW t, t = ChannelLater(s, d, move)
  PROVE  /\ Whole(t) /\ t.motion = s.motion /\ t.stall = s.stall /\ t.rest = Less(s.rest, d)
         /\ t.hi = s.hi /\ t.low = s.low
<1> DEFINE l == IF s.left >= d THEN s.left - d ELSE Never
           g == IF s.motion = "send" THEN GuardLater(s.send, d, move) ELSE s.send
           h == IF s.ceiling = NoLevel THEN 0 ELSE Later(s.handoff, d, HandoffMs)
           e == Later(s.exit, d, PostMs)
           i == PushLater(s.idle, d, move)
           r == Less(s.rest, d)
<1>1. t = [s EXCEPT !.left = l, !.send = g, !.handoff = h, !.exit = e, !.idle = i, !.rest = r]
  BY DEF ChannelLater, Less
<1> HIDE DEF l, g, h, e, i, r
<1>2. /\ Whole(t) /\ t.motion = s.motion /\ t.stall = s.stall /\ t.rest = r
      /\ t.hi = s.hi /\ t.low = s.low
  BY <1>1 DEF Whole, Parts
<1> QED
  BY <1>2 DEF r

SetPace(s, motion, t) ==
  /\ Paced(t) /\ t.stall = s.stall /\ t.rest = s.rest /\ t.ks = s.ks /\ t.motion = motion
  /\ ~s.low => t.hi = s.hi /\ ~t.low
  /\ motion = s.motion => t.hi = s.hi /\ (s.low <=> t.low)

LEMMA SetsPace ==
  ASSUME NEW s, Paced(s), NEW motion, NEW pct, NEW over, NEW t, t = set_motion(s, motion, pct, over)
  PROVE  SetPace(s, motion, t)
<1> DEFINE l == IF motion = "stop" THEN Never ELSE over
           u == [s EXCEPT !.left = l]
           sends == "send" \in {motion, s.motion}
<1>0. PushMaxMs \in Nat \ {0}
  BY PushTime
<1>1. SamePace(s, u) /\ u.ks = s.ks /\ u.low = s.low /\ u.motion = s.motion
  BY DEF SamePace, Paced, Whole, Parts
<1>2. Paced(u)
  BY <1>1, PacesOn
<1>3. CASE motion = s.motion
  <2>1. t = u
    BY <1>3, Zenon DEF set_motion
  <2> HIDE DEF u
  <2> QED
    BY <1>1, <1>2, <1>3, <2>1 DEF SetPace, SamePace
<1>4. CASE motion # s.motion
  <2> HIDE DEF u
  <2> DEFINE low  == u.low /\ motion = "on_use"
             hi   == IF s.low /\ motion # "on_use" THEN 0 ELSE u.hi
             ab   == u.aborted /\ ~sends
             hard == u.hard /\ ~sends
             lat  == u.latched /\ ~sends
             thr  == Threshold(s, motion, pct)
             rhys == u.rhys /\ motion \notin {"send", "before_on_use", "stop_on_use", "on_use"} /\ s.motion # "on_use"
             ceil == IF motion = "on_use" THEN HandedOver(s, pct) ELSE NoLevel
             exit == IF motion = "send" THEN Never
                     ELSE IF s.motion = "on_use" THEN 0
                     ELSE IF motion = "on_use" /\ u.exit = Never THEN PostMs ELSE u.exit
             x    == IF s.motion = "send" /\ motion = "on_use" THEN u.x ELSE 0
  <2>1. t = [u EXCEPT !.motion = motion, !.idle = NoPush, !.low = low, !.hi = hi, !.aborted = ab,
                      !.hard = hard, !.latched = lat, !.send = motion_guard_start(0, SendMax),
                      !.thresh = thr, !.rhys = rhys, !.ceiling = ceil, !.handoff = 0,
                      !.exit = exit, !.x = x]
    BY <1>4 DEF set_motion, u
  <2>2. hi \in {0, u.hi} /\ (~s.low => hi = u.hi /\ ~low)
    BY <1>1
  <2> HIDE DEF low, hi, ab, hard, lat, thr, rhys, ceil, exit, x
  <2>3. /\ Whole(t) /\ t.motion = motion /\ t.stall = u.stall /\ t.rest = u.rest /\ t.ks = u.ks
        /\ t.hi = hi /\ t.low = low
    BY <1>2, <2>1 DEF Paced, Whole, Parts
  <2>4. Paced(t)
    BY <1>0, <1>2, <2>2, <2>3 DEF Paced
  <2> QED
    BY <1>1, <1>4, <2>2, <2>3, <2>4 DEF SetPace, SamePace
<1> QED
  BY <1>3, <1>4

PaceComes(host, ks, wait, d, p) ==
  /\ Paced(p) /\ p.ks = ks
  /\ ks => /\ p.stall = c.stall /\ p.rest = Less(c.rest, d)
           /\ ~c.low => p.hi = c.hi /\ ~p.low
           /\ c.motion = "on_use" /\ p.motion = "on_use" => (c.low <=> p.low)

LEMMA PreparesPace ==
  ASSUME Paced(c), NEW host, NEW ks, NEW pct, NEW wait, NEW d \in Nat, NEW move,
         NEW p, p = Prepared(host, ks, pct, wait, d, move)
  PROVE  PaceComes(host, ks, wait, d, p)
<1> DEFINE l == ChannelLater(c, d, move)
           s == [l EXCEPT !.ks = ks]
           k == KeyNone(s, host, pct)
<1>0. c.rest \in Nat /\ RestMs \in Nat /\ PushMaxMs \in Nat \ {0}
  BY NumbersAre, PushTime DEF Paced
<1>1. /\ Whole(l) /\ l.motion = c.motion /\ l.stall = c.stall /\ l.rest = Less(c.rest, d)
      /\ l.hi = c.hi /\ l.low = c.low
  BY LaterPaces DEF Paced
<1> HIDE DEF l
<1>2. /\ Whole(s) /\ s.motion = c.motion /\ s.stall = c.stall /\ s.rest = Less(c.rest, d)
      /\ s.hi = c.hi /\ s.low = c.low /\ s.ks = ks
  BY <1>1 DEF Whole, Parts
<1>3. Paced(s)
  <2>1. s.rest \in Nat /\ s.rest <= c.rest
    BY <1>0, <1>2, LessIs
  <2> HIDE DEF s
  <2> QED
    BY <1>0, <1>2, <2>1 DEF Paced
<1>4. p = IF wait THEN k ELSE Commanded(k, host, pct)
  BY DEF Prepared, s, l
<1> HIDE DEF s
<1>5. Paced(k) /\ k.ks = ks /\ (ks => k = s)
  <2>1. CASE ks
    <3>1. k = s
      BY <1>2, <2>1 DEF KeyNone
    <3> HIDE DEF k
    <3> QED
      BY <1>2, <1>3, <3>1
  <2>2. CASE ~ks /\ host # "send"
    <3>1. k = [s EXCEPT !.hi = 0]
      BY <1>2, <2>2 DEF KeyNone
    <3> HIDE DEF k
    <3> QED
      BY <1>0, <1>2, <1>3, <2>2, <3>1 DEF Paced, Whole, Parts
  <2>3. CASE ~ks /\ host = "send"
    <3> DEFINE t == set_motion(s, "stop", pct, 0)
    <3>1. SetPace(s, "stop", t)
      BY <1>3, SetsPace
    <3>2. k = [t EXCEPT !.hi = 0]
      BY <1>2, <2>3 DEF KeyNone
    <3> HIDE DEF k, t
    <3> QED
      BY <1>0, <1>2, <2>3, <3>1, <3>2 DEF SetPace, Paced, Whole, Parts
  <2> QED
    BY <2>1, <2>2, <2>3
<1> HIDE DEF k
<1>6. CASE wait
  <2>1. p = k
    BY <1>4, <1>6
  <2> QED
    BY <1>2, <1>5, <2>1 DEF PaceComes
<1>7. CASE ~wait
  <2> DEFINE motion == IF host = "other" THEN IF k.ks \/ k.exit # Never THEN "idle" ELSE "stop"
                       ELSE IF k.ks THEN host ELSE "idle"
             over == IF host = "other" THEN ParkedMs ELSE OverMs
  <2>1. p = set_motion(k, motion, pct, over)
    BY <1>4, <1>7 DEF Commanded
  <2> HIDE DEF motion, over
  <2>2. SetPace(k, motion, p)
    BY <1>5, <2>1, SetsPace
  <2> QED
    BY <1>2, <1>5, <2>2 DEF PaceComes, SetPace
<1> QED
  BY <1>6, <1>7
-----------------------------------------------------------------------------
\* The rests of the anti-stall, and the push that each of them followed.
Rested(n) == n * (RestMs + Longest)
Earned(n) == n * (StallRestMs - Longest)

LEMMA Rests0 == Rested(0) = 0 /\ Earned(0) = 0
<1>1. RestMs \in Nat /\ StallRestMs \in Nat /\ Longest \in Nat
  BY NumbersAre, LongestIs
<1> QED
  BY <1>1 DEF Rested, Earned

LEMMA RestsAre ==
  ASSUME NEW n \in Nat
  PROVE  /\ Rested(n) \in Nat /\ Earned(n) \in Nat
         /\ Rested(n + 1) = Rested(n) + RestMs + Longest
         /\ Earned(n + 1) = Earned(n) + StallRestMs - Longest
<1>1. RestMs \in Nat /\ StallRestMs \in Nat /\ Longest \in Nat /\ Longest < StallRestMs
  BY NumbersAre, LongestIs
<1> DEFINE k == StallRestMs - Longest
           m == RestMs + Longest
<1>2. k \in Nat /\ m \in Nat
  BY <1>1
<1>3. n * m \in Nat /\ (n + 1) * m = n * m + m
  <2> HIDE DEF m, k
  <2> QED
    BY <1>2
<1>4. n * k \in Nat /\ (n + 1) * k = n * k + k
  <2> HIDE DEF m, k
  <2> QED
    BY <1>2
<1> QED
  BY <1>1, <1>3, <1>4 DEF Rested, Earned

\* A time below 50 % is one of push or of as many rests as have been earned.
Owed(tried, s) ==
  \E n \in Nat : tried + s.rest <= s.hi + Rested(n) /\ Earned(n) <= s.hi + StallRestMs - s.stall

LEMMA OwesNothing ==
  ASSUME NEW s, Paced(s)
  PROVE  Owed(0, s)
<1>1. RestMs \in Nat /\ StallRestMs \in Nat /\ Longest \in Nat
  BY NumbersAre, LongestIs
<1>2. /\ s.stall \in Nat /\ s.stall <= StallRestMs /\ s.rest \in Nat /\ s.rest <= RestMs
      /\ s.hi \in Nat /\ (s.rest > 0 => s.stall = 0)
  BY DEF Paced
<1>3. CASE s.rest = 0
  <2>1. 0 + s.rest <= s.hi + Rested(0) /\ Earned(0) <= s.hi + StallRestMs - s.stall
    BY <1>1, <1>2, <1>3, Rests0
  <2> QED
    BY <2>1 DEF Owed
<1>4. CASE s.rest > 0
  <2> DEFINE one == 0 + 1
  <2>1. Rested(one) = 0 + RestMs + Longest /\ Earned(one) = 0 + StallRestMs - Longest
    BY Rests0, RestsAre
  <2>2. one \in Nat
    OBVIOUS
  <2> HIDE DEF one
  <2>3. 0 + s.rest <= s.hi + Rested(one) /\ Earned(one) <= s.hi + StallRestMs - s.stall
    BY <1>1, <1>2, <1>4, <2>1
  <2> QED
    BY <2>2, <2>3 DEF Owed
<1> QED
  BY <1>2, <1>3, <1>4

LEMMA OwesOn ==
  ASSUME NEW s, Paced(s), NEW tried \in Nat, Owed(tried, s), NEW d \in Ticks,
         NEW p, p.stall = s.stall, p.rest = Less(s.rest, d), p.hi = s.hi,
         NEW t, UseTells(p, d, t), ~t.low
  PROVE  Owed(tried + d, t)
<1>1. /\ RestMs \in Nat /\ StallRestMs \in Nat /\ Longest \in Nat
      /\ d \in Nat /\ d <= Longest
  <2>1. d \in Ticks \cup {StepMax + 1}
    OBVIOUS
  <2>2. d \in Nat
    BY <2>1, TicksIn
  <2> QED
    BY <2>2, NumbersAre, LongestIs
<1>2. /\ s.stall \in Nat /\ s.rest \in Nat /\ s.hi \in Nat
  BY DEF Paced
<1>3. PICK n \in Nat : tried + s.rest <= s.hi + Rested(n) /\ Earned(n) <= s.hi + StallRestMs - s.stall
  BY DEF Owed
<1>4. /\ Rested(n) \in Nat /\ Earned(n) \in Nat
      /\ Rested(n + 1) = Rested(n) + RestMs + Longest
      /\ Earned(n + 1) = Earned(n) + StallRestMs - Longest
  BY RestsAre
<1>5. CASE p.rest > 0 /\ SamePace(p, t)
  <2>1. p.rest = s.rest - d
    BY <1>1, <1>2, <1>5, LessIs
  <2>2. t.stall = s.stall /\ t.hi = s.hi /\ t.rest = s.rest - d
    BY <1>5, <2>1 DEF SamePace
  <2>3. tried + d + t.rest <= t.hi + Rested(n) /\ Earned(n) <= t.hi + StallRestMs - t.stall
    BY <1>1, <1>2, <1>3, <1>4, <2>2
  <2> QED
    BY <2>3 DEF Owed
<1>6. CASE t.rest = 0 /\ t.hi = p.hi + d /\ t.stall \in {0, p.stall + d}
  <2>1. tried + d + t.rest <= t.hi + Rested(n) /\ Earned(n) <= t.hi + StallRestMs - t.stall
    BY <1>1, <1>2, <1>3, <1>4, <1>6
  <2> QED
    BY <2>1 DEF Owed
<1>7. CASE t.rest = RestMs /\ t.stall = 0 /\ t.hi = p.hi /\ p.stall + d > StallRestMs
  <2>1. tried + d + t.rest <= t.hi + Rested(n + 1)
    BY <1>1, <1>2, <1>3, <1>4, <1>7
  <2>2. Earned(n + 1) <= t.hi + StallRestMs - t.stall
    BY <1>1, <1>2, <1>3, <1>4, <1>7
  <2>3. n + 1 \in Nat
    BY <1>3
  <2> QED
    BY <2>1, <2>2, <2>3 DEF Owed
<1> QED
  BY <1>5, <1>6, <1>7 DEF UseTells

\* The channel in use, how long it has been below 50 %, and what that is made of.
UseInv ==
  /\ Paced(c) /\ "tried" \in DOMAIN seen /\ seen.tried \in Nat
  /\ seen.tried > 0 => c.ks /\ ~c.low /\ Owed(seen.tried, c)

LEMMA UseStart == Init => UseInv
<1> SUFFICES ASSUME Init PROVE UseInv
  OBVIOUS
<1>1. RestMs \in Nat /\ StallRestMs \in Nat /\ PushMaxMs \in Nat \ {0}
  BY NumbersAre, PushTime
<1>2. /\ Whole(c) /\ c.stall = 0 /\ c.rest = 0 /\ c.hi = 0
  BY DEF Init, Whole, Parts
<1>3. Paced(c)
  BY <1>1, <1>2 DEF Paced
<1>4. "tried" \in DOMAIN seen /\ seen.tried = 0
  BY DEF Init
<1> QED
  BY <1>3, <1>4 DEF UseInv

\* A channel in use that may still push; only the on_use control leaves one.
MayPush(s) == s.motion = "on_use" /\ s.ks /\ ~s.low

LEMMA RunsUse ==
  ASSUME NEW s, Paced(s), NEW pct, NEW still, NEW d \in Nat, NEW ask,
         NEW r, r = Run(s, pct, still, d, ask), r.motion \in {s.motion, "stop"}, MayPush(r)
  PROVE  s.motion = "on_use" /\ MayPush(s) /\ r = RunOnUse(s, pct, still, d)
<1>0. r.motion = "on_use" /\ r.ks /\ ~r.low
  BY DEF MayPush
<1>1. s.motion = "on_use" /\ Whole(s)
  BY <1>0 DEF Paced
<1>2. s.left # Never
  <2> SUFFICES ASSUME s.left = Never PROVE FALSE
    OBVIOUS
  <2> DEFINE e == IF s.motion = "on_use" THEN 0 ELSE s.exit
  <2>1. r = [Brake(s) EXCEPT !.motion = "stop", !.exit = IF s.motion = "on_use" THEN 0 ELSE @]
    BY <1>1 DEF Run, RunOut
  <2>2. r.motion = "stop"
    BY <1>1, <2>1 DEF Brake, Whole, Parts
  <2> QED
    BY <1>0, <2>2
<1>3. ~s.low
  <2> SUFFICES ASSUME s.low PROVE FALSE
    OBVIOUS
  <2>1. r = [Brake(s) EXCEPT !.hi = 0]
    BY <1>1, <1>2 DEF Run
  <2>2. r.low = s.low
    BY <1>1, <2>1 DEF Brake, Whole, Parts
  <2> QED
    BY <1>0, <2>2
<1>4. s.ks
  <2> SUFFICES ASSUME ~s.ks PROVE FALSE
    OBVIOUS
  <2> DEFINE like == s.motion \in {"on_use", "before_on_use", "stop_on_use"} \/ s.latched
             yes == TRUE
  <2>1. r = Driven(s, Rests, like, yes, still, d)
    BY <1>1, <1>2, <1>3 DEF Run, RunEmpty
  <2> HIDE DEF like, yes
  <2>2. r.ks = s.ks
    BY <2>1, DrivenPaces DEF Pushed
  <2> QED
    BY <1>0, <2>2
<1>5. MayPush(s)
  BY <1>1, <1>3, <1>4 DEF MayPush
<1> QED
  BY <1>1, <1>2, <1>3, <1>4, <1>5 DEF Run

LEMMA UseControls ==
  ASSUME NEW s, Paced(s), MayPush(s), NEW pct \in Levels, pct < 5000, NEW still, NEW d \in Nat,
         NEW t, t = RunOnUse(s, pct, still, d)
  PROVE  UseTells(s, d, t)
<1>1. s.motion = "on_use" /\ s.ks /\ ~s.low
  BY DEF MayPush
<1> QED
  BY <1>1, UsePaces

LEMMA UseComes ==
  ASSUME NEW host, NEW ks, NEW wait, NEW d, NEW p, PaceComes(host, ks, wait, d, p),
         c.motion = "on_use", MayPush(p)
  PROVE  p.stall = c.stall /\ p.rest = Less(c.rest, d) /\ p.hi = c.hi
BY DEF PaceComes, MayPush

UseNoticed(t, pct, d) ==
  /\ "tried" \in DOMAIN seen'
  /\ seen'.tried = IF c.motion = "on_use" /\ MayPush(t) /\ pct < 5000
                   THEN seen.tried + d ELSE 0

LEMMA NoticesUse ==
  ASSUME NEW p, NEW t, NEW moved, NEW pct, NEW still, NEW d, NEW move,
         Noticed(p, t, moved, pct, still, d, move)
  PROVE  UseNoticed(t, pct, d)
BY DEF Noticed, UseNoticed, MayPush

LEMMA UsePassKeeps ==
  ASSUME LoadInv, UseInv, NEW host \in Hosts, NEW ks \in Keys, NEW pct \in Levels, NEW wait \in Others,
         NEW d \in Ticks, NEW move \in Turns, NEW still \in BOOLEAN,
         NEW p, p = Prepared(host, ks, pct, wait, d, move), NEW ask, c' = Run(p, pct, still, d, -ask),
         NEW moved, Noticed(p, c', moved, pct, still, d, move)
  PROVE  UseInv'
<1> DEFINE g == motion_guard_check_at(p.send, Mag(p.x) >= StallPwm)
           push == -ask
<1>1. ks \in BOOLEAN /\ wait \in BOOLEAN /\ d \in Nat /\ d \in Nat \ {0}
  <2>1. ks \in BOOLEAN /\ wait \in BOOLEAN
    BY KeysIn, Zenon
  <2>2. d \in Nat \ {0}
    BY TicksIn, Zenon
  <2> QED
    BY <2>1, <2>2
<1>2. PrepTells(host, ks, wait, d, move, p)
  BY <1>1, Prepares DEF LoadInv
<1>3. p.motion = "send" => Before(p, Trip(move), d)
  BY <1>1, <1>2, Befores
<1>4. RunTells(p, g, still, d, c')
  <2>1. Whole(p) /\ p.motion \in Motions
    BY <1>2 DEF PrepTells
  <2>2. p.motion = "send" => /\ p.aborted \in BOOLEAN /\ p.latched \in BOOLEAN
                             /\ p.latched => p.stall \in Nat /\ p.thresh \in Int
    BY <1>3 DEF Before
  <2> QED
    BY <1>1, <2>1, <2>2, Runs
<1>5. PaceComes(host, ks, wait, d, p)
  BY <1>1, PreparesPace DEF UseInv
<1>6. UseNoticed(c', pct, d)
  BY NoticesUse, Zenon
<1>7. c' = Run(p, pct, still, d, push)
  OBVIOUS
<1> HIDE DEF g, push
<1>8. Paced(p) /\ p.ks = ks /\ p.motion \in Motions /\ c'.motion \in {p.motion, "stop"}
  BY <1>2, <1>4, <1>5 DEF RunTells, PrepTells, PaceComes
<1>9. Paced(c')
  BY <1>1, <1>7, <1>8, RunPaces
<1>10. Paced(c) /\ seen.tried \in Nat
  BY DEF UseInv
<1>11. CASE c.motion = "on_use" /\ MayPush(c') /\ pct < 5000
  <2>1. p.motion = "on_use" /\ MayPush(p) /\ c' = RunOnUse(p, pct, still, d)
    BY <1>1, <1>7, <1>8, <1>11, RunsUse
  <2>2. UseTells(p, d, c')
    BY <1>1, <1>8, <1>11, <2>1, UseControls
  <2>3. p.stall = c.stall /\ p.rest = Less(c.rest, d) /\ p.hi = c.hi
    BY <1>5, <1>11, <2>1, UseComes
  <2>4. Owed(seen.tried, c)
    <3>1. CASE seen.tried = 0
      BY <1>10, <3>1, OwesNothing
    <3>2. CASE seen.tried > 0
      BY <3>2 DEF UseInv
    <3> QED
      BY <1>10, <3>1, <3>2
  <2>5. c'.ks /\ ~c'.low
    BY <1>11 DEF MayPush
  <2>6. Owed(seen.tried + d, c')
    BY <1>10, <2>2, <2>3, <2>4, <2>5, OwesOn
  <2>7. "tried" \in DOMAIN seen' /\ seen'.tried = seen.tried + d
    BY <1>6, <1>11 DEF UseNoticed
  <2>8. seen.tried + d \in Nat
    BY <1>1, <1>10
  <2> QED
    BY <1>9, <2>5, <2>6, <2>7, <2>8 DEF UseInv, Owed, Paced, Whole
<1>12. CASE ~(c.motion = "on_use" /\ MayPush(c') /\ pct < 5000)
  <2>1. "tried" \in DOMAIN seen' /\ seen'.tried = 0
    BY <1>6, <1>12 DEF UseNoticed
  <2> QED
    BY <1>9, <2>1 DEF UseInv, Paced, Whole
<1> QED
  BY <1>11, <1>12

LEMMA UseStoppedKeeps == UseInv /\ StoppedPass => UseInv'
<1> SUFFICES ASSUME UseInv, StoppedPass PROVE UseInv'
  OBVIOUS
<1>1. PICK host \in Hosts, ks \in Keys, pct \in Levels, wait \in Others, d \in Ticks, move \in Turns :
        /\ c' = Brake(set_motion(Prepared(host, ks, pct, wait, d, move), "stop", pct, 0))
        /\ Noticed(Prepared(host, ks, pct, wait, d, move), c', TRUE, pct, FALSE, d, move)
  BY DEF StoppedPass
<1> DEFINE p == Prepared(host, ks, pct, wait, d, move)
           t == set_motion(p, "stop", pct, 0)
<1>2. d \in Nat
  BY TicksIn
<1>3. Paced(p)
  <2>1. PaceComes(host, ks, wait, d, p)
    BY <1>2, PreparesPace DEF UseInv
  <2> QED
    BY <2>1 DEF PaceComes
<1>4. c' = Brake(t) /\ Noticed(p, c', TRUE, pct, FALSE, d, move)
  BY <1>1
<1> HIDE DEF p
<1>5. SetPace(p, "stop", t)
  BY <1>3, SetsPace
<1> HIDE DEF t
<1>6. Paced(c')
  BY <1>4, <1>5, BrakePaces DEF SetPace
<1>7. c'.motion # "on_use"
  BY <1>4, <1>5 DEF SetPace, Paced, Whole, Parts, Brake
<1>8. UseNoticed(c', pct, d)
  BY <1>4, NoticesUse, Zenon
<1>9. "tried" \in DOMAIN seen' /\ seen'.tried = 0
  BY <1>7, <1>8 DEF UseNoticed, MayPush
<1> QED
  BY <1>6, <1>9 DEF UseInv, Paced, Whole

\* A time of stale readings is not counted, and costs the channel only its rest.
LEMMA UseStaleKeeps == UseInv /\ StalePass => UseInv'
<1> SUFFICES ASSUME UseInv, StalePass PROVE UseInv'
  OBVIOUS
<1>1. PICK host \in Hosts, pct \in Levels, wait \in Others, d \in Ticks \cup {StepMax + 1}, move \in Turns :
        /\ c' = Brake(Prepared(host, c.ks, pct, wait, d, move))
        /\ "tried" \in DOMAIN seen' /\ seen'.tried = seen.tried
  <2>1. PICK host \in Hosts, pct \in Levels, wait \in Others, d \in Ticks \cup {StepMax + 1}, move \in Turns :
          LET s == Prepared(host, c.ks, pct, wait, d, move)
          IN /\ d > StepMax => c.x = 0
             /\ c' = motor_brake_hold(s)
             /\ seen' = [seen EXCEPT !.stales = @ + 1,
                                     !.spent  = IF c.motion = "idle" /\ Goes(host, wait, "other")
                                                THEN @ + DrivenFor(d) ELSE 0,
                                     !.strain = 0, !.strays = 0,
                                     !.loading = GoesOn(host, wait),
                                     !.trip   = IF GoesOn(host, wait) THEN @ + Turned(move) ELSE 0,
                                     !.why    = IF c'.motion = "send" THEN @ ELSE "none",
                                     !.slips  = @ /\ c'.motion = "send",
                                     !.stood  = @ /\ c'.motion = "send",
                                     !.edge   = @ /\ c'.motion = "idle",
                                     !.hold   = @ /\ host = "other"]
    BY DEF StalePass
  <2>2. c' = Brake(Prepared(host, c.ks, pct, wait, d, move))
    BY <2>1 DEF motor_brake_hold
  <2>3. "tried" \in DOMAIN seen
    BY DEF UseInv
  <2>4. "tried" \in DOMAIN seen' /\ seen'.tried = seen.tried
    BY <2>1, <2>3
  <2> QED
    BY <2>2, <2>4
<1> DEFINE p == Prepared(host, c.ks, pct, wait, d, move)
<1>2. d \in Nat
  BY TicksIn
<1>3. PaceComes(host, c.ks, wait, d, p)
  BY <1>2, PreparesPace DEF UseInv
<1>4. c' = Brake(p)
  BY <1>1
<1> HIDE DEF p
<1>5. SamePace(p, c') /\ Paced(c') /\ c'.ks = p.ks /\ c'.low = p.low
  BY <1>3, <1>4, BrakePaces DEF PaceComes
<1>6. "tried" \in DOMAIN seen' /\ seen'.tried = seen.tried /\ seen.tried \in Nat /\ Paced(c)
  BY <1>1 DEF UseInv
<1>7. CASE seen.tried > 0
  <2>1. c.ks /\ ~c.low /\ Owed(seen.tried, c)
    BY <1>7 DEF UseInv
  <2>2. c'.ks /\ ~c'.low /\ c'.stall = c.stall /\ c'.rest = Less(c.rest, d) /\ c'.hi = c.hi
    BY <1>3, <1>5, <2>1 DEF PaceComes, SamePace
  <2>3. c.rest \in Nat /\ c'.rest \in Nat /\ c'.rest <= c.rest
    <3>1. c.rest \in Nat
      BY <1>6 DEF Paced
    <3> QED
      BY <1>2, <2>2, <3>1, LessIs
  <2>4. c.hi \in Nat
    BY <1>6 DEF Paced
  <2>5. PICK n \in Nat : seen.tried + c.rest <= c.hi + Rested(n)
                         /\ Earned(n) <= c.hi + StallRestMs - c.stall
    BY <2>1 DEF Owed
  <2>6. Rested(n) \in Nat
    BY RestsAre
  <2>7. seen'.tried + c'.rest <= c'.hi + Rested(n) /\ Earned(n) <= c'.hi + StallRestMs - c'.stall
    BY <1>6, <2>2, <2>3, <2>4, <2>5, <2>6
  <2> QED
    BY <1>5, <1>6, <2>2, <2>7 DEF UseInv, Owed, Paced, Whole
<1>8. CASE ~(seen.tried > 0)
  BY <1>5, <1>6, <1>8 DEF UseInv, Paced, Whole
<1> QED
  BY <1>7, <1>8

LEMMA UseStep == LoadInv /\ UseInv /\ [Next]_vars => UseInv'
<1> SUFFICES ASSUME LoadInv, UseInv, [Next]_vars PROVE UseInv'
  OBVIOUS
<1>1. CASE Pass
  <2>1. PICK host \in Hosts, ks \in Keys, pct \in Levels, wait \in Others, d \in Ticks,
             move \in Turns, still \in BOOLEAN :
          LET s == Prepared(host, ks, pct, wait, d, move)
          IN /\ still => move = 0
             /\ \E ask \in IF s.motion = "send" THEN SendPwms ELSE {0} : c' = Run(s, pct, still, d, -ask)
             /\ Noticed(s, c', host # "other", pct, still, d, move)
    BY <1>1, Zenon DEF Pass
  <2> DEFINE p == Prepared(host, ks, pct, wait, d, move)
  <2>2. PICK ask : c' = Run(p, pct, still, d, -ask)
    BY <2>1, Zenon
  <2>3. Noticed(p, c', host # "other", pct, still, d, move)
    BY <2>1, Zenon
  <2>4. p = Prepared(host, ks, pct, wait, d, move)
    OBVIOUS
  <2> HIDE DEF p
  <2> QED
    BY <2>2, <2>3, <2>4, UsePassKeeps
<1>2. CASE StoppedPass
  BY <1>2, UseStoppedKeeps
<1>3. CASE StalePass
  BY <1>3, UseStaleKeeps
<1>4. CASE UNCHANGED vars
  BY <1>4 DEF vars, UseInv, Owed, Paced, Whole
<1> QED
  BY <1>1, <1>2, <1>3, <1>4 DEF Next

\* The push of a channel in use whose buffer stays below 50 % ends, the rests of the anti-stall
\* included, for all times and buffers, however the gear moves.
THEOREM UsePushesEnd == Spec => []PushEnds
<1>1. UseInv => PushEnds
  <2> SUFFICES ASSUME UseInv PROVE PushEnds
    OBVIOUS
  <2> DEFINE k == StallRestMs - Longest
             m == RestMs + Longest
             w == PushMaxMs + StallRestMs
  <2>1. /\ RestMs \in Nat /\ StallRestMs \in Nat /\ PushMaxMs \in Nat /\ Longest \in Nat
        /\ Longest < StallRestMs /\ seen.tried \in Nat
        /\ c.hi \in Nat /\ c.hi < PushMaxMs /\ c.stall \in Nat /\ c.rest \in Nat
    BY NumbersAre, PushTime, LongestIs DEF UseInv, Paced
  <2>2. k \in Nat /\ m \in Nat /\ w \in Nat /\ k + m = StallRestMs + RestMs
    BY <2>1
  <2>3. PICK n \in Nat : seen.tried <= w + n * m /\ n * k <= w
    <3>1. CASE seen.tried = 0
      <4>1. seen.tried <= w + 0 * m /\ 0 * k <= w
        BY <2>1, <2>2, <3>1
      <4> QED
        BY <4>1
    <3>2. CASE seen.tried > 0
      <4>1. PICK n \in Nat : seen.tried + c.rest <= c.hi + Rested(n)
                             /\ Earned(n) <= c.hi + StallRestMs - c.stall
        BY <3>2 DEF UseInv, Owed
      <4>2. n * m \in Nat /\ n * k \in Nat
        <5> HIDE DEF m, k
        <5> QED
          BY <2>2
      <4>3. Rested(n) = n * m /\ Earned(n) = n * k
        BY DEF Rested, Earned
      <4>4. seen.tried <= w + n * m /\ n * k <= w
        <5> HIDE DEF m, k
        <5> QED
          BY <2>1, <4>1, <4>2, <4>3
      <4> QED
        BY <4>4
    <3> QED
      BY <2>1, <3>1, <3>2
  <2> HIDE DEF k, m, w
  <2>4. seen.tried * k <= (w + n * m) * k
    BY <2>1, <2>2, <2>3, SMTT(30)
  <2>5. (w + n * m) * k = w * k + (n * k) * m
    BY <2>2, SMTT(30)
  <2>6. (n * k) * m <= w * m
    BY <2>2, <2>3, SMTT(30)
  <2>7. seen.tried * k <= w * (k + m)
    BY <2>1, <2>2, <2>4, <2>5, <2>6, SMTT(30)
  <2>8. w * (StallRestMs + RestMs) <= w * (StallRestMs + RestMs + 2 * Longest)
    BY <2>1, <2>2, SMTT(30)
  <2>9. seen.tried * k <= w * (StallRestMs + RestMs + 2 * Longest)
    <3>1. seen.tried * k <= w * (StallRestMs + RestMs)
      BY <2>2, <2>7
    <3>2. seen.tried * k \in Int /\ w * (StallRestMs + RestMs) \in Int /\ w * (StallRestMs + RestMs + 2 * Longest) \in Int
      BY <2>1, <2>2
    <3> QED
      BY <2>8, <3>1, <3>2
  <2> QED
    BY <2>9 DEF PushEnds, k, w
<1> QED
  BY <1>1, LoadStart, LoadStep, UseStart, UseStep, PTL DEF Spec

-----------------------------------------------------------------------------
(* The angle sensor.                                                       *)

LEMMA AngleNumbers ==
  /\ Half \in Nat \ {0} /\ PerMs \in Nat \ {0} /\ Speed \in Nat /\ Speed <= PerMs
  /\ FailTrip \in Nat \ {0} /\ OkRecover \in Nat \ {0} /\ JumpRebase \in Nat \ {0} /\ MaxBad \in Nat
  /\ Turn \in Nat \ {0} /\ Turn = Half + Half
BY AngleAssumption, SMTT(30) DEF AngleAssumption, Turn

LEMMA LongestGapIs == LongestGap \in Nat \ {0} /\ \A ms \in Gaps : ms \in Nat \ {0} /\ ms <= LongestGap
<1>1. Gaps \subseteq Nat \ {0} /\ \E g \in Gaps : \A h \in Gaps : h <= g
  BY AngleAssumption DEF AngleAssumption
<1>2. LongestGap \in Gaps /\ \A h \in Gaps : h <= LongestGap
  BY <1>1, Zenon DEF LongestGap
<1> QED
  BY <1>1, <1>2

\* The polls in a row with j jumps among them, the time of h polls, the motion in a time t, what one
\* baseline in a time t can cost, and what the baselines of b corrupted reads can at u each.
InARow(j) == FailTrip * j
Span(h) == h * LongestGap
Drift(t) == Speed * t
Step(t) == (PerMs + Speed) * t
Due(b, u) == 2 * b * u

LEMMA RowsAre ==
  /\ InARow(0) = 0 /\ MostHeld \in Nat /\ JumpRebase <= MostHeld + 1
  /\ \A j \in Nat : /\ InARow(j) \in Nat /\ InARow(j + 1) = InARow(j) + FailTrip
                    /\ j < JumpRebase => InARow(j) + FailTrip <= MostHeld + 1
                    /\ j <= InARow(j)
<1> DEFINE n == FailTrip
           m == JumpRebase
<1>1. n \in Nat \ {0} /\ m \in Nat \ {0} /\ MostHeld = (n - 1) * m + m - 1
  BY AngleNumbers DEF MostHeld
<1> HIDE DEF n, m
<1>2. (n - 1) * m = n * m - m /\ n * m \in Nat /\ 1 <= n * m /\ m <= n * m /\ n * 0 = 0
  BY <1>1, SMTT(30)
<1>3. MostHeld + 1 = n * m /\ MostHeld \in Nat /\ m <= MostHeld + 1
  BY <1>1, <1>2
<1>4. ASSUME NEW j \in Nat
      PROVE  /\ n * j \in Nat /\ n * (j + 1) = n * j + n /\ j <= n * j
             /\ j < m => n * j + n <= n * m
  <2>1. n * j \in Nat /\ n * (j + 1) = n * j + n /\ j <= n * j
    BY <1>1, SMTT(30)
  <2>2. ASSUME j < m PROVE n * j + n <= n * m
    <3>1. n * (j + 1) <= n * m
      BY <1>1, <2>2, SMTT(30)
    <3> QED
      BY <2>1, <3>1
  <2> QED
    BY <2>1, <2>2
<1> QED
  BY <1>2, <1>3, <1>4 DEF InARow, n, m

LEMMA SpansAre ==
  /\ Span(0) = 0
  /\ \A h \in Nat : /\ Span(h) \in Nat /\ Span(h + 1) = Span(h) + LongestGap
                    /\ \A k \in Nat : h <= k => Span(h) <= Span(k)
<1>1. LongestGap \in Nat
  BY LongestGapIs
<1> QED
  BY <1>1, SMTT(30) DEF Span

LEMMA DriftsAre ==
  /\ Drift(0) = 0
  /\ \A t \in Nat : /\ Drift(t) \in Nat
                    /\ \A s \in Nat : Drift(t + s) = Drift(t) + Drift(s) /\ (t <= s => Drift(t) <= Drift(s))
<1>1. Speed \in Nat
  BY AngleNumbers
<1> QED
  BY <1>1, SMTT(30) DEF Drift

LEMMA StepsAre ==
  ASSUME NEW t \in Nat
  PROVE  /\ Step(t) \in Nat /\ as5600_max_step(t) \in Nat /\ as5600_max_step(t) + Drift(t) <= Step(t)
         /\ as5600_max_step(t) = Half \/ Drift(t) <= as5600_max_step(t)
         /\ \A s \in Nat : t <= s => Step(t) <= Step(s)
<1> DEFINE p == t * PerMs
           d == Drift(t)
           m == as5600_max_step(t)
<1>1. PerMs \in Nat /\ Speed \in Nat /\ Speed <= PerMs /\ Half \in Nat
  BY AngleNumbers
<1>2. p \in Nat /\ d \in Nat /\ d <= p /\ Step(t) = p + d
  BY <1>1, SMTT(30) DEF Drift, Step
<1>3. m = IF p >= Half THEN Half ELSE p
  BY DEF as5600_max_step
<1>4. \A s \in Nat : t <= s => Step(t) <= Step(s)
  BY <1>1, SMTT(30) DEF Step
<1> HIDE DEF p, d, m
<1>5. Step(t) \in Nat /\ m \in Nat /\ m + d <= Step(t) /\ (m = Half \/ d <= m)
  BY <1>1, <1>2, <1>3
<1> QED
  BY <1>4, <1>5 DEF d, m

LEMMA DuesAre ==
  ASSUME NEW b \in Nat, NEW u \in Nat
  PROVE  /\ Due(b, u) \in Nat /\ Due(0, u) = 0 /\ Due(b + 1, u) = Due(b, u) + u + u
         /\ b > 0 => u + u <= Due(b, u)
         /\ \A v \in Nat : u <= v => /\ Due(b, u) <= Due(b, v)
                                     /\ b > 0 => Due(b, u) - u <= Due(b, v) - v
<1> DEFINE q == b * u
<1>1. q \in Nat /\ (b + 1) * u = q + u /\ (b > 0 => u <= q)
  BY SMTT(30)
<1>2. Due(b, u) = q + q /\ Due(0, u) = 0
  BY SMTT(30) DEF Due
<1>3. Due(b + 1, u) = 2 * ((b + 1) * u)
  BY SMTT(30) DEF Due
<1>4. ASSUME NEW v \in Nat, u <= v
      PROVE  Due(b, u) <= Due(b, v) /\ (b > 0 => Due(b, u) - u <= Due(b, v) - v)
  <2> DEFINE w == v - u
             r == b * w
  <2>1. w \in Nat /\ v = u + w
    BY <1>4
  <2>2. r \in Nat /\ (b > 0 => w <= r) /\ b * v = q + r
    <3> HIDE DEF w
    <3> QED
      BY <2>1, SMTT(30)
  <2>3. Due(b, v) = b * v + b * v
    BY SMTT(30) DEF Due
  <2> HIDE DEF q, r, w
  <2> QED
    BY <1>1, <1>2, <2>1, <2>2, <2>3
<1> HIDE DEF q
<1> QED
  BY <1>1, <1>2, <1>3, <1>4

\* How many polls a baseline may be kept, and what it can cost after n of them.
Polls(calms) == IF calms THEN JumpRebase ELSE MostHeld + 1
Unit(n) == Step(Span(n))

LEMMA PollsAre ==
  /\ MostHeld \in Nat /\ JumpRebase \in Nat \ {0} /\ JumpRebase <= MostHeld + 1
  /\ \A calms \in BOOLEAN : Polls(calms) \in Nat /\ Polls(calms) <= MostHeld + 1
<1>1. JumpRebase \in Nat \ {0} /\ MostHeld \in Nat /\ JumpRebase <= MostHeld + 1
  BY AngleNumbers, RowsAre
<1> QED
  BY <1>1 DEF Polls

LEMMA UnitsAre ==
  ASSUME NEW n \in Nat, n <= MostHeld + 1
  PROVE  /\ Span(n) \in Nat /\ Unit(n) \in Nat /\ Drift(Span(n)) \in Nat /\ Drift(Span(n)) < Half
         /\ \A m \in Nat : m <= n => Unit(m) <= Unit(n)
<1>1. MostHeld + 1 \in Nat
  BY PollsAre
<1>2. Span(n) \in Nat /\ Span(MostHeld + 1) \in Nat /\ Span(n) <= Span(MostHeld + 1)
  BY <1>1, SpansAre
<1>3. Drift(Span(MostHeld + 1)) < Half
  <2> DEFINE k == MostHeld + 1
             g == LongestGap
             v == Speed
  <2>1. k * (v * g) < Half
    BY RoomAssumption DEF RoomAssumption
  <2>2. k \in Nat /\ g \in Nat /\ v \in Nat
    BY <1>1, AngleNumbers, LongestGapIs
  <2>3. Drift(Span(MostHeld + 1)) = v * (k * g)
    BY DEF Drift, Span
  <2> HIDE DEF k, g, v
  <2>4. v * (k * g) = k * (v * g)
    BY <2>2, SMTT(30)
  <2> QED
    BY <2>1, <2>3, <2>4
<1>4. /\ Drift(Span(n)) \in Nat /\ Drift(Span(MostHeld + 1)) \in Nat
      /\ Drift(Span(n)) <= Drift(Span(MostHeld + 1))
  BY <1>2, DriftsAre
<1>5. Half \in Nat
  BY AngleNumbers
<1>6. Unit(n) \in Nat
  BY <1>2, StepsAre DEF Unit
<1>7. ASSUME NEW m \in Nat, m <= n PROVE Unit(m) <= Unit(n)
  <2>1. Span(m) \in Nat /\ Span(m) <= Span(n)
    BY <1>7, SpansAre
  <2> QED
    BY <1>2, <2>1, StepsAre DEF Unit
<1> QED
  BY <1>2, <1>3, <1>4, <1>5, <1>6, <1>7

-----------------------------------------------------------------------------
\* Angles wrap.
LEMMA Wraps ==
  ASSUME NEW n \in Int
  PROVE  n % Turn \in 0..(Turn - 1)
<1>1. Turn \in Nat \ {0}
  BY AngleNumbers
<1> DEFINE q == Turn
<1> HIDE DEF q
<1>2. q \in Nat \ {0}
  BY <1>1 DEF q
<1>3. n % q \in 0..(q - 1)
  BY <1>2, SMTT(30)
<1> QED
  BY <1>3 DEF q

LEMMA WrapsOn ==
  ASSUME NEW n \in Int, NEW m \in Int
  PROVE  ((n % Turn) + m) % Turn = (n + m) % Turn
<1>1. Turn \in Nat \ {0}
  BY AngleNumbers
<1> DEFINE q == Turn
<1> HIDE DEF q
<1>2. q \in Nat \ {0}
  BY <1>1 DEF q
<1> DEFINE a == n \div q
           r == n % q
           b == (r + m) \div q
           s == (r + m) % q
           e == (n + m) \div q
           f == (n + m) % q
<1>3. a \in Int /\ r \in 0..(q - 1) /\ n = a * q + r
  BY <1>2, SMTT(30)
<1>4. r + m \in Int
  BY <1>2, <1>3
<1> HIDE DEF a, r
<1>5. b \in Int /\ s \in 0..(q - 1) /\ r + m = b * q + s
  BY <1>2, <1>4, SMTT(30)
<1>6. e \in Int /\ f \in 0..(q - 1) /\ n + m = e * q + f
  BY <1>2, SMTT(30)
<1> HIDE DEF b, s, e, f
<1> DEFINE k == e - a - b
<1>7. k \in Int /\ s - f = k * q
  <2>1. (a + b) * q = a * q + b * q /\ (a + b) * q \in Int /\ a * q \in Int /\ b * q \in Int /\ e * q \in Int
    BY <1>2, <1>3, <1>5, <1>6, SMTT(30)
  <2>2. k * q = e * q - (a + b) * q
    BY <1>2, <1>3, <1>5, <1>6, SMTT(30)
  <2>3. k \in Int
    BY <1>3, <1>5, <1>6
  <2> HIDE DEF k
  <2> QED
    BY <1>2, <1>3, <1>5, <1>6, <2>1, <2>2, <2>3
<1> HIDE DEF k
<1>8. k = 0
  <2>1. CASE k >= 1
    <3>1. k * q >= q
      BY <1>2, <1>7, <2>1, SMTT(30)
    <3> QED
      BY <1>2, <1>5, <1>6, <1>7, <3>1
  <2>2. CASE k <= -1
    <3>1. k * q <= -q
      BY <1>2, <1>7, <2>2, SMTT(30)
    <3> QED
      BY <1>2, <1>5, <1>6, <1>7, <3>1
  <2> QED
    BY <1>7, <2>1, <2>2
<1>9. s = f
  BY <1>2, <1>5, <1>6, <1>7, <1>8
<1> QED
  BY <1>9 DEF s, f, r, q

\* A turn of less than half a turn is the shortest way to where it leads.
LEMMA ShortWay ==
  ASSUME NEW d \in Int, -Half < d, d < Half
  PROVE  as5600_angle_diff(d % Turn) = d
<1>1. Half \in Nat \ {0} /\ Turn \in Nat \ {0} /\ Turn = Half + Half
  BY AngleNumbers
<1>2. d % Turn = IF d < 0 THEN d + Turn ELSE d
  <2> DEFINE q == Turn
  <2> HIDE DEF q
  <2>1. q \in Nat \ {0} /\ -q < d /\ d < q
    BY <1>1 DEF q
  <2>2. d % q = IF d < 0 THEN d + q ELSE d
    BY <2>1, SMTT(30)
  <2> QED
    BY <2>2 DEF q
<1> QED
  BY <1>1, <1>2 DEF as5600_angle_diff

LEMMA WayIs ==
  ASSUME NEW x \in 0..(Turn - 1)
  PROVE  as5600_angle_diff(x) \in Int
BY AngleNumbers DEF as5600_angle_diff

-----------------------------------------------------------------------------
\* What the odometer lacks, r, is the d that the gear has turned since the baseline, el ago, less
\* the error e made before: with a true baseline the angle a is that turn and each corrupted read
\* has cost two units at most; one that may be wrong has cost a unit less so far.
Lacks(r, el, a, b, u, d, e) ==
  /\ d \in Int /\ e \in Int /\ r = e - d /\ -Drift(el) <= d /\ d <= Drift(el)
  /\ \/ a = d % Turn /\ -Due(b, u) <= e /\ e <= Due(b, u)
     \/ b > 0 /\ u - Due(b, u) <= e /\ e <= Due(b, u) - u

Traced(r, el, a, b, u) == \E d, e \in Int : Lacks(r, el, a, b, u, d, e)

\* A time in which the gear turns by n.
LEMMA TurnsOn ==
  ASSUME NEW el \in Nat, NEW ms \in Nat, NEW n \in Int, -Drift(ms) <= n, n <= Drift(ms),
         NEW d \in Int, -Drift(el) <= d, d <= Drift(el)
  PROVE  /\ d + n \in Int /\ el + ms \in Nat /\ -Drift(el + ms) <= d + n /\ d + n <= Drift(el + ms)
         /\ ((d % Turn) + n) % Turn = (d + n) % Turn
<1>1. Drift(el + ms) = Drift(el) + Drift(ms) /\ Drift(el) \in Nat /\ Drift(ms) \in Nat
  BY DriftsAre
<1>2. ((d % Turn) + n) % Turn = (d + n) % Turn
  BY WrapsOn
<1>3. d + n \in Int /\ el + ms \in Nat /\ -Drift(el + ms) <= d + n /\ d + n <= Drift(el + ms)
  BY <1>1
<1> QED
  BY <1>2, <1>3

LEMMA LacksMore ==
  ASSUME NEW r \in Int, NEW el \in Nat, NEW a \in Int, NEW b \in Nat, NEW u \in Nat, Traced(r, el, a, b, u),
         NEW ms \in Nat, NEW n \in Int, -Drift(ms) <= n, n <= Drift(ms),
         NEW v \in Nat, u <= v, NEW k \in {b, b + 1}
  PROVE  Traced(r - n, el + ms, (a + n) % Turn, k, v)
<1>1. PICK d \in Int, e \in Int : Lacks(r, el, a, b, u, d, e)
  BY DEF Traced
<1>2. r = e - d /\ -Drift(el) <= d /\ d <= Drift(el)
  BY <1>1 DEF Lacks
<1>3. /\ d + n \in Int /\ -Drift(el + ms) <= d + n /\ d + n <= Drift(el + ms)
      /\ ((d % Turn) + n) % Turn = (d + n) % Turn
  BY <1>2, TurnsOn
<1>4. /\ Due(b, u) \in Nat /\ Due(b, v) \in Nat /\ Due(b, u) <= Due(b, v)
      /\ b > 0 => Due(b, u) - u <= Due(b, v) - v
      /\ Due(b + 1, v) = Due(b, v) + v + v
  BY DuesAre
<1>5. /\ Due(k, v) \in Nat /\ Due(b, u) <= Due(k, v)
      /\ b > 0 => k > 0 /\ Due(b, u) - u <= Due(k, v) - v
  <2>1. CASE k = b
    BY <1>4, <2>1
  <2>2. CASE k = b + 1
    BY <1>4, <2>2
  <2> QED
    BY <2>1, <2>2
<1>6. r - n = e - (d + n)
  BY <1>2
<1>7. Lacks(r - n, el + ms, (a + n) % Turn, k, v, d + n, e)
  <2>1. CASE a = d % Turn /\ -Due(b, u) <= e /\ e <= Due(b, u)
    <3>1. (a + n) % Turn = (d + n) % Turn
      BY <1>3, <2>1
    <3>2. -Due(k, v) <= e /\ e <= Due(k, v)
      BY <1>4, <1>5, <2>1
    <3> QED
      BY <1>3, <1>6, <3>1, <3>2 DEF Lacks
  <2>2. CASE b > 0 /\ u - Due(b, u) <= e /\ e <= Due(b, u) - u
    <3>1. k > 0 /\ v - Due(k, v) <= e /\ e <= Due(k, v) - v
      BY <1>4, <1>5, <2>2
    <3> QED
      BY <1>3, <1>6, <3>1 DEF Lacks
  <2> QED
    BY <1>1, <2>1, <2>2 DEF Lacks
<1> QED
  BY <1>3, <1>7 DEF Traced

\* A true angle becomes the baseline: from a true one it is believed, and costs nothing.
LEMMA TrueBaseline ==
  ASSUME NEW r \in Int, NEW el \in Nat, NEW a \in Int, NEW b \in Nat, NEW u \in Nat, Traced(r, el, a, b, u),
         NEW ms \in Nat, NEW n \in Int, -Drift(ms) <= n, n <= Drift(ms),
         NEW t, t = el + ms, Drift(t) < Half, Step(t) <= u,
         NEW x, x = (a + n) % Turn, NEW lim, lim = as5600_max_step(t),
         NEW w, w = as5600_angle_diff(x)
  PROVE  /\ w > lim \/ w < -lim => Traced(r - n, 0, 0, b, u)
         /\ ~(w > lim \/ w < -lim) => Traced(r - n + w, 0, 0, b, u)
<1>1. PICK d \in Int, e \in Int : Lacks(r, el, a, b, u, d, e)
  BY DEF Traced
<1>2. r = e - d /\ -Drift(el) <= d /\ d <= Drift(el)
  BY <1>1 DEF Lacks
<1>3. /\ d + n \in Int /\ t \in Nat /\ -Drift(t) <= d + n /\ d + n <= Drift(t)
      /\ ((d % Turn) + n) % Turn = (d + n) % Turn
  BY <1>2, TurnsOn
<1>4. /\ lim \in Nat /\ Drift(t) \in Nat /\ lim + Drift(t) <= u /\ (lim = Half \/ Drift(t) <= lim)
      /\ Half \in Nat
  <2>1. /\ Step(t) \in Nat /\ lim \in Nat /\ lim + Drift(t) <= Step(t)
        /\ lim = Half \/ Drift(t) <= lim
    BY <1>3, StepsAre
  <2>2. Drift(t) \in Nat
    BY <1>3, DriftsAre
  <2>3. Half \in Nat
    BY AngleNumbers
  <2> QED
    BY <2>1, <2>2, <2>3
<1>5. w \in Int
  <2>1. x \in 0..(Turn - 1)
    BY Wraps
  <2> QED
    BY <2>1, WayIs
<1>6. Due(b, u) \in Nat /\ Drift(0) = 0 /\ 0 % Turn = 0
  <2>1. 0 % Turn = 0
    <3> DEFINE q == Turn
    <3> HIDE DEF q
    <3>1. q \in Nat \ {0}
      BY AngleNumbers DEF q
    <3>2. 0 % q = 0
      BY <3>1
    <3> QED
      BY <3>2 DEF q
  <2> QED
    BY <2>1, DuesAre, DriftsAre
<1>7. ASSUME NEW z \in Int, -Due(b, u) <= z, z <= Due(b, u)
      PROVE  Traced(z, 0, 0, b, u)
  <2>1. Lacks(z, 0, 0, b, u, 0, z)
    BY <1>6, <1>7 DEF Lacks
  <2> QED
    BY <2>1 DEF Traced
<1>8. CASE a = d % Turn /\ -Due(b, u) <= e /\ e <= Due(b, u)
  <2>1. w = d + n
    <3>1. x = (d + n) % Turn
      BY <1>3, <1>8
    <3>2. -Half < d + n /\ d + n < Half
      BY <1>3, <1>4
    <3> QED
      BY <1>3, <3>1, <3>2, ShortWay
  <2>2. ~(w > lim \/ w < -lim)
    BY <1>3, <1>4, <2>1
  <2>3. r - n + w = e
    BY <1>2, <2>1
  <2> QED
    BY <1>7, <1>8, <2>2, <2>3
<1>9. CASE b > 0 /\ u - Due(b, u) <= e /\ e <= Due(b, u) - u
  <2>1. r - n = e - (d + n)
    BY <1>2
  <2>2. r - n \in Int /\ -Due(b, u) <= r - n /\ r - n <= Due(b, u)
    BY <1>3, <1>4, <1>6, <1>9, <2>1
  <2>3. ASSUME ~(w > lim \/ w < -lim)
        PROVE  r - n + w \in Int /\ -Due(b, u) <= r - n + w /\ r - n + w <= Due(b, u)
    BY <1>3, <1>4, <1>5, <1>6, <1>9, <2>1, <2>3
  <2> QED
    BY <1>7, <2>2, <2>3
<1> QED
  BY <1>1, <1>8, <1>9 DEF Lacks

\* A corrupted angle becomes the baseline, by a move that is believed or by none.
LEMMA BadBaseline ==
  ASSUME NEW r \in Int, NEW el \in Nat, NEW a \in Int, NEW b \in Nat, NEW u \in Nat, Traced(r, el, a, b, u),
         NEW ms \in Nat, NEW n \in Int, -Drift(ms) <= n, n <= Drift(ms),
         NEW t, t = el + ms, Step(t) <= u, NEW lim, lim = as5600_max_step(t),
         NEW w \in Int, NEW to
  PROVE  /\ Traced(r - n, 0, to, b + 1, u)
         /\ ~(w > lim \/ w < -lim) => Traced(r - n + w, 0, to, b + 1, u)
<1>1. PICK d \in Int, e \in Int : Lacks(r, el, a, b, u, d, e)
  BY DEF Traced
<1>2. r = e - d /\ -Drift(el) <= d /\ d <= Drift(el)
  BY <1>1 DEF Lacks
<1>3. d + n \in Int /\ t \in Nat /\ -Drift(t) <= d + n /\ d + n <= Drift(t)
  BY <1>2, TurnsOn
<1>4. lim \in Nat /\ Drift(t) \in Nat /\ lim + Drift(t) <= u
  <2>1. Step(t) \in Nat /\ lim \in Nat /\ lim + Drift(t) <= Step(t)
    BY <1>3, StepsAre
  <2>2. Drift(t) \in Nat
    BY <1>3, DriftsAre
  <2> QED
    BY <2>1, <2>2
<1>5. Due(b, u) \in Nat /\ Due(b + 1, u) = Due(b, u) + u + u /\ Drift(0) = 0 /\ (b > 0 => u + u <= Due(b, u))
  BY DuesAre, DriftsAre
<1>6. -Due(b, u) <= e /\ e <= Due(b, u)
  BY <1>1, <1>5 DEF Lacks
<1>7. r - n = e - (d + n)
  BY <1>2
<1>8. r - n \in Int /\ u - Due(b + 1, u) <= r - n /\ r - n <= Due(b + 1, u) - u
  BY <1>3, <1>4, <1>5, <1>6, <1>7
<1>9. ASSUME ~(w > lim \/ w < -lim)
      PROVE  r - n + w \in Int /\ u - Due(b + 1, u) <= r - n + w /\ r - n + w <= Due(b + 1, u) - u
  BY <1>3, <1>4, <1>5, <1>6, <1>7, <1>9
<1>10. ASSUME NEW z \in Int, u - Due(b + 1, u) <= z, z <= Due(b + 1, u) - u
      PROVE  Traced(z, 0, to, b + 1, u)
  <2>1. Lacks(z, 0, to, b + 1, u, 0, z)
    BY <1>5, <1>10 DEF Lacks
  <2> QED
    BY <2>1 DEF Traced
<1> QED
  BY <1>8, <1>9, <1>10

\* The first baseline after the gate opened.
LEMMA FirstBaseline ==
  ASSUME NEW u \in Nat
  PROVE  Traced(0, 0, 0, 0, u) /\ \A a : Traced(0, 0, a, 1, u)
<1>1. Due(0, u) = 0 /\ Due(1, u) = u + u /\ Drift(0) = 0
  <2>1. Due(0 + 1, u) = Due(0, u) + u + u /\ Due(0, u) = 0
    BY DuesAre
  <2> QED
    BY <2>1, DriftsAre
<1>2. 0 % Turn = 0
  <2> DEFINE q == Turn
  <2> HIDE DEF q
  <2>1. q \in Nat \ {0}
    BY AngleNumbers DEF q
  <2>2. 0 % q = 0
    BY <2>1
  <2> QED
    BY <2>2 DEF q
<1>3. Lacks(0, 0, 0, 0, u, 0, 0)
  BY <1>1, <1>2 DEF Lacks
<1>4. ASSUME NEW a PROVE Lacks(0, 0, a, 1, u, 0, 0)
  BY <1>1 DEF Lacks
<1> QED
  BY <1>3, <1>4 DEF Traced

-----------------------------------------------------------------------------
\* What the gate and the tracker's counters say of each other.
AngleFlags == good \in BOOLEAN /\ valid \in BOOLEAN /\ calm \in BOOLEAN

AngleCounts ==
  /\ fail \in 0..FailTrip /\ okstreak \in 0..OkRecover /\ jumps \in Nat /\ jumps < JumpRebase
  /\ held \in Nat /\ elapsed \in Nat /\ ahead \in 0..(Turn - 1) /\ err \in Int /\ bad \in 0..MaxBad

AngleTypes == AngleFlags /\ AngleCounts

GateHolds == good => fail < FailTrip

PollsCounted ==
  /\ valid => good /\ held <= InARow(jumps) + fail
  /\ ~valid => jumps = 0 /\ elapsed = 0 /\ held = 0 /\ bad = 0
  /\ valid /\ calm => fail = 0 /\ held = jumps
  /\ elapsed <= Span(held)

Followed == valid => Traced(err, elapsed, ahead, bad, Unit(Polls(calm)))

AngleInv == AngleTypes /\ GateHolds /\ PollsCounted /\ Followed

LEMMA GateKeeps ==
  ASSUME AngleTypes, GateHolds, NEW ok \in BOOLEAN, Gate(ok)
  PROVE  /\ good' \in BOOLEAN /\ fail' \in 0..FailTrip /\ okstreak' \in 0..OkRecover /\ GateHolds'
         /\ ok => fail' = 0
         /\ ~ok /\ good' => good /\ fail' = fail + 1
<1>1. FailTrip \in Nat \ {0} /\ OkRecover \in Nat \ {0}
  BY AngleNumbers
<1>2. good \in BOOLEAN /\ fail \in 0..FailTrip /\ okstreak \in 0..OkRecover
  BY DEF AngleTypes, AngleFlags, AngleCounts
<1>3. /\ fail' = IF ok THEN 0 ELSE IF fail < FailTrip THEN fail + 1 ELSE fail
      /\ okstreak' = IF ~ok THEN 0 ELSE IF okstreak < OkRecover THEN okstreak + 1 ELSE okstreak
      /\ good' = IF ok THEN good \/ okstreak' = OkRecover ELSE good /\ fail' < FailTrip
  BY DEF Gate
<1>4. CASE ok
  BY <1>1, <1>2, <1>3, <1>4 DEF GateHolds
<1>5. CASE ~ok
  BY <1>1, <1>2, <1>3, <1>5 DEF GateHolds
<1> QED
  BY <1>4, <1>5

\* What the counters allow of the time and the polls that a poll adds.
LEMMA PollTime ==
  ASSUME AngleTypes, GateHolds, PollsCounted, valid, NEW ms \in Nat, ms <= LongestGap
  PROVE  /\ held <= MostHeld /\ (calm => held < JumpRebase)
         /\ elapsed + ms \in Nat /\ elapsed + ms <= Span(held + 1)
         /\ Drift(elapsed + ms) < Half /\ Step(elapsed + ms) <= Unit(Polls(calm))
<1>1. jumps \in Nat /\ jumps < JumpRebase /\ held \in Nat /\ elapsed \in Nat /\ fail \in 0..FailTrip /\ calm \in BOOLEAN
  BY DEF AngleTypes, AngleFlags, AngleCounts
<1>2. held <= InARow(jumps) + fail /\ (calm => held = jumps) /\ elapsed <= Span(held) /\ fail < FailTrip
  BY DEF PollsCounted, GateHolds
<1>3. FailTrip \in Nat /\ LongestGap \in Nat /\ Half \in Nat
  BY AngleNumbers, LongestGapIs
<1>4. InARow(jumps) \in Nat /\ InARow(jumps) + FailTrip <= MostHeld + 1 /\ MostHeld \in Nat
  BY <1>1, RowsAre
<1>5. held <= MostHeld /\ (calm => held < JumpRebase)
  BY <1>1, <1>2, <1>3, <1>4
<1>6. elapsed + ms \in Nat /\ elapsed + ms <= Span(held + 1)
  BY <1>1, <1>2, <1>3, SpansAre
<1> DEFINE h == held + 1
           t == elapsed + ms
           p == Polls(calm)
<1>7. h \in Nat /\ h <= MostHeld + 1 /\ p \in Nat /\ p <= MostHeld + 1 /\ h <= p
  BY <1>1, <1>4, <1>5, PollsAre DEF Polls
<1>8. Span(h) \in Nat /\ Drift(Span(h)) < Half /\ Drift(Span(h)) \in Nat /\ Unit(h) \in Nat
  BY <1>7, UnitsAre
<1>9. Unit(p) \in Nat /\ Unit(h) <= Unit(p)
  BY <1>7, UnitsAre
<1>10. t \in Nat /\ t <= Span(h)
  BY <1>6
<1> HIDE DEF h, t, p
<1>11. Drift(t) \in Nat /\ Drift(t) <= Drift(Span(h))
  BY <1>8, <1>10, DriftsAre
<1>12. Step(t) \in Nat /\ Step(t) <= Unit(h)
  BY <1>8, <1>10, StepsAre DEF Unit
<1>13. Drift(t) < Half /\ Step(t) <= Unit(p)
  BY <1>3, <1>8, <1>9, <1>11, <1>12
<1> QED
  BY <1>5, <1>6, <1>13 DEF h, t, p

\* A poll keeps all this, whatever is read.
LEMMA PollKeeps ==
  ASSUME AngleInv, NEW ms \in Nat, ms <= LongestGap,
         NEW turned \in Int, -Drift(ms) <= turned, turned <= Drift(ms), NEW read,
         NEW garbage \in 0..(Turn - 1), read = "true" \/ read = "failed" \/ bad < MaxBad,
         AS5600_distance_updata(ms, turned, read, garbage)
  PROVE  AngleInv'
<1> DEFINE now == (ahead + turned) % Turn
           x == IF read = "true" THEN now ELSE garbage
           t == elapsed + ms
           w == as5600_angle_diff(x)
           lim == as5600_max_step(t)
           ok == Answered(read)
           un == Unit(Polls(calm))
<1>1. AngleTypes /\ GateHolds /\ PollsCounted /\ Followed
  BY DEF AngleInv
<1>2. Gate(ok) /\ as5600_track_sample(read, now, turned, t, x)
  BY DEF AS5600_distance_updata
<1>3. ms \in Nat /\ turned \in Int /\ -Drift(ms) <= turned /\ turned <= Drift(ms)
  OBVIOUS
<1>4. /\ good \in BOOLEAN /\ fail \in 0..FailTrip /\ valid \in BOOLEAN /\ calm \in BOOLEAN
      /\ jumps \in Nat /\ jumps < JumpRebase /\ held \in Nat /\ elapsed \in Nat
      /\ ahead \in 0..(Turn - 1) /\ err \in Int /\ bad \in 0..MaxBad
  BY <1>1 DEF AngleTypes, AngleFlags, AngleCounts
<1>5. /\ Half \in Nat \ {0} /\ FailTrip \in Nat \ {0} /\ JumpRebase \in Nat \ {0} /\ MaxBad \in Nat
      /\ Turn \in Nat \ {0} /\ MostHeld \in Nat /\ LongestGap \in Nat
  BY AngleNumbers, RowsAre, LongestGapIs
<1>6. now \in 0..(Turn - 1) /\ x \in 0..(Turn - 1) /\ w \in Int /\ t \in Nat /\ (now - x) % Turn \in 0..(Turn - 1)
  <2>1. ahead + turned \in Int
    BY <1>3, <1>4, <1>5
  <2>2. now \in 0..(Turn - 1)
    BY <2>1, Wraps
  <2> HIDE DEF now
  <2>3. x \in 0..(Turn - 1)
    BY <2>2
  <2> HIDE DEF x
  <2>4. now - x \in Int
    BY <2>2, <2>3, <1>5
  <2>5. (now - x) % Turn \in 0..(Turn - 1)
    BY <2>4, Wraps
  <2> QED
    BY <1>3, <1>4, <2>2, <2>3, <2>5, WayIs
<1>7. /\ good' \in BOOLEAN /\ fail' \in 0..FailTrip /\ okstreak' \in 0..OkRecover /\ GateHolds'
      /\ ok => fail' = 0
      /\ ~ok /\ good' => good /\ fail' = fail + 1
  <2>1. ok \in BOOLEAN
    BY DEF Answered
  <2> HIDE DEF ok
  <2> QED
    BY <1>1, <1>2, <2>1, GateKeeps
<1>8. valid => /\ held <= MostHeld /\ (calm => held < JumpRebase) /\ t <= Span(held + 1)
               /\ Drift(t) < Half /\ Step(t) <= un
               /\ good /\ held <= InARow(jumps) + fail /\ (calm => fail = 0 /\ held = jumps)
               /\ Traced(err, elapsed, ahead, bad, un)
  BY <1>1, <1>3, PollTime DEF PollsCounted, Followed
<1>9. un \in Nat /\ \A calms \in BOOLEAN : Unit(Polls(calms)) \in Nat /\ ((calms => calm) => un <= Unit(Polls(calms)))
  <2>1. ASSUME NEW calms \in BOOLEAN, NEW e \in BOOLEAN, calms => e PROVE Unit(Polls(calms)) \in Nat /\ Unit(Polls(e)) <= Unit(Polls(calms))
    <3>1. Polls(calms) \in Nat /\ Polls(calms) <= MostHeld + 1 /\ Polls(e) \in Nat
      BY PollsAre
    <3>2. Polls(e) <= Polls(calms)
      BY <2>1, PollsAre DEF Polls
    <3> QED
      BY <3>1, <3>2, UnitsAre
  <2> QED
    BY <1>4, <2>1
<1>10. /\ bad \in Nat /\ ahead \in Int /\ InARow(jumps) \in Nat /\ InARow(jumps + 1) = InARow(jumps) + FailTrip
       /\ InARow(0) = 0 /\ Span(0) = 0 /\ held + 1 \in Nat /\ Span(held + 1) \in Nat
  <2>1. bad \in Nat /\ ahead \in Int /\ held + 1 \in Nat
    BY <1>4, <1>5
  <2>2. InARow(jumps) \in Nat /\ InARow(jumps + 1) = InARow(jumps) + FailTrip /\ InARow(0) = 0
    BY <1>4, RowsAre
  <2>3. Span(0) = 0 /\ Span(held + 1) \in Nat
    BY <2>1, SpansAre
  <2> QED
    BY <2>1, <2>2, <2>3
<1> HIDE DEF now, x, t, w, lim, un
<1> SUFFICES AngleTypes' /\ PollsCounted' /\ Followed'
  BY <1>7 DEF AngleInv
<1>11. ASSUME valid' => Traced(err', elapsed', ahead', bad', Unit(Polls(calm')))
       PROVE  Followed'
  BY <1>11 DEF Followed
<1>12. CASE ~good'
  <2>1. Off /\ calm' = TRUE
    BY <1>2, <1>12 DEF as5600_track_sample
  <2>2. AngleTypes'
    <3>1. AngleFlags'
      BY <1>7, <2>1, Zenon DEF AngleFlags, Off
    <3>2. AngleCounts'
      BY <1>5, <1>7, <2>1 DEF AngleCounts, Off
    <3> QED
      BY <3>1, <3>2 DEF AngleTypes
  <2>3. PollsCounted'
    BY <1>10, <2>1 DEF PollsCounted, Off
  <2> QED
    BY <2>1, <2>2, <2>3, <1>11 DEF Off
<1>13. CASE good' /\ ~ok
  <2>1. Skip(now, turned, t) /\ calm' = FALSE
    BY <1>2, <1>4, <1>13 DEF as5600_track_sample
  <2>2. fail' = fail + 1 /\ good' /\ valid' = valid /\ jumps' = jumps /\ bad' = bad
    BY <1>7, <1>13, <2>1 DEF Skip
  <2>3. CASE valid
    <3>1. ahead' = now /\ err' = err - turned /\ elapsed' = t /\ held' = held + 1
      BY <2>1, <2>3 DEF Skip
    <3>2. AngleTypes'
      <4>1. AngleFlags'
        BY <1>4, <1>7, <2>1, <2>2, Zenon DEF AngleFlags
      <4>2. AngleCounts'
        BY <1>3, <1>4, <1>6, <1>7, <1>10, <2>2, <3>1 DEF AngleCounts
      <4> QED
        BY <4>1, <4>2 DEF AngleTypes
    <3>3. PollsCounted'
      <4>1. held' <= InARow(jumps') + fail'
        BY <1>4, <1>8, <1>10, <2>2, <2>3, <3>1
      <4>2. elapsed' <= Span(held')
        BY <1>8, <2>3, <3>1
      <4> QED
        BY <2>1, <2>2, <2>3, <4>1, <4>2 DEF PollsCounted
    <3>4. Traced(err', elapsed', ahead', bad', Unit(Polls(calm')))
      <4>1. Traced(err - turned, t, now, bad, Unit(Polls(FALSE)))
        <5> DEFINE no == FALSE
                   v == Unit(Polls(no))
        <5> HIDE DEF no
        <5>1. no \in BOOLEAN /\ (no => calm)
          BY DEF no
        <5>2. v \in Nat /\ un <= v
          BY <1>9, <5>1
        <5> HIDE DEF v
        <5>3. Traced(err - turned, elapsed + ms, (ahead + turned) % Turn, bad, v)
          <6>1. Traced(err, elapsed, ahead, bad, un)
            BY <1>8, <2>3
          <6>2. err \in Int /\ elapsed \in Nat /\ ahead \in Int /\ bad \in Nat /\ un \in Nat
            BY <1>4, <1>9, <1>10
          <6> QED
            BY <1>3, <5>2, <6>1, <6>2, LacksMore
        <5> QED
          BY <5>3 DEF t, now, v, no
      <4> QED
        BY <2>1, <2>2, <3>1, <4>1, Zenon
    <3> QED
      BY <1>11, <3>2, <3>3, <3>4
  <2>4. CASE ~valid
    <3>1. ahead' = ahead /\ err' = err /\ elapsed' = elapsed /\ held' = held
      BY <2>1, <2>4 DEF Skip
    <3>2. AngleTypes'
      BY <1>4, <1>7, <2>1, <2>2, <3>1 DEF AngleTypes, AngleFlags, AngleCounts
    <3>3. PollsCounted'
      BY <1>1, <2>1, <2>2, <2>4, <3>1 DEF PollsCounted
    <3> QED
      BY <1>11, <2>2, <2>4, <3>2, <3>3
  <2> QED
    BY <2>3, <2>4
<1>14. CASE good' /\ ok
  <2>1. /\ calm' = calm /\ bad' = IF read = "true" THEN bad ELSE bad + 1
        /\ IF ~valid THEN Rebase(now, turned, x)
           ELSE IF w > lim \/ w < -lim THEN Jump(now, turned, t, x) ELSE Move(now, turned, x)
    BY <1>2, <1>4, <1>14 DEF as5600_track_sample, w, lim
  <2>2. fail' = 0 /\ bad' \in 0..MaxBad /\ bad' \in {bad, bad + 1}
    <3>1. read # "failed"
      BY <1>14 DEF Answered
    <3> QED
      BY <1>4, <1>5, <1>7, <1>14, <2>1, <3>1
  <2>3. (now - x) % Turn = IF read = "true" THEN 0 ELSE (now - x) % Turn
    <3>1. CASE read = "true"
      <4>1. x = now
        BY <3>1 DEF x
      <4>2. now - x = 0
        BY <1>6, <4>1
      <4> DEFINE q == Turn
      <4> HIDE DEF q
      <4>3. q \in Nat \ {0}
        BY <1>5 DEF q
      <4>4. 0 % q = 0
        BY <4>3
      <4> QED
        BY <3>1, <4>2, <4>4 DEF q
    <3> QED
      BY <3>1
  <2>4. ASSUME valid' = TRUE, jumps' = 0, elapsed' = 0, held' = 0, ahead' = (now - x) % Turn, err' \in Int,
               Traced(err', 0, (now - x) % Turn, bad', un)
        PROVE  AngleTypes' /\ PollsCounted' /\ Followed'
    <3>1. AngleTypes'
      BY <1>4, <1>5, <1>6, <1>7, <2>1, <2>2, <2>4 DEF AngleTypes, AngleFlags, AngleCounts
    <3>2. PollsCounted'
      BY <1>10, <1>14, <2>2, <2>4 DEF PollsCounted
    <3>3. Traced(err', elapsed', ahead', bad', Unit(Polls(calm')))
      BY <2>1, <2>4, Zenon DEF un
    <3> QED
      BY <1>11, <3>1, <3>2, <3>3
  <2>5. CASE ~valid
    <3>1. Rebase(now, turned, x) /\ bad = 0 /\ err' = 0
      BY <1>1, <2>1, <2>5 DEF PollsCounted, Rebase
    <3>2. Traced(0, 0, (now - x) % Turn, bad', un)
      <4>1. CASE read = "true"
        <5>1. bad' = 0 /\ (now - x) % Turn = 0
          BY <2>1, <2>3, <3>1, <4>1
        <5>2. Traced(0, 0, 0, 0, un)
          BY <1>9, FirstBaseline
        <5> QED
          BY <5>1, <5>2, Zenon
      <4>2. CASE read # "true"
        <5>1. bad' = 1
          BY <2>1, <3>1, <4>2
        <5>2. Traced(0, 0, (now - x) % Turn, 1, un)
          BY <1>9, FirstBaseline
        <5> QED
          BY <5>1, <5>2, Zenon
      <4> QED
        BY <4>1, <4>2
    <3> QED
      BY <2>4, <3>1, <3>2 DEF Rebase
  <2>6. CASE valid /\ (w > lim \/ w < -lim) /\ jumps + 1 # JumpRebase
    <3>1. /\ jumps' = jumps + 1 /\ valid' = valid /\ ahead' = now /\ err' = err - turned
          /\ elapsed' = t /\ held' = held + 1
      BY <2>1, <2>6 DEF Jump
    <3>2. AngleTypes'
      BY <1>3, <1>4, <1>5, <1>6, <1>7, <1>10, <2>1, <2>2, <2>6, <3>1 DEF AngleTypes, AngleFlags, AngleCounts
    <3>3. PollsCounted'
      <4>1. held' <= InARow(jumps') + fail' /\ (calm' => held' = jumps')
        <5>1. fail < FailTrip
          BY <1>1, <1>8, <2>6 DEF GateHolds
        <5> QED
          BY <1>4, <1>5, <1>8, <1>10, <2>1, <2>2, <2>6, <3>1, <5>1
      <4>2. elapsed' <= Span(held')
        BY <1>8, <2>6, <3>1
      <4> QED
        BY <1>14, <2>2, <2>6, <3>1, <4>1, <4>2 DEF PollsCounted
    <3>4. Traced(err', elapsed', ahead', bad', Unit(Polls(calm')))
      <4>1. ASSUME NEW k \in {bad, bad + 1} PROVE Traced(err - turned, t, now, k, un)
        <5>1. Traced(err - turned, elapsed + ms, (ahead + turned) % Turn, k, un)
          <6>1. Traced(err, elapsed, ahead, bad, un)
            BY <1>8, <2>6
          <6>2. err \in Int /\ elapsed \in Nat /\ ahead \in Int /\ bad \in Nat /\ un \in Nat /\ un <= un
            BY <1>4, <1>9, <1>10
          <6>3. /\ Traced(err - turned, elapsed + ms, (ahead + turned) % Turn, bad, un)
                /\ Traced(err - turned, elapsed + ms, (ahead + turned) % Turn, bad + 1, un)
            <7> DEFINE old == bad
            <7> HIDE DEF old
            <7>1. old \in Nat /\ Traced(err, elapsed, ahead, old, un)
              BY <6>1, <6>2 DEF old
            <7>2. /\ Traced(err - turned, elapsed + ms, (ahead + turned) % Turn, old, un)
                  /\ Traced(err - turned, elapsed + ms, (ahead + turned) % Turn, old + 1, un)
              BY <1>3, <6>2, <7>1, LacksMore
            <7> QED
              BY <7>2 DEF old
          <6> QED
            BY <6>3
        <5> QED
          BY <5>1 DEF t, now
      <4>2. Traced(err - turned, t, now, bad', un)
        BY <2>2, <4>1
      <4> QED
        BY <2>1, <3>1, <4>2, Zenon DEF un
    <3> QED
      BY <1>11, <3>2, <3>3, <3>4
  <2>7. CASE valid /\ ((w > lim \/ w < -lim) => jumps + 1 = JumpRebase)
    <3>1. /\ valid' = TRUE /\ jumps' = 0 /\ elapsed' = 0 /\ held' = 0 /\ ahead' = (now - x) % Turn
          /\ err' = IF w > lim \/ w < -lim THEN err - turned ELSE err - turned + w
      BY <2>1, <2>7 DEF Jump, Rebase, Move, w
    <3>2. Step(t) <= un /\ Drift(t) < Half /\ Traced(err, elapsed, ahead, bad, un)
      BY <1>8, <2>7
    <3>3. err \in Int /\ elapsed \in Nat /\ ahead \in Int /\ bad \in Nat /\ un \in Nat /\ w \in Int
      BY <1>4, <1>6, <1>9, <1>10
    <3>4. /\ w > lim \/ w < -lim => Traced(err - turned, 0, (now - x) % Turn, bad', un)
          /\ ~(w > lim \/ w < -lim) => Traced(err - turned + w, 0, (now - x) % Turn, bad', un)
      <4>1. CASE read = "true"
        <5>1. bad' = bad /\ (now - x) % Turn = 0
          BY <2>1, <2>3, <4>1
        <5>2. /\ w > lim \/ w < -lim => Traced(err - turned, 0, 0, bad, un)
              /\ ~(w > lim \/ w < -lim) => Traced(err - turned + w, 0, 0, bad, un)
          <6>1. t = elapsed + ms /\ x = (ahead + turned) % Turn /\ lim = as5600_max_step(t) /\ w = as5600_angle_diff(x)
            BY <4>1 DEF t, x, now, lim, w
          <6> QED
            BY <1>3, <3>2, <3>3, <6>1, TrueBaseline
        <5> QED
          BY <5>1, <5>2
      <4>2. CASE read # "true"
        <5>1. bad' = bad + 1
          BY <2>1, <4>2
        <5>2. /\ Traced(err - turned, 0, (now - x) % Turn, bad + 1, un)
              /\ ~(w > lim \/ w < -lim) => Traced(err - turned + w, 0, (now - x) % Turn, bad + 1, un)
          <6>1. t = elapsed + ms /\ lim = as5600_max_step(t)
            BY DEF t, lim
          <6> QED
            BY <1>3, <3>2, <3>3, <6>1, BadBaseline
        <5> QED
          BY <5>1, <5>2
      <4> QED
        BY <4>1, <4>2
    <3>5. Traced(err', 0, (now - x) % Turn, bad', un)
      BY <3>1, <3>4
    <3>6. err' \in Int
      BY <1>3, <1>4, <1>6, <3>1
    <3> QED
      BY <2>4, <3>1, <3>5, <3>6
  <2> QED
    BY <2>5, <2>6, <2>7
<1> QED
  BY <1>12, <1>13, <1>14

LEMMA AngleInvStarts == AngleInit => AngleInv
<1> SUFFICES ASSUME AngleInit PROVE AngleInv
  OBVIOUS
<1>1. /\ Half \in Nat \ {0} /\ FailTrip \in Nat \ {0} /\ OkRecover \in Nat \ {0} /\ JumpRebase \in Nat \ {0}
      /\ MaxBad \in Nat /\ Turn \in Nat \ {0} /\ Span(0) = 0 /\ InARow(0) = 0
  BY AngleNumbers, SpansAre, RowsAre
<1>2. AngleTypes
  <2>1. AngleFlags
    BY Zenon DEF AngleInit, AngleFlags
  <2>2. AngleCounts
    <3>1. CASE good
      BY <1>1, <3>1 DEF AngleInit, AngleCounts
    <3>2. CASE ~good
      BY <1>1, <3>2 DEF AngleInit, AngleCounts
    <3> QED
      BY <3>1, <3>2
  <2> QED
    BY <2>1, <2>2 DEF AngleTypes
<1>3. GateHolds
  BY <1>1 DEF AngleInit, GateHolds
<1>4. PollsCounted
  BY <1>1 DEF AngleInit, PollsCounted
<1>5. Followed
  BY DEF AngleInit, Followed
<1> QED
  BY <1>2, <1>3, <1>4, <1>5 DEF AngleInv

LEMMA AngleInvStays == AngleInv /\ [AngleNext]_angleVars => AngleInv'
<1> SUFFICES ASSUME AngleInv, [AngleNext]_angleVars PROVE AngleInv'
  OBVIOUS
<1>1. CASE AngleNext
  <2>0. PICK ms \in Gaps : \E turned \in -(Speed * ms)..(Speed * ms) :
          \/ AS5600_distance_updata(ms, turned, "true", 0)
          \/ AS5600_distance_updata(ms, turned, "failed", 0)
          \/ bad < MaxBad /\ \E garbage \in 0..(Turn - 1) : AS5600_distance_updata(ms, turned, "bad", garbage)
    BY <1>1, Zenon DEF AngleNext
  <2>1. PICK turned \in -(Speed * ms)..(Speed * ms) :
          \/ AS5600_distance_updata(ms, turned, "true", 0)
          \/ AS5600_distance_updata(ms, turned, "failed", 0)
          \/ bad < MaxBad /\ \E garbage \in 0..(Turn - 1) : AS5600_distance_updata(ms, turned, "bad", garbage)
    BY <2>0, Zenon
  <2>2. 0 \in 0..(Turn - 1)
    BY AngleNumbers
  <2>3. /\ ms \in Nat /\ ms <= LongestGap /\ turned \in Int
        /\ -Drift(ms) <= turned /\ turned <= Drift(ms)
    <3>1. ms \in Nat /\ ms <= LongestGap
      BY LongestGapIs
    <3>2. Drift(ms) \in Nat /\ Drift(ms) = Speed * ms
      BY <3>1, DriftsAre DEF Drift
    <3>3. ASSUME NEW k \in Nat, NEW n \in -k..k PROVE n \in Int /\ -k <= n /\ n <= k
      OBVIOUS
    <3> QED
      BY <3>1, <3>2, <3>3
  <2>4. CASE AS5600_distance_updata(ms, turned, "true", 0)
    BY <2>2, <2>3, <2>4, PollKeeps
  <2>5. CASE AS5600_distance_updata(ms, turned, "failed", 0)
    BY <2>2, <2>3, <2>5, PollKeeps
  <2>6. CASE bad < MaxBad /\ \E garbage \in 0..(Turn - 1) : AS5600_distance_updata(ms, turned, "bad", garbage)
    BY <2>3, <2>6, PollKeeps
  <2> QED
    BY <2>1, <2>4, <2>5, <2>6
<1>2. CASE UNCHANGED angleVars
  BY <1>2 DEF angleVars, gate, track, AngleInv, AngleTypes, AngleFlags, AngleCounts, GateHolds, PollsCounted, Followed
<1> QED
  BY <1>1, <1>2

LEMMA AngleInvShows == AngleInv => AnglesAreTrue
<1> SUFFICES ASSUME AngleInv PROVE AnglesAreTrue
  OBVIOUS
<1> DEFINE p == Polls(calm)
           ms == Span(p)
           un == Unit(p)
<1>1. AngleTypes /\ GateHolds /\ PollsCounted /\ Followed
  BY DEF AngleInv
<1>2. /\ good \in BOOLEAN /\ fail \in 0..FailTrip /\ okstreak \in 0..OkRecover
      /\ valid \in BOOLEAN /\ calm \in BOOLEAN /\ jumps \in Nat /\ jumps < JumpRebase
      /\ held \in Nat /\ elapsed \in Nat /\ ahead \in 0..(Turn - 1) /\ err \in Int /\ bad \in 0..MaxBad
  BY <1>1 DEF AngleTypes, AngleFlags, AngleCounts
<1>3. MostHeld \in Nat /\ JumpRebase \in Nat /\ LongestGap \in Nat /\ Half \in Nat /\ p \in Nat /\ p <= MostHeld + 1
  BY <1>2, AngleNumbers, LongestGapIs, PollsAre
<1>4. held <= MostHeld /\ (valid /\ calm => held < JumpRebase) /\ (valid => Drift(elapsed) < Half)
  <2>1. CASE valid
    <3>1. held <= MostHeld /\ (calm => held < JumpRebase) /\ Drift(elapsed + 0) < Half
      BY <1>1, <1>3, <2>1, PollTime
    <3> QED
      BY <1>2, <3>1
  <2>2. CASE ~valid
    BY <1>1, <1>3, <2>2 DEF PollsCounted
  <2> QED
    BY <2>1, <2>2
<1>5. elapsed <= Span(held)
  BY <1>1 DEF PollsCounted
<1>6. AngleTypeOK
  <2>1. elapsed <= (MostHeld + 1) * LongestGap
    <3>1. MostHeld + 1 \in Nat /\ held <= MostHeld + 1
      BY <1>2, <1>3, <1>4
    <3>2. Span(held) <= Span(MostHeld + 1) /\ Span(held) \in Nat /\ Span(MostHeld + 1) \in Nat
      BY <1>2, <3>1, SpansAre
    <3>3. elapsed <= Span(MostHeld + 1)
      BY <1>2, <1>5, <3>2
    <3> QED
      BY <3>3 DEF Span
  <2> DEFINE far == (MostHeld + 1) * LongestGap
  <2>2. far \in Nat
    <3>1. MostHeld + 1 \in Nat
      BY <1>3
    <3>2. Span(MostHeld + 1) \in Nat
      BY <3>1, SpansAre
    <3> QED
      BY <3>2 DEF Span
  <2> HIDE DEF far
  <2>3. elapsed \in 0..far
    BY <1>2, <2>1, <2>2 DEF far
  <2>4. jumps \in 0..(JumpRebase - 1)
    BY <1>2, <1>3
  <2> QED
    BY <1>2, <2>3, <2>4, Zenon DEF AngleTypeOK, far
<1>7. SpeedHeldBriefly
  BY <1>4 DEF SpeedHeldBriefly
<1>8. un \in Nat /\ ms \in Nat /\ Drift(ms) \in Nat /\ bad \in Nat
  <2>1. bad \in Nat
    BY <1>2, AngleNumbers
  <2> QED
    BY <1>3, <2>1, UnitsAre
<1>9. FailedReadsCostNothing
  <2> SUFFICES ASSUME valid, bad = 0 PROVE err = -as5600_angle_diff(ahead)
    BY DEF FailedReadsCostNothing
  <2>1. PICK d \in Int, e \in Int : Lacks(err, elapsed, ahead, bad, un, d, e)
    BY <1>1, Zenon DEF Followed, Traced
  <2>2. Due(bad, un) = 0
    BY <1>8, DuesAre
  <2>3. err = e - d /\ -Drift(elapsed) <= d /\ d <= Drift(elapsed) /\ ahead = d % Turn /\ e = 0
    BY <2>1, <2>2 DEF Lacks
  <2>4. Drift(elapsed) \in Nat /\ Drift(elapsed) < Half
    BY <1>2, <1>4, DriftsAre
  <2>5. -Half < d /\ d < Half
    BY <1>3, <2>3, <2>4
  <2>6. as5600_angle_diff(ahead) = d
    BY <2>3, <2>5, ShortWay
  <2> QED
    BY <2>3, <2>6
<1>10. BadReadsCostLittle
  <2> DEFINE cost == Due(bad, un) + Drift(ms)
  <2>1. ASSUME valid PROVE err <= cost /\ -cost <= err
    <3>1. PICK d \in Int, e \in Int : Lacks(err, elapsed, ahead, bad, un, d, e)
      BY <1>1, <2>1, Zenon DEF Followed, Traced
    <3>2. Due(bad, un) \in Nat
      BY <1>8, DuesAre
    <3>3. err = e - d /\ -Drift(elapsed) <= d /\ d <= Drift(elapsed) /\ -Due(bad, un) <= e /\ e <= Due(bad, un)
      BY <1>8, <3>1, <3>2 DEF Lacks
    <3>4. held <= p
      BY <1>2, <1>3, <1>4, <2>1 DEF Polls
    <3>5. elapsed <= ms
      <4>1. Span(held) <= ms /\ Span(held) \in Nat
        BY <1>2, <1>3, <3>4, SpansAre
      <4> QED
        BY <1>2, <1>5, <1>8, <4>1
    <3>6. Drift(elapsed) <= Drift(ms) /\ Drift(elapsed) \in Nat
      BY <1>2, <1>8, <3>5, DriftsAre
    <3> QED
      BY <1>8, <3>2, <3>3, <3>6
  <2>2. /\ LongestGap * (IF calm THEN JumpRebase ELSE MostHeld + 1) = ms
        /\ cost = 2 * bad * ((PerMs + Speed) * ms) + Speed * ms
    <3>1. LongestGap * p = p * LongestGap
      BY <1>3, SMTT(30)
    <3> QED
      BY <3>1, Zenon DEF Polls, Span, Due, Unit, Step, Drift
  <2> HIDE DEF ms, cost
  <2> QED
    BY <2>1, <2>2 DEF BadReadsCostLittle
<1> QED
  BY <1>6, <1>7, <1>9, <1>10 DEF AnglesAreTrue

\* Whatever mix of failed, late and corrupted reads comes, the odometer lacks no more than the turn
\* since the last accepted read and two bounded steps per corrupted one, and no speed is kept long.
THEOREM AnglesAlwaysTrue == AngleSpec => []AnglesAreTrue
<1>1. AngleInit => AngleInv
  BY AngleInvStarts
<1>2. AngleInv /\ [AngleNext]_angleVars => AngleInv'
  BY AngleInvStays
<1>3. AngleInv => AnglesAreTrue
  BY AngleInvShows
<1> QED
  BY <1>1, <1>2, <1>3, PTL DEF AngleSpec
=============================================================================
