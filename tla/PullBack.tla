------------------------------ MODULE PullBack ------------------------------
(***************************************************************************)
(* The unload of one channel: the pull back the printer asks for, and the  *)
(* redetect push after it (motor_motion_filamnet_pull_back_to_online_key,  *)
(* the pull_back of motor_motion_switch, and what motor_motion_run does    *)
(* before and after them), with their limits.                              *)
(*                                                                         *)
(* A pass comes a time after the one before, in which the gear may have    *)
(* turned; it has a key reading, which is a new publication of the ADC or  *)
(* the last one again.  drive is the PWM since the last pass; after a      *)
(* stale pass, a sensor fault or an offline pass it is "none".             *)
(***************************************************************************)
EXTENDS MotionLimits

CONSTANTS PullTicks, PullMoves,     \* times between passes and turns of the gear in them
          Targets,          \* lengths of a pull back: the normal one and that of a jam
          PullMs,           \* ml_time_budget_ms of the pull back
          RedetectMs, RedetectCnt,
          Publications      \* kKeyEmptyPublications

ASSUME PullAssumption ==
  /\ PullTicks \subseteq Nat \ {0} /\ PullMoves \subseteq 0..(Counts - 1) /\ Targets \subseteq 1..(Counts \div 2)
  /\ PullMs \in Nat \ {0} /\ RedetectMs \in Nat \ {0} /\ RedetectCnt \in Nat \ {0}
  /\ Publications \in Nat \ {0}

VARIABLES pos,     \* filament_now_position
          asked,   \* the printer's motion of the active channel is pull_back
          online,  \* MC_ONLINE_key_stu # 0
          empty,   \* g_key_empty
          guard,   \* pb_guard
          target, dist,  \* filament_pull_back_target, distance from filament_pull_back_cnt
          drive,   \* "high": 800 PWM or more; "low"; "none"
          fault,   \* pb_unload_fault
          calibrated, \* MC_PULL_calibration_is_valid, decided at boot
          traced   \* history: see below

pullVars == <<pos, asked, online, empty, guard, target, dist, drive, fault, calibrated, traced>>

NoGuard == motion_guard_start(0, 0)

Untraced == [ran |-> 0, held |-> 0, away |-> 0, nones |-> 0, reached |-> FALSE, earned |-> FALSE]

PullInit ==
  /\ pos = "idle" /\ asked = FALSE /\ online \in BOOLEAN /\ empty = 0
  /\ guard = NoGuard /\ target = 0 /\ dist = 0 /\ drive = "none" /\ fault = FALSE /\ calibrated \in BOOLEAN
  /\ traced = Untraced

(* Mutant: the same publication is counted again on every pass. *)
CountedPasses(k, fresh) ==
  IF k \/ pos # "pulling" THEN 0 ELSE IF empty < Publications THEN empty + 1 ELSE empty

(* How many publications in a row have read the switches empty. *)
Counted(k, fresh) ==
  IF k \/ pos # "pulling" THEN 0 ELSE IF fresh /\ empty < Publications THEN empty + 1 ELSE empty

(* ml_pull_back_check *)
PullEnd(g, moved, e) ==
  IF moved >= target THEN "target" ELSE IF e >= Publications THEN "empty" ELSE GuardResult(g)

(* ml_redetect_check *)
RedetectEnd(g, k) == IF k THEN "key" ELSE GuardResult(g)

(* ml_unload_fault_kept, with what the retraction itself set *)
FaultAfter(f, k, p) == ml_unload_fault_kept(f, IF k THEN 1 ELSE 0, p = "pulling")

(* What the histories make of a pass after a time d in which the gear       *)
(* turned by move: how long it has been driven; how long driven hard while  *)
(* it got nowhere, and how far it was away then; passes over StepMax apart  *)
(* left out.                                                                *)
Ran(d) == IF guard.since + d > StepMax THEN traced.ran ELSE Later(traced.ran, guard.since + d, PullMs + RedetectMs)

Strays(move) == (traced.away + move) % Counts
GetsOn(d, move) == drive # "high" \/ guard.since + d > StepMax \/ ml_cnt_dist(Strays(move)) >= StallMove
Held(d, move) == IF GetsOn(d, move) THEN 0 ELSE Later(traced.held, d, StallMs + StepMax)
Away(d, move) == IF GetsOn(d, move) THEN 0 ELSE Strays(move)
Nones(k, fresh) == IF k THEN 0 ELSE IF fresh THEN Later(traced.nones, 1, Publications) ELSE traced.nones

-----------------------------------------------------------------------------
(* The pull back of motor_motion_switch; it runs in the same pass.          *)
StartPull(k, d) ==
  /\ pos = "idle" /\ asked /\ k
  /\ IF calibrated
     THEN /\ pos' = "pulling" /\ asked' = asked
          /\ target' \in Targets /\ dist' = 0 /\ empty' = 0
          /\ guard' = motion_guard_start(PullMs, 0)
          /\ drive' \in {"low", "none"}
          /\ fault' = FALSE
     ELSE /\ asked' = FALSE /\ fault' = TRUE /\ drive' = "none" /\ empty' = 0
          /\ UNCHANGED <<pos, target, dist, guard>>
  /\ traced' = Untraced

(* One pass of the pull back. brakes: the motor stays off after this pass.  *)
PullPass(k, fresh, d, move, brakes) ==
  LET g     == motion_guard_check_at(GuardLater(guard, d, move), drive = "high")
      moved == ml_cnt_dist((dist + move) % Counts)
      e     == Counted(k, fresh)
      end   == PullEnd(g, moved, e)
  IN /\ pos = "pulling"
     /\ IF end = "ok"
        THEN /\ guard' = g /\ dist' = (dist + move) % Counts /\ empty' = e
             /\ drive' \in IF brakes THEN {"none"} ELSE {"low", "high"}
             /\ UNCHANGED <<pos, target>>
             /\ fault' = FALSE
        ELSE /\ pos' = "redetect" /\ guard' = motion_guard_start(RedetectMs, RedetectCnt)
             /\ target' = 0 /\ dist' = 0 /\ drive' = "none" /\ empty' = e
             /\ fault' = FaultAfter(ml_is_limit(end), k, "redetect")
     /\ traced' = [ran |-> IF end = "ok" THEN Ran(d) ELSE 0,
                 held |-> IF end = "ok" THEN Held(d, move) ELSE 0,
                 away |-> IF end = "ok" THEN Away(d, move) ELSE 0,
                 nones |-> Nones(k, fresh), reached |-> moved >= target,
                 earned |-> Ran(d) >= PullMs \/ Held(d, move) >= StallMs]
     /\ asked' = asked

(* One pass of the redetect push; its end also ends the printer's command.  *)
RedetectPass(k, d, move, brakes) ==
  LET g   == motion_guard_check_at(GuardLater(guard, d, move), drive = "high")
      end == RedetectEnd(g, k)
  IN /\ pos = "redetect"
     /\ IF end = "ok"
        THEN /\ guard' = g /\ drive' = (IF brakes THEN "none" ELSE "high")
             /\ UNCHANGED <<pos, asked>>
        ELSE /\ pos' = "idle" /\ asked' = FALSE /\ guard' = NoGuard /\ drive' = "none"
     /\ fault' = FaultAfter(fault, k, "redetect")
     /\ empty' = 0
     /\ traced' = [ran |-> Ran(d), held |-> Held(d, move), away |-> Away(d, move), nones |-> 0,
                 reached |-> FALSE, earned |-> FALSE]
     /\ UNCHANGED <<target, dist>>

IdlePass(k) ==
  /\ pos = "idle" /\ ~(asked /\ k)
  /\ drive' = "none" /\ empty' = 0
  /\ fault' = FaultAfter(fault, k, "idle")
  /\ UNCHANGED <<pos, asked, guard, target, dist, traced>>

(* No host: the motor is braked and no limit is looked at. *)
OfflinePass(k, fresh, d, move) ==
  /\ drive' = "none" /\ empty' = Counted(k, fresh)
  /\ fault' = FaultAfter(fault, k, pos)
  /\ guard' = IF pos = "idle" THEN guard ELSE GuardLater(guard, d, move)
  /\ dist' = IF pos = "pulling" THEN (dist + move) % Counts ELSE dist
  /\ traced' = [traced EXCEPT !.held = 0, !.away = 0, !.nones = IF pos = "pulling" THEN Nones(k, fresh) ELSE 0]
  /\ UNCHANGED <<pos, asked, target>>

(* The key a pass reads: a new publication reads anything, an old one again    *)
(* what it read.                                                            *)
KeyRead(k, fresh) == online' = k /\ (fresh \/ k = online) /\ calibrated' = calibrated

GearTurns == IF drive = "none" THEN {0} ELSE PullMoves

UnloadPass(d, move, k, fresh, brakes) ==
  /\ KeyRead(k, fresh)
  /\ \/ StartPull(k, d) \/ IdlePass(k)
     \/ PullPass(k, fresh, d, move, brakes) \/ RedetectPass(k, d, move, brakes)

Passes(Durations) ==
  \E d \in Durations, move \in GearTurns, k \in BOOLEAN, fresh \in BOOLEAN, brakes \in BOOLEAN :
    UnloadPass(d, move, k, fresh, brakes)

(* A pass that no limit leaves out as a gap. *)
TimelyPass == Passes({d \in PullTicks : guard.since + d <= StepMax})

(* The printer gives another command, at any time. *)
Printer ==
  /\ asked' = ~asked
  /\ UNCHANGED <<pos, online, empty, guard, target, dist, drive, fault, traced, calibrated>>

PullNext ==
  \/ Passes(PullTicks)
  \/ Printer
  \/ \E d \in PullTicks, move \in GearTurns, k \in BOOLEAN, fresh \in BOOLEAN :
       KeyRead(k, fresh) /\ OfflinePass(k, fresh, d, move)

PullSpec == PullInit /\ [][PullNext]_pullVars

(* Passes with a host never stop, and again and again one comes in time. *)
PullFairness == WF_pullVars(Passes(PullTicks)) /\ SF_pullVars(TimelyPass)

PullFairSpec == PullSpec /\ PullFairness
-----------------------------------------------------------------------------
PullTypeOK ==
  /\ pos \in {"idle", "pulling", "redetect"} /\ asked \in BOOLEAN /\ online \in BOOLEAN
  /\ empty \in 0..Publications /\ drive \in {"none", "low", "high"} /\ fault \in BOOLEAN
  /\ pos = "pulling" => calibrated
  /\ guard \in Guards(PullMs, 0) \cup Guards(RedetectMs, RedetectCnt) \cup Guards(0, 0)
  /\ target \in Targets \cup {0} /\ dist \in 0..(Counts - 1)
  /\ traced \in [ran : 0..(PullMs + RedetectMs), held : 0..(StallMs + StepMax), away : 0..(Counts - 1),
                nones : 0..Publications, reached : BOOLEAN, earned : BOOLEAN]

(* A gear that is driven hard and does not turn is found within the stall   *)
(* time, and no retraction is driven past its time: what keeps running is   *)
(* within both.                                                             *)
BlockedIsFound == pos # "idle" => traced.held < StallMs

DrivenInTime ==
  /\ pos = "pulling" => traced.ran < PullMs
  /\ pos = "redetect" => traced.ran < RedetectMs

(* A pull back ends only for its target, a limit that was really reached,   *)
(* or so many new publications in a row that read the switches empty: a     *)
(* late pass or a repeated reading ends nothing.                            *)
EveryEndIsEarned ==
  [][pos = "pulling" /\ pos' = "redetect" =>
       traced'.reached \/ traced'.earned \/ traced'.nones >= Publications]_pullVars

(* An unload shows its fault exactly if it left the filament at the         *)
(* switches short of its target.                                            *)
FaultIffUnfinished ==
  [][pos = "pulling" /\ pos' = "redetect" => (fault' <=> online' /\ ~traced'.reached)]_pullVars

(* An unload drives within its limits, ends on what was really read, and    *)
(* says what it left.                                                       *)
UnloadsEndTrue ==
  /\ [](PullTypeOK /\ BlockedIsFound /\ DrivenInTime)
  /\ EveryEndIsEarned /\ FaultIffUnfinished

(* Every unload ends, whatever the key, the printer and the gear do and     *)
(* however often passes come late or without a host.                        *)
UnloadEnds == pos = "pulling" ~> pos = "idle"
=============================================================================
