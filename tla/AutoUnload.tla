----------------------------- MODULE AutoUnload -----------------------------
(***************************************************************************)
(* The retracts a person starts by lifting the buffer (auto_unload.h): the *)
(* auto-unload and the manual empty pull of one channel.                   *)
(*                                                                         *)
(* arm, active and empty are the ages of arm_t0_ms, active_t0_ms and       *)
(* empty_t0_ms; Never is the cleared flag.                                 *)
(***************************************************************************)
EXTENDS MotionLimits

CONSTANTS StartPct, NeutralLoPct, NeutralHiPct, AbortPct,  \* AUTO_UNLOAD_..._PCT
          ArmMs, MaxMs, EmptyMs                            \* AUTO_UNLOAD_..._MS

ASSUME AutoUnloadAssumption ==
  /\ AbortPct \in Nat /\ NeutralLoPct \in Nat /\ NeutralHiPct \in Nat /\ StartPct \in Nat
  /\ AbortPct < NeutralLoPct /\ NeutralLoPct < NeutralHiPct /\ NeutralHiPct < StartPct
  /\ ArmMs \in Nat \ {0} /\ MaxMs \in Nat \ {0} /\ EmptyMs \in Nat \ {0}

AutoUnloads ==
  [arm : {Never} \cup 0..(ArmMs + 1), active : {Never} \cup 0..MaxMs,
   empty : {Never} \cup 0..EmptyMs, blocked : BOOLEAN, waitLow : BOOLEAN,
   limit : BOOLEAN, guard : Guards(0, 0)]

NoAutoUnload ==
  [arm |-> Never, active |-> Never, empty |-> Never, blocked |-> FALSE, waitLow |-> FALSE,
   limit |-> FALSE, guard |-> motion_guard_start(0, 0)]

Unloading(a) == a.active # Never

(* The guard is read only while an auto-unload runs. *)
AutoUnloadLater(a, d, move) ==
  [a EXCEPT !.arm    = Later(@, d, ArmMs + 1),
            !.active = Later(@, d, MaxMs),
            !.empty  = Later(@, d, EmptyMs),
            !.guard  = IF Unloading(a) THEN GuardLater(@, d, move) ELSE motion_guard_start(0, 0)]

auto_unload_reset(a) == [NoAutoUnload EXCEPT !.waitLow = a.waitLow]

(* Mutant: only the lift under way is forgotten. *)
HoldForgetsLift(a) == [a EXCEPT !.arm = Never]

auto_unload_hold(a) == [a EXCEPT !.waitLow = TRUE, !.arm = Never]

Neutral(pct) == NeutralLoPct < pct /\ pct < NeutralHiPct

Lifted(a, pct) ==
  IF pct < StartPct THEN a
  ELSE [a EXCEPT !.blocked = FALSE,
                 !.arm = IF @ = Never /\ ~Unloading(a) /\ ~a.waitLow THEN 0 ELSE @]

LetGo(a, pct) ==
  IF a.arm = Never \/ Unloading(a) THEN a
  ELSE IF Neutral(pct)
  THEN IF ~a.blocked /\ a.arm <= ArmMs
       THEN [a EXCEPT !.arm = Never, !.active = 0, !.empty = Never, !.blocked = TRUE,
                      !.guard = motion_guard_start(0, 0)]
       ELSE [a EXCEPT !.arm = Never]
  ELSE IF a.arm > ArmMs THEN [a EXCEPT !.arm = Never] ELSE a

(* Its own end, and whether the key has just left 'both'. *)
OwnEnd(a, pct, ks) ==
  \/ pct < AbortPct
  \/ ks = 1 /\ a.active = MaxMs
  \/ ks # 1 /\ a.empty = EmptyMs

EmptySince(a, pct, ks) ==
  IF pct < AbortPct THEN a.empty ELSE IF ks = 1 THEN Never ELSE IF a.empty = Never THEN 0 ELSE a.empty

Stopped(a, limit) ==
  [a EXCEPT !.active = Never, !.empty = Never, !.blocked = TRUE, !.limit = limit,
            !.guard = motion_guard_start(0, 0)]

(* Mutant: only the unloaded filament ends it, not its time. *)
RetractedUntilEmpty(a, pct, ks, high) ==
  IF ~Unloading(a) THEN a
  ELSE IF pct < AbortPct \/ (ks # 1 /\ a.empty = EmptyMs) THEN Stopped(a, FALSE)
  ELSE [a EXCEPT !.empty = EmptySince(a, pct, ks)]

Retracted(a, pct, ks, high) ==
  IF ~Unloading(a) THEN a
  ELSE IF OwnEnd(a, pct, ks) THEN Stopped(a, FALSE)
  ELSE LET checked == motion_guard_check_at(a.guard, high)
       IN IF GuardTripped(checked) THEN Stopped(a, TRUE)
          ELSE [a EXCEPT !.empty = EmptySince(a, pct, ks), !.guard = checked]

(* auto_unload_pass; high: the channel was driven with 800 PWM or more. *)
auto_unload_pass(a, online, inserted, idleCtrl, pct, ks, high) ==
  LET seen == [a EXCEPT !.waitLow = @ /\ pct >= NeutralHiPct, !.limit = FALSE]
  IN IF ~online \/ ~inserted \/ (~Unloading(seen) /\ ~idleCtrl)
     THEN auto_unload_reset(seen)
     ELSE Retracted(LetGo(Lifted(seen, pct), pct), pct, ks, high)

(* What motor_motion_run then drives. *)
AutoUnloadDrive(a, online, inserted, pct, ks) ==
  IF ~online THEN "none"
  ELSE IF Unloading(a) THEN "unload"
  ELSE IF inserted /\ ks = 0 /\ pct > StartPct THEN "empty_pull" ELSE "none"
=============================================================================
