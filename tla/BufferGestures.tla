---------------------------- MODULE BufferGestures ----------------------------
(***************************************************************************)
(* What a hand at the buffers may ask for: a press of 5 s on empty channels *)
(* clears the calibration and restarts (Motion_control_run,                 *)
(* calibration_reset_and_reboot), and on boards with two switches a short   *)
(* press pretends a filament at the outer one, so that the autoload takes   *)
(* what is put in (the gesture block of MC_PULL_ONLINE_read).               *)
(*                                                                         *)
(* The hand, the switches and the stream of readings go their own way from  *)
(* tick to tick; a pass of the main loop sees the last readings, which may  *)
(* be old.                                                                  *)
(***************************************************************************)
EXTENDS Integers, FiniteSets

CONSTANTS
  Channels,    \* the inserted ones, numbers
  Calibrated,  \* those with a valid calibration
  Hands,       \* where a hand may put a buffer
  Keys,        \* what the switches may read: 0 none, 1 both, 2 the outer, 3 the inner
  Hold,        \* MC_PULL_CAL_RESET_HOLD_MS
  Settle,      \* T100
  Return,      \* T2000
  Load,        \* T5500
  Stale,       \* ADC_STREAM_STALE_MS
  MaxGap       \* bound: ticks between two passes

ASSUME GestureAssumption ==
  /\ Channels \subseteq Nat /\ IsFiniteSet(Channels) /\ Calibrated \subseteq Channels
  /\ Hands \subseteq {"down", "low", "pulled", "rest", "off"} /\ "rest" \in Hands
  /\ Keys \subseteq 0..3 /\ 0 \in Keys
  /\ {Hold, Settle, Return, Load, Stale, MaxGap} \subseteq Nat
  /\ Settle < Return

VARIABLES world,  \* hand and switches of each channel
          shown,  \* the readings of them
          age,    \* of the readings
          gap,    \* ticks since the last pass
          gst,    \* gst_step, gst_t0_ticks, gst_active, gst_act_t0_ticks
          key,    \* MC_ONLINE_key_stu
          latch,  \* dm_fail_latch, as seen here
          hold,   \* g_hold_ch, g_hold_t0_ticks
          at,     \* what the firmware is doing
          bus,    \* bus_started
          hist    \* history: see below

vars == <<world, shown, age, gap, gst, key, latch, hold, at, bus, hist>>

None == -1
OldAge == Stale + 1
Capped(n, most) == IF n < most THEN n + 1 ELSE most

(* down: below 10 %, low: to 15 %, pulled: more, but still 100 mV below the *)
(* centre, rest: 45 to 55 %.                                                *)
Pressed(x) == x.hand \in {"down", "low", "pulled"}
Empty(x) == \A c \in Channels : x[c].key = 0

Idle == [step |-> 0, t0 |-> 0, active |-> FALSE, since |-> 0]
NoHold == [ch |-> None, t |-> 0]

(* hist: how long the held channel has been let go or a switch closed, the  *)
(* longest such time of this hold, and its length; ticks since a channel    *)
(* was last read down.                                                      *)
LooseMost == Stale + MaxGap
Clean == [loose |-> 0, most |-> 0, span |-> 0, down |-> [c \in Channels |-> Return + 1]]

Init ==
  /\ world = [c \in Channels |-> [hand |-> "rest", key |-> 0]] /\ shown = world
  /\ age = 0 /\ gap = 0
  /\ gst = [c \in Channels |-> Idle] /\ key = [c \in Channels |-> 0] /\ latch = [c \in Channels |-> FALSE]
  /\ hold = NoHold /\ at = "run" /\ bus = TRUE /\ hist = Clean
-----------------------------------------------------------------------------
SinceMost == Load + MaxGap + 1

(* Time, the hand, the filament, and the stream of readings, which may stop. *)
LooseNow(w) == hold.ch # None /\ ~(Pressed(w[hold.ch]) /\ Empty(w))

Tick ==
  /\ at = "run" /\ gap < MaxGap
  /\ world' \in [Channels -> [hand : Hands, key : Keys]]
  /\ \/ shown' = world' /\ age' = 0
     \/ UNCHANGED shown /\ age' = Capped(age, OldAge)
  /\ gap' = gap + 1
  /\ gst' = [c \in Channels |-> [gst[c] EXCEPT !.t0 = IF gst[c].step = 0 THEN 0 ELSE Capped(@, Return + 1),
                                               !.since = IF gst[c].active THEN Capped(@, SinceMost) ELSE 0]]
  /\ hold' = IF hold.ch = None THEN hold ELSE [hold EXCEPT !.t = Capped(@, Hold)]
  /\ LET loose == IF LooseNow(world') THEN Capped(hist.loose, LooseMost) ELSE 0
     IN hist' = [hist EXCEPT !.loose = loose, !.most = IF loose > @ THEN loose ELSE @,
                             !.span = IF hold.ch = None THEN 0 ELSE Capped(@, Hold),
                             !.down = [c \in Channels |-> Capped(@[c], Return + 1)]]
  /\ UNCHANGED <<key, latch, at, bus>>
-----------------------------------------------------------------------------
(* The gesture that loads. *)
\* Variant for mutation: the second part of the gesture may come at any time.
NeverLate(g) == FALSE

Late(g) == g.t0 > Return

Armed(g, x) ==
  CASE g.step = 0 -> IF x.hand = "down" THEN [g EXCEPT !.step = 1, !.t0 = 0] ELSE g
    [] g.step = 1 -> IF x.hand \in {"down", "low"}
                     THEN IF g.t0 >= Settle THEN [g EXCEPT !.step = 2] ELSE g
                     ELSE [g EXCEPT !.step = 0, !.t0 = 0]
    [] g.step = 2 -> IF Late(g) THEN [g EXCEPT !.step = 0, !.t0 = 0]
                     ELSE IF x.hand = "rest" THEN [Idle EXCEPT !.active = TRUE]
                     ELSE g

Stopped(g) == [g EXCEPT !.active = FALSE, !.since = 0]

Ended(g, x) == IF g.active /\ (x.key = 1 \/ g.since > Load) THEN Stopped(g) ELSE g

Gesture(c) ==
  LET free == IF latch[c] THEN Idle ELSE gst[c]
  IN Ended(IF free.active THEN free ELSE Armed(free, shown[c]), shown[c])

Seen(g, x) == IF g.active /\ x.key = 0 THEN 2 ELSE x.key

(* The press that clears.  Its steps are those of one pass. *)
Presses == {c \in Calibrated : Pressed(shown[c])}
First == CHOOSE c \in Presses : \A d \in Presses : c <= d

\* Variant for mutation: frozen readings count.
MayHoldFrozen(keys) == \A c \in Channels : keys[c] = 0

MayHold(keys) == (\A c \in Channels : keys[c] = 0) /\ age <= Stale

Holds(keys) ==
  IF ~MayHold(keys) \/ Presses = {} THEN NoHold
  ELSE IF hold.ch = First THEN hold ELSE [ch |-> First, t |-> 0]

(* idle: Flash_background_idle; failed: what the autoload makes of the      *)
(* latch, which it can set only while it sees a filament and clear while it *)
(* sees none.                                                               *)
Pass(idle, failed) ==
  /\ at = "run" /\ gap > 0 /\ gap' = 0
  /\ gst' = [c \in Channels |-> Gesture(c)]
  /\ key' = [c \in Channels |-> Seen(gst'[c], shown[c])]
  /\ \A c \in Channels : failed[c] # latch[c] => (key'[c] = 0) = latch[c]
  /\ latch' = failed
  /\ LET h == Holds(key')
         due == hold.ch # None /\ h.ch = hold.ch /\ h.t >= Hold
     IN /\ hold' = h
        /\ at' = IF due /\ idle THEN "clear" ELSE "run"
        /\ bus' = ~(due /\ idle)
        /\ hist' = [hist EXCEPT !.loose = IF h.ch = hold.ch /\ h.t > 0 THEN @ ELSE 0,
                                !.most = IF h.ch = hold.ch /\ h.t > 0 THEN @ ELSE 0,
                                !.span = IF h.ch = hold.ch THEN @ ELSE 0,
                                !.down = [c \in Channels |-> IF shown[c].hand = "down" THEN 0 ELSE @[c]]]
  /\ UNCHANGED <<world, shown, age>>

SomePass == \E idle \in BOOLEAN, failed \in [Channels -> BOOLEAN] : Pass(idle, failed)

(* calibration_reset_and_reboot with the bus shut down: both records are    *)
(* cleared and the chip restarts, or the flash fails and it all goes on.    *)
Cleared ==
  /\ at = "clear" /\ at' = "restart"
  /\ UNCHANGED <<world, shown, age, gap, gst, key, latch, hold, bus, hist>>

BusBack == bus' = TRUE

ClearFails ==
  /\ at = "clear" /\ at' = "run" /\ hold' = NoHold /\ BusBack
  /\ hist' = [hist EXCEPT !.loose = 0, !.most = 0, !.span = 0]
  /\ UNCHANGED <<world, shown, age, gap, gst, key, latch>>

Next == Tick \/ SomePass \/ Cleared \/ ClearFails

Spec == Init /\ [][Next]_vars

(* The flash is not at work in every pass that would clear. *)
FairSpec ==
  /\ Spec /\ WF_vars(Tick) /\ WF_vars(SomePass) /\ WF_vars(Cleared \/ ClearFails)
  /\ SF_vars(SomePass /\ at' = "clear")
-----------------------------------------------------------------------------
(* A switch that reads a filament is never hidden; only an empty channel in *)
(* a gesture shows one it does not read; the bus is off only for the clear. *)
TypeOK ==
  /\ \A c \in Channels : world[c] \in [hand : Hands, key : Keys] /\ shown[c] \in [hand : Hands, key : Keys]
  /\ age \in 0..OldAge /\ gap \in 0..MaxGap
  /\ \A c \in Channels :
       gst[c].step \in 0..2 /\ gst[c].t0 \in 0..(Return + 1) /\ gst[c].since \in 0..SinceMost
  /\ key \in [Channels -> 0..3] /\ latch \in [Channels -> BOOLEAN]
  /\ hold \in [ch : Calibrated \cup {None}, t : 0..Hold]
  /\ at \in {"run", "clear", "restart"} /\ bus = (at = "run")

(* What clears the calibration was a press of one buffer, on empty          *)
(* channels, for the whole time: nobody let go, nor put a filament in, for  *)
(* as long as old readings and the gap between two passes can hide.         *)
ClearIsAHeldPress == at = "clear" => hist.most < LooseMost /\ hist.span >= Hold

(* A pretended filament is gone after its time, whether or not any readings *)
(* come, and whatever else the hand does.                                   *)
PretenceEnds == \A c \in Channels : gst[c].active => gst[c].since <= Load + MaxGap

(* A load is pretended only within 2 s of a reading that had the buffer     *)
(* down.                                                                    *)
LoadFollowsPress ==
  [][\A c \in Channels : ~gst[c].active /\ gst'[c].active => hist.down[c] <= Return]_vars

(* A press that is kept up on empty channels, with readings that come,      *)
(* clears the calibration in the end, or is told that the flash failed.     *)
KeptUp(c) ==
  \A d \in Channels : world[d].key = 0 /\ (Pressed(world[d]) <=> d = c) /\ shown = world /\ age = 0

(* The gesture that loads asks for what the hand did, and for no longer.    *)
LoadGestureIsTrue == []PretenceEnds /\ LoadFollowsPress
=============================================================================
