---------------------------- MODULE ChannelProofs ----------------------------
(***************************************************************************)
(* What a main-loop pass never does to a channel, for every threshold,     *)
(* every time limit and every sequence of commands, readings, stale spells *)
(* and bad sensors: hide a jam, push into one, push on after the 20 s are  *)
(* used up, or take the lift that releases a jam for a person's unload.    *)
(*                                                                         *)
(* A pass is three steps that hand a channel on: Latched (key and jam      *)
(* latch), Commanded (the printer or the BMCU's own retraction) and Driven *)
(* (the motor control).  One lemma says what each may change, and the      *)
(* invariant follows from the three.                                       *)
(***************************************************************************)
EXTENDS ChannelPass, TLAPS

Poses == {"idle", "using", "sending", "pulling", "redetect"}

(* A channel, its latch's times as any numbers. *)
Jams == [brake : BOOLEAN, jam : BOOLEAN, hi : Int, low : Int, full : Int,
         left : BOOLEAN, risen : BOOLEAN]

Chans == [motion : Motions, pos : Poses, was : BOOLEAN, drive : Drives, jam : Jams]

Typed ==
  /\ chan \in Chans
  /\ DOMAIN seen = {"tangle", "low", "lift", "pulled", "spent"}
  /\ seen.tangle \in BOOLEAN /\ seen.spent \in BOOLEAN
  /\ seen.low \in Nat \cup {Never} /\ seen.lift \in {"none", "low", "up"}
  /\ DOMAIN au = {"arm", "active", "empty", "blocked", "waitLow", "limit", "guard"}
  /\ au.waitLow \in BOOLEAN

(* A jam keeps its brake and no run; without one the latch has timed        *)
(* exactly what fresh readings have shown, which is not yet a jam.          *)
JamInv ==
  IF chan.jam.jam THEN chan.jam.brake /\ chan.jam.low = Never
  ELSE chan.jam.low = seen.low /\ seen.low # JamTripMs

(* A trip since which the buffer was never read back up. *)
TangleInv == seen.tangle => chan.jam.jam /\ ~chan.jam.risen /\ key # 0

(* What a motion says of the rest of a channel. *)
MotionFits(c) ==
  /\ c.motion = "redetect" => c.pos = "redetect"
  /\ c.motion = "on_use" => c.pos = "using"
  /\ c.motion = "send" => ~c.jam.jam

(* A push that used up its time: braked in on_use, or stopped by another    *)
(* channel's retraction.                                                    *)
SpentInv ==
  seen.spent => /\ chan.jam.brake /\ ~chan.jam.jam /\ chan.drive \notin Pushes
                /\ chan.motion \in {"on_use", "stop"} /\ chan.pos = "using"

(* A lift that counts began below the neutral band, after the last jam. *)
LiftInv ==
  /\ au.arm # Never => seen.lift = "up"
  /\ ~au.waitLow => seen.lift \in {"low", "up"}

ChannelInv ==
  Typed /\ JamInv /\ TangleInv /\ MotionFits(chan) /\ NoPushIntoJam /\ SpentInv /\ LiftInv

-----------------------------------------------------------------------------
LEMMA Freed ==
  ASSUME NEW j \in Jams
  PROVE  LET f == [j EXCEPT !.brake = FALSE, !.hi = 0]
         IN /\ f \in Jams /\ f.jam = j.jam /\ f.low = j.low /\ f.risen = j.risen
            /\ ~f.brake
<1>1. [j EXCEPT !.brake = FALSE, !.hi = 0] \in Jams
  <2>1. FALSE \in BOOLEAN /\ 0 \in Int
    OBVIOUS
  <2> QED
    BY <2>1, Zenon DEF Jams
<1> QED
  BY <1>1, SMT DEF Jams

(* A change of motion drops only a brake that is no jam's, and never for    *)
(* on_use.                                                                  *)
LEMMA SetMotion ==
  ASSUME NEW c \in Chans, NEW m \in Motions
  PROVE  /\ set_motion(c, m) \in Chans
         /\ set_motion(c, m).motion = m
         /\ set_motion(c, m).pos = c.pos
         /\ set_motion(c, m).jam.jam = c.jam.jam
         /\ set_motion(c, m).jam.low = c.jam.low
         /\ set_motion(c, m).jam.risen = c.jam.risen
         /\ set_motion(c, m).jam.brake => c.jam.brake
         /\ c.jam.brake /\ (c.jam.jam \/ m = "on_use") => set_motion(c, m).jam.brake
<1>1. CASE c.motion = m
  BY <1>1 DEF set_motion
<1>2. CASE c.motion # m
  <2> DEFINE drive == IF c.motion = "send" /\ m = "on_use" THEN c.drive ELSE "brake"
             was == m \notin {"send", "pull"} /\ (c.was \/ m = "on_use")
             jam == IF m # "on_use" /\ c.jam.brake /\ ~c.jam.jam
                    THEN [c.jam EXCEPT !.brake = FALSE, !.hi = 0] ELSE c.jam
             s == [c EXCEPT !.motion = m, !.drive = drive, !.was = was, !.jam = jam]
  <2>1. set_motion(c, m) = s
    BY <1>2 DEF set_motion
  <2>2. c.jam \in Jams /\ drive \in Drives /\ was \in BOOLEAN
    BY Zenon DEF Chans, Drives
  <2>3. /\ jam \in Jams /\ jam.jam = c.jam.jam /\ jam.low = c.jam.low
        /\ jam.risen = c.jam.risen /\ (jam.brake => c.jam.brake)
        /\ (c.jam.brake /\ (c.jam.jam \/ m = "on_use") => jam.brake)
    <3> DEFINE freed == [c.jam EXCEPT !.brake = FALSE, !.hi = 0]
    <3>1. /\ freed \in Jams /\ freed.jam = c.jam.jam /\ freed.low = c.jam.low
          /\ freed.risen = c.jam.risen /\ ~freed.brake
      BY <2>2, Freed
    <3>2. jam = IF m # "on_use" /\ c.jam.brake /\ ~c.jam.jam THEN freed ELSE c.jam
      OBVIOUS
    <3> HIDE DEF freed, jam
    <3> QED
      BY <2>2, <3>1, <3>2, Zenon
  <2> HIDE DEF drive, was, jam
  <2>4. s \in Chans
    BY <2>2, <2>3, Zenon DEF Chans
  <2>5. s.motion = m /\ s.pos = c.pos /\ s.jam = jam
    BY SMT DEF Chans
  <2> QED
    BY <2>1, <2>3, <2>4, <2>5, Zenon
<1> QED
  BY <1>1, <1>2

(* The same channel in another state of the AMS, or with another PWM. *)
LEMMA Placed ==
  ASSUME NEW c \in Chans
  PROVE  /\ \A p \in Poses :
              /\ [c EXCEPT !.pos = p] \in Chans
              /\ [c EXCEPT !.pos = p].pos = p
              /\ [c EXCEPT !.pos = p].motion = c.motion
              /\ [c EXCEPT !.pos = p].jam = c.jam
         /\ \A v \in Drives :
              /\ [c EXCEPT !.drive = v] \in Chans
              /\ [c EXCEPT !.drive = v].drive = v
              /\ [c EXCEPT !.drive = v].pos = c.pos
              /\ [c EXCEPT !.drive = v].motion = c.motion
              /\ [c EXCEPT !.drive = v].jam = c.jam
BY SMT DEF Chans

LEMMA NoJamFits == NoJam \in Jams
BY SMT DEF NoJam, Jams, Never

(* A jam is released by readings that show the buffer up, or a filament     *)
(* that rose and a printer that resumed: never by low ones.                 *)
LEMMA HeldJam ==
  ASSUME NEW j \in Jams, NEW host, NEW pct \in Int, j.jam
  PROVE  LET r == JamHeld(j, host, pct)
         IN /\ r \in Jams
            /\ r.jam => r.low = Never /\ r.brake = j.brake
            /\ ~r.jam => r.low = Never /\ ~r.brake
            /\ ~j.risen /\ pct < JamTripPct => r.jam /\ ~r.risen
<1> DEFINE seenJ == ReleaseSeen(j, host, pct)
           held  == [seenJ EXCEPT !.low = Never]
<1>1. /\ j.risen \in BOOLEAN /\ j.left \in BOOLEAN /\ j.full \in Int
  BY DEF Jams
<1>2. Timed(j.full, pct >= ReleaseLevel(host)) \in Int
  BY <1>1, SMT DEF Timed, Never
<1>3. (j.risen \/ pct >= JamTripPct) \in BOOLEAN /\ (j.left \/ host # "on_use") \in BOOLEAN
  BY Zenon
<1>4. seenJ \in Jams
  BY <1>2, <1>3, Zenon DEF ReleaseSeen, Jams
<1>5. /\ seenJ.jam = j.jam /\ seenJ.brake = j.brake
      /\ seenJ.risen = (j.risen \/ pct >= JamTripPct)
      /\ seenJ.full = Timed(j.full, pct >= ReleaseLevel(host))
  <2> DEFINE full == Timed(j.full, pct >= ReleaseLevel(host))
             rose == pct >= JamTripPct
             left == host # "on_use"
  <2>1. seenJ = [j EXCEPT !.risen = @ \/ rose, !.left = @ \/ left, !.full = full]
    BY DEF ReleaseSeen
  <2> HIDE DEF seenJ, full, rose, left
  <2>2. /\ seenJ.jam = j.jam /\ seenJ.brake = j.brake /\ seenJ.full = full
        /\ seenJ.risen = (j.risen \/ rose)
    BY <2>1 DEF Jams
  <2> QED
    BY <2>2 DEF full, rose
<1>6. ~j.risen /\ pct < JamTripPct => ~seenJ.risen /\ ~Released(seenJ, host)
  <2> SUFFICES ASSUME ~j.risen, pct < JamTripPct PROVE ~seenJ.risen /\ ~Released(seenJ, host)
    OBVIOUS
  <2>1. ~(pct >= JamTripPct) /\ ~(pct >= ReleaseLevel(host))
    BY JamAssumption, SMT DEF ReleaseLevel
  <2>2. seenJ.full = Never
    BY <1>5, <2>1 DEF Timed
  <2>3. Never # JamReleaseMs
    BY JamAssumption DEF Never
  <2> QED
    BY <1>5, <2>1, <2>2, <2>3 DEF Released, Resumed
<1> HIDE DEF seenJ
<1>7. held \in Jams
  <2>1. Never \in Int
    BY DEF Never
  <2> QED
    BY <1>4, <2>1, Zenon DEF Jams
<1>8. held.low = Never /\ held.jam = seenJ.jam /\ held.brake = seenJ.brake
      /\ held.risen = seenJ.risen
  BY <1>4, SMT DEF Jams
<1>9. JamHeld(j, host, pct) = IF Released(seenJ, host) THEN NoJam ELSE held
  BY DEF JamHeld, seenJ
<1> HIDE DEF held
<1>10. NoJam.low = Never /\ ~NoJam.brake /\ ~NoJam.jam
  BY DEF NoJam
<1> QED
  BY <1>5, <1>6, <1>7, <1>8, <1>9, <1>10, NoJamFits, Zenon

(* A clear latch trips exactly when its run reaches the trip time.          *)
LEMMA ClearJam ==
  ASSUME NEW j \in Jams, NEW counts \in BOOLEAN, NEW pct \in Int, ~j.jam
  PROVE  LET r   == JamClear(j, counts, pct)
             run == Timed(j.low, counts /\ pct < JamTripPct)
         IN /\ r \in Jams
            /\ r.jam <=> run = JamTripMs
            /\ r.jam => r.low = Never /\ r.brake /\ ~r.risen /\ counts /\ pct < JamTripPct
            /\ ~r.jam => r.low = run /\ r.brake = j.brake
<1> DEFINE run   == Timed(j.low, counts /\ pct < JamTripPct)
           reset == jam_release_reset(j)
           trip  == [reset EXCEPT !.low = Never, !.brake = TRUE, !.jam = TRUE]
           runs  == [reset EXCEPT !.low = run]
<1>1. Never \in Int /\ TRUE \in BOOLEAN /\ FALSE \in BOOLEAN
  BY DEF Never
<1>2. run \in Int /\ (run = JamTripMs => counts /\ pct < JamTripPct)
  BY JamAssumption, SMT DEF Timed, Never, Jams
<1>3. reset \in Jams
  BY <1>1, Zenon DEF jam_release_reset, Jams
<1>4. ~reset.jam /\ reset.brake = j.brake /\ ~reset.risen
  BY SMT DEF jam_release_reset, Jams
<1> HIDE DEF run, reset
<1>5. trip \in Jams /\ runs \in Jams
  BY <1>1, <1>2, <1>3, Zenon DEF Jams
<1>6. trip.jam /\ trip.brake /\ trip.low = Never /\ trip.risen = reset.risen
  BY <1>3, SMT DEF Jams
<1>7. runs.jam = reset.jam /\ runs.brake = reset.brake /\ runs.low = run
  BY <1>3, SMT DEF Jams
<1>8. JamClear(j, counts, pct) = IF run = JamTripMs THEN trip ELSE runs
  BY DEF JamClear, run, reset
<1> HIDE DEF trip, runs
<1> QED
  BY <1>2, <1>4, <1>5, <1>6, <1>7, <1>8, Zenon DEF run

LEMMA LaterFits ==
  /\ \A age \in Int, d \in Nat, cap \in Nat : Later(age, d, cap) \in Int
  /\ \A age \in Nat, d \in Nat, cap \in Nat : Later(age, d, cap) \in Nat
  /\ \A d, cap : Later(Never, d, cap) = Never
BY DEF Later, Never

LEMMA Aged ==
  ASSUME NEW c \in Chans, NEW d \in Nat
  PROVE  LET a == [c EXCEPT !.jam = JamLater(@, d)]
         IN /\ a \in Chans /\ a.motion = c.motion /\ a.pos = c.pos
            /\ a.jam.jam = c.jam.jam /\ a.jam.brake = c.jam.brake
            /\ a.jam.risen = c.jam.risen
            /\ a.jam.low = Later(c.jam.low, d, JamTripMs)
<1> DEFINE low  == Later(c.jam.low, d, JamTripMs)
           full == Later(c.jam.full, d, JamReleaseMs)
           j    == [c.jam EXCEPT !.low = low, !.full = full]
           a    == [c EXCEPT !.jam = j]
<1>1. c.jam \in Jams
  BY Zenon DEF Chans
<1>2. low \in Int /\ full \in Int
  BY <1>1, JamAssumption, LaterFits DEF Jams
<1>3. [c EXCEPT !.jam = JamLater(@, d)] = a
  BY DEF JamLater
<1> HIDE DEF low, full
<1>4. j \in Jams
  BY <1>1, <1>2, Zenon DEF Jams
<1>5. j.jam = c.jam.jam /\ j.brake = c.jam.brake /\ j.risen = c.jam.risen /\ j.low = low
  BY <1>1, SMT DEF Jams
<1> HIDE DEF j
<1>6. a \in Chans
  BY <1>4, Zenon DEF Chans
<1>7. a.motion = c.motion /\ a.pos = c.pos /\ a.jam = j
  BY SMT DEF Chans
<1> QED
  BY <1>3, <1>5, <1>6, <1>7, Zenon DEF low

(* No filament at the switches: no jam, and no brake of a jam. *)
LEMMA KeyGone ==
  ASSUME NEW c \in Chans, NEW host, NEW online \in BOOLEAN
  PROVE  LET k == KeyNone(c, host, online)
         IN /\ k \in Chans /\ k.motion \in {c.motion, "stop"} /\ k.pos = c.pos
            /\ ~k.jam.jam /\ k.jam.low = c.jam.low
            /\ k.jam.brake => c.jam.brake /\ ~c.jam.jam
<1> DEFINE s == IF online /\ host = "send_out" THEN set_motion(c, "stop") ELSE c
           b == s.jam.brake /\ ~c.jam.jam
           j == [s.jam EXCEPT !.brake = b, !.jam = FALSE, !.hi = 0]
           k == [s EXCEPT !.jam = j]
<1>1. "stop" \in Motions
  BY DEF Motions
<1>2. /\ s \in Chans /\ s.motion \in {c.motion, "stop"} /\ s.pos = c.pos
      /\ s.jam.low = c.jam.low /\ (s.jam.brake => c.jam.brake)
  BY <1>1, SetMotion, Zenon
<1>3. KeyNone(c, host, online) = k
  BY Zenon DEF KeyNone
<1> HIDE DEF s
<1>4. s.jam \in Jams
  BY <1>2, Zenon DEF Chans
<1>5. b \in BOOLEAN
  BY Zenon
<1>6. FALSE \in BOOLEAN /\ 0 \in Int
  OBVIOUS
<1> HIDE DEF b
<1>7. j \in Jams
  BY <1>4, <1>5, <1>6, Zenon DEF Jams
<1>8. j.jam = FALSE /\ j.low = s.jam.low /\ j.brake = b
  BY <1>4, SMT DEF Jams
<1> HIDE DEF j
<1>9. k \in Chans
  BY <1>2, <1>7, Zenon DEF Chans
<1>10. k.motion = s.motion /\ k.pos = s.pos /\ k.jam = j
  BY <1>2, SMT DEF Chans
<1> QED
  BY <1>2, <1>3, <1>8, <1>9, <1>10, Zenon DEF b

LEMMA WithJam ==
  ASSUME NEW c \in Chans, NEW j \in Jams
  PROVE  LET r == [c EXCEPT !.jam = j]
         IN r \in Chans /\ r.motion = c.motion /\ r.pos = c.pos /\ r.jam = j
            /\ r.drive = c.drive
<1>1. [c EXCEPT !.jam = j] \in Chans
  BY Zenon DEF Chans
<1> QED
  BY <1>1, SMT DEF Chans

-----------------------------------------------------------------------------
(* The first step of a pass: the key and the latch.  What a run of fresh    *)
(* low readings has shown is the latch's own run.                           *)
LatchedFits(c, ks, pct, d) ==
  /\ c \in Chans /\ c.pos = chan.pos
  /\ c.motion \in {chan.motion, "stop"} /\ (ks # 0 => c.motion = chan.motion)
  /\ c.jam.jam => c.jam.brake /\ c.jam.low = Never /\ ks # 0
  /\ ~c.jam.jam => /\ c.jam.low = LowSeen(ks, pct, d) /\ LowSeen(ks, pct, d) # JamTripMs
                   /\ c.jam.brake => chan.jam.brake
  /\ ~chan.jam.jam => (c.jam.jam <=> LowSeen(ks, pct, d) = JamTripMs)
  /\ ~chan.jam.jam /\ c.jam.jam => /\ pct < JamTripPct /\ ~c.jam.risen
                                  /\ c.motion = "on_use"
  /\ ~chan.jam.jam /\ chan.jam.brake /\ ks # 0 => c.jam.brake
  /\ seen.tangle /\ ks # 0 /\ pct < JamTripPct => c.jam.jam /\ ~c.jam.risen

LEMMA LatchedKeeps ==
  ASSUME Typed, JamInv, TangleInv,
         NEW host, NEW ks \in Int, NEW pct \in Int, NEW online \in BOOLEAN,
         NEW d \in Nat \ {0}
  PROVE  LatchedFits(Latched(host, ks, pct, online, d), ks, pct, d)
<1> DEFINE a  == [chan EXCEPT !.jam = JamLater(@, d)]
           k  == KeyPass(a, ks, host, online)
           h  == jam_host_from_motion(host # "other", host)
           j  == jam_latch_pass(k.jam, k.motion = "on_use", ks # 0, h, pct)
           c1 == [k EXCEPT !.jam = j]
<1>1. Latched(host, ks, pct, online, d) = c1
  BY DEF Latched, JamPass
<1>2. chan \in Chans /\ d \in Nat
  BY DEF Typed
<1>3. /\ a \in Chans /\ a.motion = chan.motion /\ a.pos = chan.pos
      /\ a.jam.jam = chan.jam.jam /\ a.jam.brake = chan.jam.brake
      /\ a.jam.risen = chan.jam.risen /\ a.jam.low = Later(chan.jam.low, d, JamTripMs)
  BY <1>2, Aged
<1> HIDE DEF a
<1>4. ks # 0 => k = a
  BY DEF KeyPass
<1>5. /\ k \in Chans /\ k.pos = chan.pos /\ k.motion \in {chan.motion, "stop"}
      /\ ks = 0 => ~k.jam.jam
      /\ k.jam.brake => chan.jam.brake
      /\ k.jam.low = a.jam.low
  <2>1. CASE ks = 0
    <3>1. k = KeyNone(a, host, online)
      BY <2>1 DEF KeyPass
    <3> HIDE DEF k
    <3> QED
      BY <1>3, <3>1, KeyGone
  <2>2. CASE ks # 0
    BY <1>3, <1>4, <2>2, Zenon
  <2> QED
    BY <2>1, <2>2
<1> HIDE DEF k
<1>6. k.jam \in Jams
  BY <1>5, Zenon DEF Chans
<1> DEFINE counts == k.motion = "on_use" /\ ks # 0
           run    == Timed(k.jam.low, counts /\ pct < JamTripPct)
<1>7. counts \in BOOLEAN /\ (counts => chan.motion = "on_use" /\ ks # 0)
  BY <1>5, Zenon
<1>8. ~chan.jam.jam => run = LowSeen(ks, pct, d)
  <2> SUFFICES ASSUME ~chan.jam.jam PROVE run = LowSeen(ks, pct, d)
    OBVIOUS
  <2>1. k.jam.low = Later(seen.low, d, JamTripMs)
    BY <1>3, <1>5 DEF JamInv
  <2>2. ks # 0 => k.motion = chan.motion
    BY <1>3, <1>4
  <2>3. seen.low = Never => k.jam.low = Never
    BY <2>1, LaterFits
  <2>4. seen.low # Never => k.jam.low # Never
    <3> SUFFICES ASSUME seen.low # Never PROVE k.jam.low # Never
      OBVIOUS
    <3>1. seen.low \in Nat /\ JamTripMs \in Nat
      BY JamAssumption DEF Typed
    <3>2. Later(seen.low, d, JamTripMs) \in Nat
      BY <1>2, <3>1, LaterFits
    <3> QED
      BY <2>1, <3>2 DEF Never
  <2>5. (counts /\ pct < JamTripPct) <=> ~(chan.motion # "on_use" \/ ks = 0 \/ chan.jam.jam \/ pct >= JamTripPct)
    BY <1>7, <2>2, JamAssumption
  <2> QED
    BY <2>1, <2>3, <2>4, <2>5, Zenon DEF Timed, LowSeen
<1>9. /\ chan.jam.jam => LowSeen(ks, pct, d) = Never
      /\ ks = 0 => LowSeen(ks, pct, d) = Never
      /\ Never # JamTripMs
  BY JamAssumption DEF LowSeen, Never
<1>10. CASE k.jam.jam
  <2>1. /\ j \in Jams
        /\ j.jam => j.low = Never /\ j.brake = k.jam.brake
        /\ ~j.jam => j.low = Never /\ ~j.brake
        /\ ~k.jam.risen /\ pct < JamTripPct => j.jam /\ ~j.risen
    <3>1. j = JamHeld(k.jam, h, pct)
      BY <1>10 DEF jam_latch_pass
    <3> HIDE DEF j, h
    <3> QED
      BY <1>6, <1>10, <3>1, HeldJam
  <2>2. ks # 0 /\ k = a /\ chan.jam.jam /\ chan.jam.brake
    BY <1>3, <1>4, <1>5, <1>10 DEF JamInv
  <2>3. seen.tangle => ~k.jam.risen
    BY <1>3, <2>2 DEF TangleInv
  <2> HIDE DEF j
  <2>4. c1 \in Chans /\ c1.motion = k.motion /\ c1.pos = k.pos /\ c1.jam = j
    BY <1>5, <2>1, WithJam, Zenon
  <2> HIDE DEF c1
  <2> QED
    BY <1>1, <1>3, <1>5, <1>9, <2>1, <2>2, <2>3, <2>4, Zenon DEF LatchedFits
<1>11. CASE ~k.jam.jam
  <2>1. /\ j \in Jams
        /\ j.jam <=> run = JamTripMs
        /\ j.jam => j.low = Never /\ j.brake /\ ~j.risen /\ counts /\ pct < JamTripPct
        /\ ~j.jam => j.low = run /\ j.brake = k.jam.brake
    <3>1. j = JamClear(k.jam, counts, pct)
      BY <1>11 DEF jam_latch_pass
    <3> HIDE DEF j, counts
    <3> QED
      BY <1>6, <1>7, <1>11, <3>1, ClearJam
  <2>2. chan.jam.jam => ks = 0
    BY <1>3, <1>4, <1>11
  <2>3. chan.jam.jam => run = Never
    BY <2>2 DEF Timed
  <2>4. run = LowSeen(ks, pct, d)
    BY <1>8, <1>9, <2>2, <2>3
  <2>5. seen.tangle /\ ks # 0 => FALSE
    BY <2>2 DEF TangleInv
  <2>6. ks # 0 => k.motion = chan.motion /\ k.jam.brake = chan.jam.brake
    BY <1>3, <1>4
  <2>7. j.jam => ks # 0 /\ k.motion = "on_use"
    BY <2>1
  <2> HIDE DEF j, run, counts
  <2>8. c1 \in Chans /\ c1.motion = k.motion /\ c1.pos = k.pos /\ c1.jam = j
    BY <1>5, <2>1, WithJam, Zenon
  <2> HIDE DEF c1
  <2>9. LatchedFits(c1, ks, pct, d)
    BY <1>5, <2>1, <2>4, <2>5, <2>6, <2>7, <2>8, Zenon DEF LatchedFits
  <2> QED
    BY <1>1, <2>9
<1> QED
  BY <1>10, <1>11

-----------------------------------------------------------------------------
(* The second step of a pass: a command.  Only a load releases a jam, and   *)
(* only with the buffer read up.                                            *)
CommandedFits(c, r, ks, host, pct, stale, online) ==
  /\ r \in Chans /\ MotionFits(r)
  /\ r.jam.low = c.jam.low /\ r.jam.risen = c.jam.risen
  /\ r.jam.jam => c.jam.jam
  /\ c.jam.jam /\ ~r.jam.jam => ~stale /\ pct > JamAwayPct /\ host = "send_out"
  /\ r.jam.brake => c.jam.brake
  /\ r.jam.jam /\ c.jam.brake => r.jam.brake
  /\ r.motion = "redetect" => ks = 0
  /\ /\ c.pos = "using" /\ host = "on_use" /\ online /\ ks # 0
     /\ c.motion \in {"on_use", "stop"} /\ c.jam.brake
     => r.motion \in {"on_use", "stop"} /\ r.pos = "using" /\ r.jam.brake

(* A motion other than a load, in the AMS state that goes with it. *)
LEMMA Moved ==
  ASSUME NEW c \in Chans, NEW m \in Motions, NEW p \in Poses,
         m # "send", m = "on_use" => p = "using", m # "redetect"
  PROVE  LET r == [set_motion(c, m) EXCEPT !.pos = p]
         IN /\ r \in Chans /\ MotionFits(r) /\ r.motion = m /\ r.pos = p
            /\ r.jam.low = c.jam.low /\ r.jam.risen = c.jam.risen
            /\ r.jam.jam = c.jam.jam /\ (r.jam.brake => c.jam.brake)
            /\ c.jam.brake /\ (c.jam.jam \/ m = "on_use") => r.jam.brake
<1> DEFINE s == set_motion(c, m)
           r == [s EXCEPT !.pos = p]
<1>1. /\ s \in Chans /\ s.motion = m /\ s.jam.jam = c.jam.jam /\ s.jam.low = c.jam.low
      /\ s.jam.risen = c.jam.risen /\ (s.jam.brake => c.jam.brake)
      /\ c.jam.brake /\ (c.jam.jam \/ m = "on_use") => s.jam.brake
  BY SetMotion
<1> HIDE DEF s
<1>2. r \in Chans /\ r.pos = p /\ r.motion = s.motion /\ r.jam = s.jam
  BY <1>1, Placed
<1> HIDE DEF r
<1>3. MotionFits(r)
  BY <1>1, <1>2 DEF MotionFits
<1> QED
  BY <1>1, <1>2, <1>3, Zenon DEF r, s

LEMMA StopsHere ==
  ASSUME NEW c \in Chans, NEW m \in Motions, MotionFits(c),
         m = "stop" \/ (m = "redetect" /\ c.pos = "redetect") \/ m = "pull"
  PROVE  LET r == set_motion(c, m)
         IN /\ r \in Chans /\ MotionFits(r) /\ r.motion = m /\ r.pos = c.pos
            /\ r.jam.low = c.jam.low /\ r.jam.risen = c.jam.risen
            /\ r.jam.jam = c.jam.jam /\ (r.jam.brake => c.jam.brake)
            /\ c.jam.brake /\ c.jam.jam => r.jam.brake
<1> DEFINE s == set_motion(c, m)
<1>1. /\ s \in Chans /\ s.motion = m /\ s.jam.jam = c.jam.jam /\ s.jam.low = c.jam.low
      /\ s.jam.risen = c.jam.risen /\ (s.jam.brake => c.jam.brake) /\ s.pos = c.pos
      /\ c.jam.brake /\ (c.jam.jam \/ m = "on_use") => s.jam.brake
  BY SetMotion
<1> HIDE DEF s
<1>2. MotionFits(s)
  BY <1>1 DEF MotionFits
<1> QED
  BY <1>1, <1>2, Zenon DEF s

(* A load: of a clear channel, of a jammed one whose buffer has been        *)
(* lifted, or of one that has to wait.                                      *)
LEMMA SendOutKeeps ==
  ASSUME NEW c \in Chans, MotionFits(c), NEW pct, NEW stale \in BOOLEAN
  PROVE  LET r == SendOut(c, pct, stale)
         IN /\ r \in Chans /\ MotionFits(r) /\ r.motion \in {"send", "stop"}
            /\ r.jam.low = c.jam.low /\ r.jam.risen = c.jam.risen
            /\ r.jam.jam => c.jam.jam
            /\ c.jam.jam /\ ~r.jam.jam => ~stale /\ pct > JamAwayPct
            /\ r.jam.brake => c.jam.brake
            /\ r.jam.jam /\ c.jam.brake => r.jam.brake
<1>0. "send" \in Motions /\ "stop" \in Motions /\ "sending" \in Poses
  BY DEF Motions, Poses
<1>a. ASSUME NEW f \in Chans, ~f.jam.jam
      PROVE  LET r == [set_motion(f, "send") EXCEPT !.pos = "sending"]
             IN /\ r \in Chans /\ MotionFits(r) /\ r.motion = "send"
                /\ r.jam.low = f.jam.low /\ r.jam.risen = f.jam.risen
                /\ ~r.jam.jam /\ (r.jam.brake => f.jam.brake)
  <2> DEFINE s == set_motion(f, "send")
             r == [s EXCEPT !.pos = "sending"]
  <2>1. /\ s \in Chans /\ s.motion = "send" /\ ~s.jam.jam /\ s.jam.low = f.jam.low
        /\ s.jam.risen = f.jam.risen /\ (s.jam.brake => f.jam.brake)
    BY <1>0, <1>a, SetMotion
  <2> HIDE DEF s
  <2>2. r \in Chans /\ r.motion = s.motion /\ r.jam = s.jam
    BY <1>0, <2>1, Placed
  <2> HIDE DEF r
  <2>3. MotionFits(r)
    BY <2>1, <2>2 DEF MotionFits
  <2> QED
    BY <2>1, <2>2, <2>3, Zenon DEF r, s
<1>1. CASE ~c.jam.jam
  <2>1. SendOut(c, pct, stale) = [set_motion(c, "send") EXCEPT !.pos = "sending"]
    BY <1>1 DEF SendOut
  <2> QED
    BY <1>1, <1>a, <2>1, Zenon
<1>2. CASE c.jam.jam /\ jam_latch_send_out_release(pct, stale)
  <2> DEFINE j == [c.jam EXCEPT !.brake = FALSE, !.jam = FALSE, !.hi = 0]
             f == [c EXCEPT !.jam = j]
  <2>1. SendOut(c, pct, stale) = [set_motion(f, "send") EXCEPT !.pos = "sending"]
    BY <1>2 DEF SendOut
  <2>2. c.jam \in Jams /\ FALSE \in BOOLEAN /\ 0 \in Int
    BY DEF Chans
  <2>3. j \in Jams
    BY <2>2, Zenon DEF Jams
  <2>4. ~j.jam /\ ~j.brake /\ j.low = c.jam.low /\ j.risen = c.jam.risen
    BY <2>2, SMT DEF Jams
  <2> HIDE DEF j
  <2>5. f \in Chans /\ f.jam = j
    BY <2>3, WithJam
  <2> HIDE DEF f
  <2>6. ~stale /\ pct > JamAwayPct
    BY <1>2 DEF jam_latch_send_out_release
  <2> DEFINE r == [set_motion(f, "send") EXCEPT !.pos = "sending"]
  <2>7. /\ r \in Chans /\ MotionFits(r) /\ r.motion = "send"
        /\ r.jam.low = f.jam.low /\ r.jam.risen = f.jam.risen
        /\ ~r.jam.jam /\ (r.jam.brake => f.jam.brake)
    BY <1>a, <2>4, <2>5
  <2> HIDE DEF r
  <2> QED
    BY <1>2, <2>1, <2>4, <2>5, <2>6, <2>7 DEF r
<1>3. CASE c.jam.jam /\ ~jam_latch_send_out_release(pct, stale)
  <2>1. SendOut(c, pct, stale) = set_motion(c, "stop")
    BY <1>3 DEF SendOut
  <2> DEFINE r == set_motion(c, "stop")
  <2>2. /\ r \in Chans /\ MotionFits(r) /\ r.motion = "stop"
        /\ r.jam.low = c.jam.low /\ r.jam.risen = c.jam.risen
        /\ r.jam.jam = c.jam.jam /\ (r.jam.brake => c.jam.brake)
        /\ c.jam.brake /\ c.jam.jam => r.jam.brake
    BY <1>0, StopsHere
  <2> HIDE DEF r
  <2> QED
    BY <1>3, <2>1, <2>2, Zenon DEF r
<1> QED
  BY <1>1, <1>2, <1>3

LEMMA CommandedKeeps ==
  ASSUME NEW c \in Chans, MotionFits(c), NEW ks, NEW host, NEW pct,
         NEW stale \in BOOLEAN, NEW online \in BOOLEAN, NEW held \in BOOLEAN,
         NEW ends \in BOOLEAN
  PROVE  CommandedFits(c, Commanded(c, ks, host, pct, stale, online, held, ends),
                       ks, host, pct, stale, online)
<1> DEFINE r == Commanded(c, ks, host, pct, stale, online, held, ends)
           Goal == CommandedFits(c, r, ks, host, pct, stale, online)
<1>0. /\ "stop" \in Motions /\ "pull" \in Motions /\ "redetect" \in Motions
      /\ "idle" \in Motions /\ "on_use" \in Motions /\ "before_on_use" \in Motions
      /\ "stop_on_use" \in Motions /\ "before_pull_back" \in Motions
      /\ "idle" \in Poses /\ "using" \in Poses /\ "redetect" \in Poses /\ "pulling" \in Poses
  BY DEF Motions, Poses
(* Any motion that is neither a load nor a redetect. *)
<1>a. ASSUME NEW m \in Motions, NEW p \in Poses, r = [set_motion(c, m) EXCEPT !.pos = p],
             m # "send", m = "on_use" => p = "using", m # "redetect",
             host = "on_use" /\ ks # 0 /\ c.pos = "using" => m = "on_use"
      PROVE  Goal
  <2> DEFINE v == [set_motion(c, m) EXCEPT !.pos = p]
  <2>1. /\ v \in Chans /\ MotionFits(v) /\ v.motion = m /\ v.pos = p
        /\ v.jam.low = c.jam.low /\ v.jam.risen = c.jam.risen
        /\ v.jam.jam = c.jam.jam /\ (v.jam.brake => c.jam.brake)
        /\ c.jam.brake /\ (c.jam.jam \/ m = "on_use") => v.jam.brake
    BY <1>a, Moved
  <2>2. r = v
    BY <1>a
  <2> HIDE DEF v, r
  <2> QED
    BY <1>a, <2>1, <2>2, Zenon DEF CommandedFits
<1>b. ASSUME NEW m \in Motions, r = set_motion(c, m), ~online \/ c.pos # "using",
             \/ m = "stop"
             \/ m = "redetect" /\ c.pos = "redetect" /\ ks = 0
             \/ m = "pull"
      PROVE  Goal
  <2> DEFINE v == set_motion(c, m)
  <2>1. /\ v \in Chans /\ MotionFits(v) /\ v.motion = m /\ v.pos = c.pos
        /\ v.jam.low = c.jam.low /\ v.jam.risen = c.jam.risen
        /\ v.jam.jam = c.jam.jam /\ (v.jam.brake => c.jam.brake)
        /\ c.jam.brake /\ c.jam.jam => v.jam.brake
    BY <1>b, StopsHere
  <2>2. r = v
    BY <1>b
  <2> HIDE DEF v, r
  <2> QED
    BY <1>b, <2>1, <2>2, Zenon DEF CommandedFits
<1>1. CASE ~online
  <2>1. r = set_motion(c, "stop")
    BY <1>1 DEF Commanded
  <2> QED
    BY <1>0, <1>1, <1>b, <2>1
<1>2. CASE online /\ c.pos \in {"pulling", "redetect"}
  <2>1. r = OwnRetraction(c, ks, ends)
    BY <1>2 DEF Commanded
  <2>2. CASE c.pos = "pulling" /\ ends
    <3>1. r = [set_motion(c, "stop") EXCEPT !.pos = "redetect"]
      BY <2>1, <2>2 DEF OwnRetraction
    <3> QED
      BY <1>0, <1>a, <2>2, <3>1
  <2>3. CASE c.pos = "pulling" /\ ~ends
    <3>1. r = set_motion(c, "pull")
      BY <2>1, <2>3 DEF OwnRetraction
    <3> QED
      BY <1>0, <1>b, <2>3, <3>1
  <2>4. CASE c.pos = "redetect" /\ (ends \/ ks # 0)
    <3>1. r = [set_motion(c, "stop") EXCEPT !.pos = "idle"]
      BY <2>1, <2>4 DEF OwnRetraction
    <3> QED
      BY <1>0, <1>a, <2>4, <3>1
  <2>5. CASE c.pos = "redetect" /\ ~(ends \/ ks # 0)
    <3>1. r = set_motion(c, "redetect")
      BY <2>1, <2>5 DEF OwnRetraction
    <3> QED
      BY <1>0, <1>b, <2>5, <3>1
  <2> QED
    BY <1>2, <2>2, <2>3, <2>4, <2>5
<1>3. CASE online /\ c.pos \notin {"pulling", "redetect"} /\ held
  <2>1. r = c
    BY <1>3 DEF Commanded
  <2>2. c.motion # "redetect"
    BY <1>3 DEF MotionFits
  <2> HIDE DEF r
  <2>3. Goal
    BY <2>1, <2>2, Zenon DEF CommandedFits
  <2> QED
    BY <2>3 DEF r
<1>4. CASE online /\ c.pos \notin {"pulling", "redetect"} /\ ~held
  <2>1. r = motor_motion_switch(c, ks, host, pct, stale)
    BY <1>4 DEF Commanded
  <2>2. CASE host = "other"
    <3>1. PICK m \in {"idle", "stop"} : r = [set_motion(c, m) EXCEPT !.pos = "idle"]
      BY <2>1, <2>2 DEF motor_motion_switch
    <3> QED
      BY <1>0, <1>a, <2>2, <3>1
  <2>3. CASE host # "other" /\ ks = 0
    <3>1. r = [set_motion(c, "idle") EXCEPT !.pos = "idle"]
      BY <2>1, <2>3 DEF motor_motion_switch
    <3> QED
      BY <1>0, <1>a, <2>3, <3>1
  <2>4. CASE host # "other" /\ ks # 0
    <3>1. r = Command(c, host, pct, stale)
      BY <2>1, <2>4 DEF motor_motion_switch
    <3>2. CASE host \in {"on_use", "before_on_use", "stop_on_use"}
      <4>1. r = [set_motion(c, host) EXCEPT !.pos = "using"]
        BY <3>1, <3>2 DEF Command
      <4> QED
        BY <1>0, <1>a, <3>2, <4>1
    <3>3. CASE host = "send_out"
      <4> DEFINE v == SendOut(c, pct, stale)
      <4>1. r = v
        BY <3>1, <3>3 DEF Command
      <4>2. /\ v \in Chans /\ MotionFits(v) /\ v.motion \in {"send", "stop"}
            /\ v.jam.low = c.jam.low /\ v.jam.risen = c.jam.risen
            /\ v.jam.jam => c.jam.jam
            /\ c.jam.jam /\ ~v.jam.jam => ~stale /\ pct > JamAwayPct
            /\ v.jam.brake => c.jam.brake
            /\ v.jam.jam /\ c.jam.brake => v.jam.brake
        BY SendOutKeeps
      <4> HIDE DEF v, r
      <4>3. v.motion # "redetect" /\ host # "on_use"
        BY <3>3, <4>2
      <4>4. Goal
        BY <3>3, <4>1, <4>2, <4>3, Zenon DEF CommandedFits
      <4> QED
        BY <4>4 DEF r
    <3>4. CASE host = "pull_back"
      <4>1. r = [set_motion(c, "pull") EXCEPT !.pos = "pulling"]
        BY <3>1, <3>4 DEF Command
      <4> QED
        BY <1>0, <1>a, <3>4, <4>1
    <3>5. CASE host = "before_pull_back"
      <4>1. r = [set_motion(c, "before_pull_back") EXCEPT !.pos = "using"]
        BY <3>1, <3>5 DEF Command
      <4> QED
        BY <1>0, <1>a, <3>5, <4>1
    <3>6. CASE host \notin {"on_use", "before_on_use", "stop_on_use", "send_out",
                          "pull_back", "before_pull_back"}
      <4>1. PICK m \in {"idle", "stop"} : r = [set_motion(c, m) EXCEPT !.pos = "idle"]
        BY <3>1, <3>6 DEF Command
      <4> QED
        BY <1>0, <1>a, <3>6, <4>1
    <3> QED
      BY <3>2, <3>3, <3>4, <3>5, <3>6
  <2> QED
    BY <2>2, <2>3, <2>4
<1> QED
  BY <1>1, <1>2, <1>3, <1>4

-----------------------------------------------------------------------------
(* The third step of a pass: the motor.  The only brake it sets is that of  *)
(* a push in on_use that used up its time; what the latch brakes and what   *)
(* has stopped is never pushed.                                             *)
DrivenFits(c, r) ==
  /\ r \in Chans /\ r.pos = c.pos /\ r.motion \in {c.motion, "stop"}
  /\ r.jam.jam = c.jam.jam /\ r.jam.low = c.jam.low /\ r.jam.risen = c.jam.risen
  /\ c.jam.brake => r.jam.brake
  /\ ~c.jam.brake /\ r.jam.brake => r.motion = "on_use" /\ r.drive = "rest"
  /\ r.drive \in Pushes =>
       /\ ~jam_latch_brakes(c.motion, c.jam) /\ r.motion = c.motion
       /\ c.motion \notin {"stop", "stop_on_use", "before_pull_back"}

LEMMA ControlDrivesFit ==
  ASSUME NEW c \in Chans, NEW ks, NEW pct, NEW v \in ControlDrives(c, ks, pct)
  PROVE  /\ v \in Drives
         /\ v \in Pushes => c.motion \notin {"stop", "stop_on_use", "before_pull_back"}
<1>1. CASE c.motion = "idle"
  BY <1>1, SMT DEF ControlDrives, IdleDrives, Drives, Pushes
<1>2. CASE c.motion = "redetect"
  BY <1>2, SMT DEF ControlDrives, Drives, Pushes
<1>3. CASE c.motion \notin {"idle", "redetect"} /\ ks = 0
  BY <1>3, SMT DEF ControlDrives, Drives, Pushes
<1>4. CASE c.motion \in {"stop", "stop_on_use", "before_pull_back", "pull"} /\ ks # 0
  BY <1>4, SMT DEF ControlDrives, Drives, Pushes
<1>5. CASE c.motion = "before_on_use" /\ ks # 0
  BY <1>5, SMT DEF ControlDrives, HoldLoad, Drives, Pushes
<1>6. CASE c.motion = "on_use" /\ ks # 0
  BY <1>6, SMT DEF ControlDrives, OnUseDrives, Drives, Pushes
<1>7. CASE c.motion = "send" /\ ks # 0
  BY <1>7, SMT DEF ControlDrives, SendDrives, Drives, Pushes
<1>8. c.motion \in Motions
  BY DEF Chans
<1> QED
  BY <1>1, <1>2, <1>3, <1>4, <1>5, <1>6, <1>7, <1>8 DEF Motions

LEMMA WithHi ==
  ASSUME NEW j \in Jams, NEW n \in Int
  PROVE  LET r == [j EXCEPT !.hi = n]
         IN /\ r \in Jams /\ r.hi = n /\ r.jam = j.jam /\ r.brake = j.brake
            /\ r.low = j.low /\ r.risen = j.risen
<1>1. [j EXCEPT !.hi = n] \in Jams
  BY Zenon DEF Jams
<1> QED
  BY <1>1, SMT DEF Jams

LEMMA LimitedKeeps ==
  ASSUME NEW c \in Chans, c.jam.jam => c.jam.brake, NEW ks, NEW d \in Nat,
         NEW v \in Drives, ~jam_latch_brakes(c.motion, c.jam),
         v \in Pushes => c.motion \notin {"stop", "stop_on_use", "before_pull_back"}
  PROVE  DrivenFits(c, Limited(c, ks, v, d))
<1> DEFINE idle    == c.motion # "on_use" \/ c.jam.brake \/ ks = 0
           n       == IF idle THEN 0 ELSE IF v = "full" THEN Later(c.jam.hi, d, JamPushMaxMs) ELSE 0
           counted == [c.jam EXCEPT !.hi = n]
           spent   == [counted EXCEPT !.hi = 0, !.brake = TRUE, !.jam = FALSE]
           r       == Limited(c, ks, v, d)
<1>1. c.jam \in Jams /\ "rest" \in Drives /\ "rest" \notin Pushes
  BY DEF Chans, Drives, Pushes
<1>2. n \in Int
  <2>1. Later(c.jam.hi, d, JamPushMaxMs) \in Int
    BY <1>1, JamAssumption, LaterFits DEF Jams
  <2> QED
    BY <2>1
<1>3. n = JamPushMaxMs => c.motion = "on_use" /\ ~c.jam.brake
  BY JamAssumption
<1>4. r = IF v = "rest" THEN [c EXCEPT !.drive = v]
          ELSE IF n = JamPushMaxMs THEN [c EXCEPT !.jam = spent, !.drive = "rest"]
          ELSE [c EXCEPT !.jam = counted, !.drive = v]
  <2>1. r = IF v = "rest" THEN [c EXCEPT !.drive = v]
            ELSE IF PushLimit(counted) THEN [c EXCEPT !.jam = spent, !.drive = "rest"]
            ELSE [c EXCEPT !.jam = counted, !.drive = v]
    <3>1. CASE idle
      BY <3>1 DEF Limited
    <3>2. CASE ~idle
      BY <3>2 DEF Limited, PushCounted
    <3> QED
      BY <3>1, <3>2
  <2>2. counted.hi = n
    BY <1>1, <1>2, WithHi
  <2> HIDE DEF r, counted, spent
  <2> QED
    BY <2>1, <2>2 DEF PushLimit
<1> HIDE DEF r, n
<1>5. /\ counted \in Jams /\ counted.jam = c.jam.jam /\ counted.brake = c.jam.brake
      /\ counted.low = c.jam.low /\ counted.risen = c.jam.risen
  BY <1>1, <1>2, WithHi
<1> HIDE DEF counted
<1>6. CASE v = "rest" \/ n # JamPushMaxMs
  <2>1. PICK j \in {c.jam, counted} : r = [[c EXCEPT !.jam = j] EXCEPT !.drive = v]
    <3>1. CASE v = "rest"
      <4>1. [c EXCEPT !.jam = c.jam] = c
        BY SMT DEF Chans
      <4> QED
        BY <1>4, <3>1, <4>1
    <3>2. CASE v # "rest"
      BY <1>4, <1>6, <3>2
    <3> QED
      BY <3>1, <3>2
  <2> DEFINE b == [c EXCEPT !.jam = j]
  <2>2. j \in Jams
    BY <1>1, <1>5
  <2>3. b \in Chans /\ b.motion = c.motion /\ b.pos = c.pos /\ b.jam = j
    BY <2>2, WithJam
  <2>4. r = [b EXCEPT !.drive = v]
    BY <2>1
  <2> HIDE DEF b
  <2>5. r \in Chans /\ r.motion = c.motion /\ r.pos = c.pos /\ r.jam = j /\ r.drive = v
    BY <2>3, <2>4, Placed
  <2>6. /\ j.jam = c.jam.jam /\ j.brake = c.jam.brake /\ j.low = c.jam.low
        /\ j.risen = c.jam.risen
    BY <1>5, <2>1
  <2>7. DrivenFits(c, r)
    BY <2>5, <2>6, Zenon DEF DrivenFits
  <2> QED
    BY <2>7 DEF r
<1>7. CASE v # "rest" /\ n = JamPushMaxMs
  <2>1. spent \in Jams
    <3>1. 0 \in Int /\ TRUE \in BOOLEAN /\ FALSE \in BOOLEAN
      OBVIOUS
    <3> QED
      BY <1>5, <3>1, Zenon DEF Jams
  <2>2. ~spent.jam /\ spent.low = counted.low /\ spent.risen = counted.risen
    BY <1>5, SMT DEF Jams
  <2> HIDE DEF spent
  <2> DEFINE b == [c EXCEPT !.jam = spent]
  <2>3. b \in Chans /\ b.motion = c.motion /\ b.pos = c.pos /\ b.jam = spent
    BY <2>1, WithJam
  <2>4. r = [b EXCEPT !.drive = "rest"]
    BY <1>4, <1>7
  <2> HIDE DEF b
  <2>5. /\ r \in Chans /\ r.motion = c.motion /\ r.pos = c.pos /\ r.jam = spent
        /\ r.drive = "rest"
    BY <1>1, <2>3, <2>4, Placed
  <2>6. c.motion = "on_use" /\ ~c.jam.brake /\ ~c.jam.jam
    BY <1>3, <1>7
  <2>7. c.jam.jam \in BOOLEAN /\ spent.jam \in BOOLEAN
    BY <1>1, <2>1 DEF Jams
  <2>8. spent.jam = c.jam.jam
    BY <2>2, <2>6, <2>7
  <2>9. DrivenFits(c, r)
    BY <1>1, <1>5, <2>2, <2>5, <2>6, <2>8, Zenon DEF DrivenFits
  <2> QED
    BY <2>9 DEF r
<1> QED
  BY <1>6, <1>7

LEMMA DrivenKeeps ==
  ASSUME NEW c \in Chans, c.jam.jam => c.jam.brake, NEW ks, NEW pct, NEW d \in Nat,
         NEW held \in BOOLEAN, NEW r \in Driven(c, ks, pct, d, held)
  PROVE  DrivenFits(c, r)
<1>1. "rest" \in Drives /\ "rest" \notin Pushes /\ "stop" \in Motions /\ c.jam \in Jams
  BY DEF Drives, Pushes, Motions, Chans
<1>2. CASE r = [c EXCEPT !.motion = "stop", !.drive = "rest"]
  <2>1. r \in Chans
    BY <1>1, <1>2, Zenon DEF Chans
  <2>2. r.pos = c.pos /\ r.motion = "stop" /\ r.drive = "rest" /\ r.jam = c.jam
    BY <1>2, SMT DEF Chans
  <2> QED
    BY <1>1, <2>1, <2>2, Zenon DEF DrivenFits
<1>3. CASE r = [c EXCEPT !.jam.hi = 0, !.drive = "rest"]
  <2> DEFINE j == [c.jam EXCEPT !.hi = 0]
             b == [c EXCEPT !.jam = j]
  <2>1. r = [b EXCEPT !.drive = "rest"]
    BY <1>3
  <2>2. /\ j \in Jams /\ j.jam = c.jam.jam /\ j.brake = c.jam.brake
        /\ j.low = c.jam.low /\ j.risen = c.jam.risen
    BY <1>1, WithHi
  <2> HIDE DEF j
  <2>3. b \in Chans /\ b.motion = c.motion /\ b.pos = c.pos /\ b.jam = j
    BY <2>2, WithJam
  <2> HIDE DEF b
  <2>4. /\ r \in Chans /\ r.motion = c.motion /\ r.pos = c.pos /\ r.jam = j
        /\ r.drive = "rest"
    BY <1>1, <2>1, <2>3, Placed
  <2> QED
    BY <1>1, <2>2, <2>4, Zenon DEF DrivenFits
<1>4. CASE /\ ~jam_latch_brakes(c.motion, c.jam)
           /\ \E v \in ControlDrives(c, ks, pct) : r = Limited(c, ks, v, d)
  <2>1. PICK v \in ControlDrives(c, ks, pct) : r = Limited(c, ks, v, d)
    BY <1>4
  <2> QED
    BY <1>4, <2>1, ControlDrivesFit, LimitedKeeps
<1>5. \/ r = [c EXCEPT !.motion = "stop", !.drive = "rest"]
      \/ r = [c EXCEPT !.jam.hi = 0, !.drive = "rest"]
      \/ /\ ~jam_latch_brakes(c.motion, c.jam)
         /\ \E v \in ControlDrives(c, ks, pct) : r = Limited(c, ks, v, d)
  BY Zenon DEF Driven
<1> QED
  BY <1>2, <1>3, <1>4, <1>5

-----------------------------------------------------------------------------
(* The auto-unload: what a pass may make of a lift and of a retraction.     *)
Unloads(a) ==
  /\ DOMAIN a = {"arm", "active", "empty", "blocked", "waitLow", "limit", "guard"}
  /\ a.waitLow \in BOOLEAN

(* From a to b: no lift begins unless one may and the buffer is up, and no  *)
(* unload begins without a lift.                                            *)
UnloadFits(a, b, low) ==
  /\ Unloads(b)
  /\ b.waitLow = (a.waitLow /\ ~low)
  /\ b.active # Never /\ a.active = Never => a.arm # Never

LEMMA RetractedKeeps ==
  ASSUME NEW a, Unloads(a), NEW pct, NEW ks, NEW high
  PROVE  LET b == Retracted(a, pct, ks, high)
         IN /\ Unloads(b) /\ b.waitLow = a.waitLow /\ b.arm = a.arm
            /\ b.active # Never => a.active # Never
<1> DEFINE b == Retracted(a, pct, ks, high)
<1>1. PICK x, y, z : b = a \/ b = Stopped(a, x) \/ b = [a EXCEPT !.empty = y, !.guard = z]
  BY DEF Retracted
<1> HIDE DEF b
<1>2. CASE b = a
  BY <1>2 DEF b
<1>3. CASE b = Stopped(a, x)
  BY <1>3, SMT DEF Stopped, Unloads, b
<1>4. CASE b = [a EXCEPT !.empty = y, !.guard = z]
  BY <1>4, SMT DEF Unloads, b
<1> QED
  BY <1>1, <1>2, <1>3, <1>4 DEF b

LEMMA LiftedKeeps ==
  ASSUME NEW a, Unloads(a), NEW pct
  PROVE  LET b == Lifted(a, pct)
         IN /\ Unloads(b) /\ b.waitLow = a.waitLow /\ b.active = a.active
            /\ pct < StartPct => b = a
            /\ b.arm # a.arm => ~(pct < StartPct) /\ ~a.waitLow
BY SMT DEF Lifted, Unloads, Unloading

LEMMA LetGoKeeps ==
  ASSUME NEW a, Unloads(a), NEW pct
  PROVE  LET b == LetGo(a, pct)
         IN /\ Unloads(b) /\ b.waitLow = a.waitLow
            /\ b.arm \in {a.arm, Never}
            /\ b.active # a.active => a.arm # Never /\ Neutral(pct)
BY SMT DEF LetGo, Unloads, Unloading

LEMMA UnloadPassKeeps ==
  ASSUME NEW a, Unloads(a), NEW online, NEW idle, NEW pct \in Int, NEW ks, NEW high
  PROVE  LET b == auto_unload_pass(a, online, TRUE, idle, pct, ks, high)
         IN /\ UnloadFits(a, b, pct < NeutralHiPct)
            /\ b.arm # Never => a.arm # Never \/ (pct >= StartPct /\ ~a.waitLow)
<1> DEFINE s == [a EXCEPT !.waitLow = @ /\ pct >= NeutralHiPct, !.limit = FALSE]
           b == auto_unload_pass(a, online, TRUE, idle, pct, ks, high)
           l == Lifted(s, pct)
           g == LetGo(l, pct)
<1>1. /\ Unloads(s) /\ s.waitLow = (a.waitLow /\ ~(pct < NeutralHiPct))
      /\ s.arm = a.arm /\ s.active = a.active
  BY AutoUnloadAssumption, SMT DEF Unloads
<1>2. b = auto_unload_reset(s) \/ b = Retracted(g, pct, ks, high)
  BY DEF auto_unload_pass
<1>3. pct >= StartPct => ~(pct < NeutralHiPct) /\ ~Neutral(pct) /\ ~(pct < StartPct)
  BY AutoUnloadAssumption DEF Neutral
<1>4. ~(pct < StartPct) => pct >= StartPct
  BY AutoUnloadAssumption
<1> HIDE DEF s, b
<1>5. CASE b = auto_unload_reset(s)
  <2>1. Unloads(b) /\ b.waitLow = s.waitLow /\ b.arm = Never /\ b.active = Never
    BY <1>1, <1>5, SMT DEF auto_unload_reset, NoAutoUnload, Unloads
  <2> QED
    BY <1>1, <2>1 DEF UnloadFits, b
<1>6. CASE b = Retracted(g, pct, ks, high)
  <2>1. /\ Unloads(l) /\ l.waitLow = s.waitLow /\ l.active = s.active
        /\ pct < StartPct => l = s
        /\ l.arm # s.arm => ~(pct < StartPct) /\ ~s.waitLow
    BY <1>1, LiftedKeeps
  <2> HIDE DEF l
  <2>2. /\ Unloads(g) /\ g.waitLow = l.waitLow /\ g.arm \in {l.arm, Never}
        /\ g.active # l.active => l.arm # Never /\ Neutral(pct)
    BY <2>1, LetGoKeeps
  <2> HIDE DEF g
  <2>3. /\ Unloads(b) /\ b.waitLow = g.waitLow /\ b.arm = g.arm
        /\ b.active # Never => g.active # Never
    BY <1>6, <2>2, RetractedKeeps
  <2>4. b.active # Never /\ a.active = Never => a.arm # Never
    BY <1>1, <1>3, <1>4, <2>1, <2>2, <2>3
  <2>5. b.arm # Never => a.arm # Never \/ (pct >= StartPct /\ ~a.waitLow)
    BY <1>1, <1>3, <1>4, <2>1, <2>2, <2>3
  <2> QED
    BY <1>1, <2>1, <2>2, <2>3, <2>4, <2>5, Zenon DEF UnloadFits, b
<1> QED
  BY <1>2, <1>5, <1>6

-----------------------------------------------------------------------------
(* How a pass ends for the channel it hands to the motor, or brakes.        *)
EndFits(c, r) ==
  /\ r \in Chans /\ MotionFits(r)
  /\ r.jam.jam = c.jam.jam /\ r.jam.low = c.jam.low /\ r.jam.risen = c.jam.risen
  /\ r.jam.jam /\ c.jam.brake => r.jam.brake
  /\ r.jam.jam /\ r.drive \in Pushes => r.motion = "pull"

(* What a pass with fresh readings remembers, field by field. *)
SeenFits(host, ks, pct, online, good, d, c) ==
  /\ key' = ks
  /\ DOMAIN seen' = {"tangle", "low", "lift", "pulled", "spent"}
  /\ seen'.tangle = ( \/ ~chan.jam.jam /\ c.jam.jam
                      \/ seen.tangle /\ ks # 0 /\ pct < JamTripPct)
  /\ seen'.low = LowSeen(ks, pct, d)
  /\ seen'.lift = LiftSeen(IF JamOnPass(ks, c) THEN "none" ELSE seen.lift, pct)
  /\ seen'.spent = SpentNow(host, online, good)

LEMMA SeenNow ==
  ASSUME NEW host, NEW ks, NEW pct, NEW online, NEW good, NEW d, NEW c,
         Noticed(host, ks, pct, online, good, d, c)
  PROVE  SeenFits(host, ks, pct, online, good, d, c)
<1> DEFINE tangle == \/ ~chan.jam.jam /\ c.jam.jam
                     \/ seen.tangle /\ ks # 0 /\ pct < JamTripPct
           low    == LowSeen(ks, pct, d)
           lift   == LiftSeen(IF JamOnPass(ks, c) THEN "none" ELSE seen.lift, pct)
           pulled == PulledFor(d)
           spent  == SpentNow(host, online, good)
<1>1. key' = ks /\ seen' = [tangle |-> tangle, low |-> low, lift |-> lift,
                            pulled |-> pulled, spent |-> spent]
  BY Zenon DEF Noticed
<1> HIDE DEF tangle, low, lift, pulled, spent
<1>2. /\ DOMAIN seen' = {"tangle", "low", "lift", "pulled", "spent"}
      /\ seen'.tangle = tangle /\ seen'.low = low /\ seen'.lift = lift
      /\ seen'.spent = spent
  BY <1>1, SMT
<1> QED
  BY <1>1, <1>2, Zenon DEF SeenFits, tangle, low, lift, pulled, spent

LEMMA LowSeenFits ==
  ASSUME Typed, NEW ks, NEW pct, NEW d \in Nat
  PROVE  LowSeen(ks, pct, d) \in Nat \cup {Never}
<1>1. seen.low # Never => Later(seen.low, d, JamTripMs) \in Nat
  <2> SUFFICES ASSUME seen.low # Never PROVE Later(seen.low, d, JamTripMs) \in Nat
    OBVIOUS
  <2>1. seen.low \in Nat /\ JamTripMs \in Nat
    BY JamAssumption DEF Typed
  <2> QED
    BY <2>1, LaterFits
<1> QED
  BY <1>1 DEF LowSeen

(* A pass with fresh readings handles the jam as it was read. *)
LEMMA JamStep ==
  ASSUME ChannelInv, NEW host, NEW ks \in Int, NEW pct \in Int, NEW online \in BOOLEAN,
         NEW good, NEW d \in Nat \ {0}, NEW c1, NEW c2,
         LatchedFits(c1, ks, pct, d),
         CommandedFits(c1, c2, ks, host, pct, FALSE, online),
         EndFits(c2, chan'), Noticed(host, ks, pct, online, good, d, c1)
  PROVE  /\ (JamInv /\ TangleInv /\ MotionFits(chan) /\ NoPushIntoJam)'
         /\ TripsOnFreshReadings
<1>1. /\ key' = ks /\ seen'.low = LowSeen(ks, pct, d)
      /\ seen'.tangle = ( \/ ~chan.jam.jam /\ c1.jam.jam
                          \/ seen.tangle /\ ks # 0 /\ pct < JamTripPct)
  BY SeenNow, Zenon DEF SeenFits
<1>2. pct < JamTripPct => ~(pct > JamAwayPct)
  BY JamAssumption
<1>3. pct < JamTripPct /\ c1.jam.jam => c2.jam.jam
  BY <1>2 DEF CommandedFits
<1>4. chan.jam.jam \in BOOLEAN /\ c1.jam.jam \in BOOLEAN /\ c2.jam.jam \in BOOLEAN
  BY DEF ChannelInv, Typed, LatchedFits, CommandedFits, Chans, Jams
<1>5. ~chan.jam.jam => (chan'.jam.jam <=> seen'.low = JamTripMs)
  BY <1>1, <1>3, <1>4, Zenon DEF LatchedFits, CommandedFits, EndFits
<1>6. chan.jam.jam => LowSeen(ks, pct, d) = Never
  BY DEF LowSeen
<1>7. Never # JamTripMs
  BY JamAssumption DEF Never
<1>8. ASSUME chan'.jam.jam PROVE JamInv'
  <2>1. chan'.jam.brake /\ chan'.jam.low = Never
    BY <1>8, Zenon DEF LatchedFits, CommandedFits, EndFits
  <2> QED
    BY <1>8, <2>1 DEF JamInv
<1>9. ASSUME ~chan'.jam.jam PROVE JamInv'
  <2>1. chan'.jam.low = seen'.low /\ seen'.low # JamTripMs
    <3>1. CASE ~c1.jam.jam
      BY <1>1, <3>1, Zenon DEF LatchedFits, CommandedFits, EndFits
    <3>2. CASE c1.jam.jam
      <4>1. chan'.jam.low = Never /\ ~(pct < JamTripPct)
        BY <1>3, <1>9, <3>2, Zenon DEF LatchedFits, CommandedFits, EndFits
      <4>2. chan.jam.jam
        BY <3>2, <4>1, Zenon DEF LatchedFits
      <4> QED
        BY <1>1, <1>6, <1>7, <4>1, <4>2
    <3> QED
      BY <3>1, <3>2
  <2> QED
    BY <1>9, <2>1 DEF JamInv
<1>10. JamInv'
  BY <1>8, <1>9
<1>11. TangleInv'
  <2> SUFFICES ASSUME seen'.tangle PROVE chan'.jam.jam /\ ~chan'.jam.risen /\ key' # 0
    BY DEF TangleInv
  <2>1. pct < JamTripPct /\ c1.jam.jam /\ ~c1.jam.risen
    BY <1>1, Zenon DEF LatchedFits
  <2>2. c2.jam.jam
    BY <1>3, <2>1
  <2>3. ks # 0
    BY <2>1, Zenon DEF LatchedFits
  <2> QED
    BY <1>1, <2>1, <2>2, <2>3, Zenon DEF CommandedFits, EndFits
<1>12. MotionFits(chan)' /\ NoPushIntoJam'
  BY Zenon DEF EndFits, NoPushIntoJam, MotionFits
<1> QED
  BY <1>5, <1>10, <1>11, <1>12 DEF TripsOnFreshReadings

(* A push whose time is used up stays braked, and is not taken for a jam.   *)
LEMMA SpentStep ==
  ASSUME ChannelInv, NEW host, NEW ks \in Int, NEW pct \in Int, NEW online \in BOOLEAN,
         NEW d, NEW c1, NEW c2,
         LatchedFits(c1, ks, pct, d),
         CommandedFits(c1, c2, ks, host, pct, FALSE, online),
         DrivenFits(c2, chan'), key' = ks, seen'.spent = SpentNow(host, online, TRUE)
  PROVE  SpentInv'
<1> SUFFICES ASSUME seen'.spent
             PROVE  /\ chan'.jam.brake /\ ~chan'.jam.jam /\ chan'.drive \notin Pushes
                    /\ chan'.motion \in {"on_use", "stop"} /\ chan'.pos = "using"
  BY DEF SpentInv
<1>1. /\ host = "on_use" /\ online /\ ks # 0 /\ ~chan'.jam.jam
      /\ seen.spent \/ (~chan.jam.brake /\ chan'.jam.brake)
  BY DEF SpentNow
<1>2. ~c2.jam.jam /\ ~c1.jam.jam
  <2>1. "on_use" # "send_out"
    OBVIOUS
  <2> QED
    BY <1>1, <2>1, Zenon DEF CommandedFits, DrivenFits
<1>3. CASE seen.spent
  <2>1. /\ chan.jam.brake /\ ~chan.jam.jam
        /\ chan.motion \in {"on_use", "stop"} /\ chan.pos = "using"
    BY <1>3 DEF ChannelInv, SpentInv
  <2>2. c1.jam.brake /\ c1.motion = chan.motion /\ c1.pos = "using"
    BY <1>1, <2>1, Zenon DEF LatchedFits
  <2>3. c2.motion \in {"on_use", "stop"} /\ c2.pos = "using" /\ c2.jam.brake
    BY <1>1, <2>1, <2>2, Zenon DEF CommandedFits
  <2>4. c2.motion = "stop" \/ jam_latch_brakes(c2.motion, c2.jam)
    BY <2>3 DEF jam_latch_brakes
  <2>5. chan'.drive \notin Pushes
    BY <2>4 DEF DrivenFits
  <2>6. chan'.motion \in {"on_use", "stop"} /\ chan'.pos = "using" /\ chan'.jam.brake
    BY <2>3 DEF DrivenFits
  <2> QED
    BY <1>1, <2>5, <2>6
<1>4. CASE ~chan.jam.brake /\ chan'.jam.brake
  <2>1. ~c1.jam.brake
    BY <1>2, <1>4, Zenon DEF LatchedFits
  <2>2. ~c2.jam.brake
    BY <2>1, Zenon DEF CommandedFits
  <2>3. chan'.motion = "on_use" /\ chan'.drive = "rest"
    BY <1>4, <2>2, Zenon DEF DrivenFits
  <2>4. c2.motion = "on_use"
    BY <2>3 DEF DrivenFits
  <2>5. chan'.pos = "using"
    BY <2>4, Zenon DEF DrivenFits, CommandedFits, MotionFits
  <2> QED
    BY <1>1, <1>4, <2>3, <2>5 DEF Pushes
<1> QED
  BY <1>1, <1>3, <1>4

(* What a driven channel is for the latch. *)
LEMMA DrivenEnds ==
  ASSUME NEW c, NEW r, MotionFits(c), DrivenFits(c, r), c.jam.jam => c.jam.brake,
         c.motion = "redetect" => ~c.jam.jam
  PROVE  EndFits(c, r)
<1>1. r \in Chans /\ r.pos = c.pos /\ r.motion \in {c.motion, "stop"}
      /\ r.jam.jam = c.jam.jam /\ r.motion \in Motions
  BY DEF DrivenFits, Chans
<1>2. MotionFits(r)
  BY <1>1 DEF MotionFits
<1>3. ASSUME r.jam.jam, r.drive \in Pushes PROVE r.motion = "pull"
  <2>1. /\ ~jam_latch_brakes(c.motion, c.jam) /\ r.motion = c.motion
        /\ c.motion \notin {"stop", "stop_on_use", "before_pull_back"}
    BY <1>3, Zenon DEF DrivenFits
  <2>2. c.jam.jam /\ c.jam.brake
    BY <1>1, <1>3
  <2>3. c.motion \notin {"on_use", "before_on_use", "idle"}
    BY <2>1, <2>2 DEF jam_latch_brakes
  <2>4. c.motion # "send" /\ c.motion # "redetect"
    BY <2>2 DEF MotionFits
  <2> QED
    BY <1>1, <2>1, <2>3, <2>4 DEF Motions
<1> QED
  BY <1>2, <1>3, Zenon DEF EndFits, DrivenFits

LEMMA LatchedMotion ==
  ASSUME ChannelInv, NEW c, NEW ks, NEW pct, NEW d, LatchedFits(c, ks, pct, d)
  PROVE  MotionFits(c)
<1>1. MotionFits(chan) /\ c.motion \in {chan.motion, "stop"} /\ c.pos = chan.pos
  BY DEF ChannelInv, LatchedFits
<1>2. c.motion = "send" => ~c.jam.jam
  <2> SUFFICES ASSUME c.motion = "send", c.jam.jam PROVE FALSE
    OBVIOUS
  <2>1. chan.motion = "send" /\ ~chan.jam.jam
    BY <1>1 DEF MotionFits
  <2> QED
    BY <2>1 DEF LatchedFits
<1> QED
  BY <1>1, <1>2 DEF MotionFits

-----------------------------------------------------------------------------
LEMMA HeldOffKeeps ==
  ASSUME Unloads(au), NEW ks, NEW c, NEW d, NEW move
  PROVE  LET u == HeldOff(ks, c, d, move)
         IN /\ Unloads(u)
            /\ u.arm # Never => ~JamOnPass(ks, c) /\ au.arm # Never
            /\ ~u.waitLow => ~JamOnPass(ks, c) /\ ~au.waitLow
            /\ au.active = Never => u.active = Never
<1> DEFINE g == IF Unloading(au) THEN GuardLater(au.guard, d, move) ELSE motion_guard_start(0, 0)
           a == AutoUnloadLater(au, d, move)
           u == HeldOff(ks, c, d, move)
<1>1. /\ Unloads(a) /\ a.waitLow = au.waitLow
      /\ a.arm = Later(au.arm, d, ArmMs + 1) /\ a.active = Later(au.active, d, MaxMs)
  <2>1. a = [au EXCEPT !.arm = Later(@, d, ArmMs + 1), !.active = Later(@, d, MaxMs),
                       !.empty = Later(@, d, EmptyMs), !.guard = g]
    BY DEF AutoUnloadLater
  <2> HIDE DEF a, g
  <2> QED
    BY <2>1, SMT DEF Unloads
<1> HIDE DEF a
<1>2. (a.arm # Never => au.arm # Never) /\ (au.active = Never => a.active = Never)
  BY <1>1, LaterFits
<1>3. u = IF JamOnPass(ks, c) THEN [a EXCEPT !.waitLow = TRUE, !.arm = Never] ELSE a
  BY DEF HeldOff, auto_unload_hold, a
<1>4. CASE JamOnPass(ks, c)
  <2>1. Unloads(u) /\ u.waitLow /\ u.arm = Never /\ u.active = a.active
    <3> HIDE DEF u
    <3> QED
      BY <1>1, <1>3, <1>4, SMT DEF Unloads
  <2> QED
    BY <1>2, <2>1
<1>5. CASE ~JamOnPass(ks, c)
  <2>1. u = a
    BY <1>3, <1>5
  <2> QED
    BY <1>1, <1>2, <1>5, <2>1
<1> QED
  BY <1>4, <1>5

(* Only a lift from below the neutral band counts, and a jam takes it back. *)
LEMMA LiftStep ==
  ASSUME ChannelInv, NEW ks, NEW pct \in Int, NEW c, NEW d, NEW move,
         NEW online, NEW idle, NEW high,
         seen'.lift = LiftSeen(IF JamOnPass(ks, c) THEN "none" ELSE seen.lift, pct),
         LET u == HeldOff(ks, c, d, move)
         IN au' = u \/ au' = auto_unload_pass(u, online, TRUE, idle, pct, ks, high)
  PROVE  /\ Unloads(au') /\ LiftInv' /\ seen'.lift \in {"none", "low", "up"}
         /\ ~Unloading(au) /\ Unloading(au') => seen.lift = "up"
<1> DEFINE u == HeldOff(ks, c, d, move)
           b == auto_unload_pass(u, online, TRUE, idle, pct, ks, high)
<1>1. /\ Unloads(u)
      /\ u.arm # Never => ~JamOnPass(ks, c) /\ au.arm # Never
      /\ ~u.waitLow => ~JamOnPass(ks, c) /\ ~au.waitLow
      /\ au.active = Never => u.active = Never
  <2>1. Unloads(au)
    BY DEF ChannelInv, Typed, Unloads
  <2> QED
    BY <2>1, HeldOffKeeps
<1> HIDE DEF u
<1>2. /\ Unloads(b) /\ b.waitLow = (u.waitLow /\ ~(pct < NeutralHiPct))
      /\ b.active # Never /\ u.active = Never => u.arm # Never
      /\ b.arm # Never => u.arm # Never \/ (pct >= StartPct /\ ~u.waitLow)
  <2>1. /\ UnloadFits(u, b, pct < NeutralHiPct)
        /\ b.arm # Never => u.arm # Never \/ (pct >= StartPct /\ ~u.waitLow)
    BY <1>1, UnloadPassKeeps
  <2> HIDE DEF b
  <2> QED
    BY <2>1, Zenon DEF UnloadFits
<1> HIDE DEF b
<1>3. au' = u \/ au' = b
  BY DEF u, b
<1>4. /\ seen.lift \in {"none", "low", "up"}
      /\ au.arm # Never => seen.lift = "up"
      /\ ~au.waitLow => seen.lift \in {"low", "up"}
  BY DEF ChannelInv, Typed, LiftInv
<1>5. u.arm # Never => seen.lift = "up" /\ seen'.lift = "up"
  BY <1>1, <1>4 DEF LiftSeen
<1>6. ~u.waitLow => /\ seen'.lift \in {"low", "up"}
                    /\ pct >= StartPct => seen'.lift = "up"
  BY <1>1, <1>4 DEF LiftSeen
<1>7. seen'.lift \in {"none", "low", "up"}
  BY <1>4 DEF LiftSeen
<1>8. pct < NeutralHiPct => seen'.lift \in {"low", "up"}
  BY <1>4, AutoUnloadAssumption DEF LiftSeen
<1>9. CASE au' = u
  <2>1. LiftInv'
    BY <1>5, <1>6, <1>9 DEF LiftInv
  <2> QED
    BY <1>1, <1>7, <1>9, <2>1 DEF Unloading
<1>10. CASE au' = b
  <2>1. LiftInv'
    BY <1>2, <1>5, <1>6, <1>8, <1>10 DEF LiftInv
  <2>2. ~Unloading(au) /\ Unloading(au') => seen.lift = "up"
    BY <1>1, <1>2, <1>5, <1>10 DEF Unloading
  <2> QED
    BY <1>2, <1>7, <1>10, <2>1, <2>2
<1> QED
  BY <1>3, <1>9, <1>10

-----------------------------------------------------------------------------
(* What a step may not do, beside keeping the invariant. *)
StepFits ==
  TripsOnFreshReadings /\ (~Unloading(au) /\ Unloading(au') => seen.lift = "up")

LEMMA FreshKeeps ==
  ASSUME ChannelInv, NEW host, NEW ks \in Keys, NEW pct \in Levels,
         NEW online \in BOOLEAN, NEW held \in BOOLEAN, NEW ends \in BOOLEAN,
         NEW d \in Ticks, NEW move, FreshPass(host, ks, pct, online, held, ends, d, move)
  PROVE  ChannelInv' /\ StepFits
<1> DEFINE c1   == Latched(host, ks, pct, online, d)
           c2   == Commanded(c1, ks, host, pct, FALSE, online, held, ends)
           idle == c2.motion = "idle"
           high == c2.drive = "unload"
           u    == HeldOff(ks, c1, d, move)
           a    == auto_unload_pass(u, online, TRUE, idle, pct, ks, high)
           own  == AutoUnloadDrive(a, online, TRUE, pct, ks)
<1>1. ks \in Int /\ pct \in Int /\ d \in Nat \ {0} /\ d \in Nat
  BY PassAssumption
<1>2. /\ chan' \in IF own = "none" THEN Driven(c2, ks, pct, d, held)
                   ELSE {[c2 EXCEPT !.drive = own]}
      /\ au' = a
  BY DEF FreshPass
<1>n. Noticed(host, ks, pct, online, TRUE, d, c1)
  BY DEF FreshPass
<1>3. own \in {"none", "unload", "empty_pull"}
  BY DEF AutoUnloadDrive
<1>u. au' = auto_unload_pass(HeldOff(ks, c1, d, move), online, TRUE, idle, pct, ks, high)
  BY <1>2
<1> HIDE DEF own, a, u, idle, high
<1>4. LatchedFits(c1, ks, pct, d)
  BY <1>1, LatchedKeeps DEF ChannelInv
<1> HIDE DEF c1
<1>5. MotionFits(c1)
  BY <1>4, LatchedMotion
<1>6. CommandedFits(c1, c2, ks, host, pct, FALSE, online)
  <2>1. c1 \in Chans /\ FALSE \in BOOLEAN
    BY <1>4 DEF LatchedFits
  <2> QED
    BY <1>5, <2>1, CommandedKeeps
<1> HIDE DEF c2
<1>7. /\ c2 \in Chans /\ MotionFits(c2)
      /\ c2.jam.jam => c2.jam.brake /\ ks # 0
      /\ c2.motion = "redetect" => ~c2.jam.jam
  BY <1>4, <1>6, Zenon DEF LatchedFits, CommandedFits
<1>8. DrivenFits(c2, chan')
  <2>1. CASE own = "none"
    <3>1. chan' \in Driven(c2, ks, pct, d, held)
      BY <1>2, <2>1
    <3> QED
      BY <1>1, <1>7, <3>1, DrivenKeeps
  <2>2. CASE own \in {"unload", "empty_pull"}
    <3>1. chan' = [c2 EXCEPT !.drive = own]
      BY <1>2, <2>2
    <3>2. own \in Drives /\ own \notin Pushes
      BY <2>2 DEF Drives, Pushes
    <3>3. /\ chan' \in Chans /\ chan'.motion = c2.motion /\ chan'.pos = c2.pos
          /\ chan'.jam = c2.jam /\ chan'.drive = own
      BY <1>7, <3>1, <3>2, Placed
    <3> QED
      BY <3>2, <3>3, Zenon DEF DrivenFits
  <2> QED
    BY <1>3, <2>1, <2>2
<1>9. EndFits(c2, chan')
  BY <1>7, <1>8, DrivenEnds
<1>s. SeenFits(host, ks, pct, online, TRUE, d, c1)
  BY <1>n, SeenNow
<1>10. /\ key' = ks
       /\ DOMAIN seen' = {"tangle", "low", "lift", "pulled", "spent"}
       /\ seen'.tangle = ( \/ ~chan.jam.jam /\ c1.jam.jam
                           \/ seen.tangle /\ ks # 0 /\ pct < JamTripPct)
       /\ seen'.low = LowSeen(ks, pct, d)
       /\ seen'.lift = LiftSeen(IF JamOnPass(ks, c1) THEN "none" ELSE seen.lift, pct)
       /\ seen'.spent = SpentNow(host, online, TRUE)
  BY <1>s, Zenon DEF SeenFits
<1>11. /\ (JamInv /\ TangleInv /\ MotionFits(chan) /\ NoPushIntoJam)'
       /\ TripsOnFreshReadings
  BY <1>1, <1>n, <1>4, <1>6, <1>9, JamStep
<1>12. SpentInv'
  BY <1>1, <1>4, <1>6, <1>8, <1>10, SpentStep
<1>13. /\ Unloads(au') /\ LiftInv' /\ seen'.lift \in {"none", "low", "up"}
       /\ ~Unloading(au) /\ Unloading(au') => seen.lift = "up"
  BY <1>1, <1>10, <1>u, LiftStep
<1>14. Typed'
  <2>1. seen'.low \in Nat \cup {Never}
    BY <1>1, <1>10, LowSeenFits DEF ChannelInv
  <2>2. seen'.tangle \in BOOLEAN /\ seen'.spent \in BOOLEAN
    <3>1. SpentNow(host, online, TRUE) \in BOOLEAN
      BY Zenon DEF SpentNow
    <3> QED
      BY <1>10, <3>1, Zenon
  <2>3. chan' \in Chans
    BY <1>9 DEF EndFits
  <2> QED
    BY <1>10, <1>13, <2>1, <2>2, <2>3 DEF Typed, Unloads
<1> QED
  BY <1>11, <1>12, <1>13, <1>14 DEF ChannelInv, StepFits

LEMMA BadSensorKeeps ==
  ASSUME ChannelInv, NEW host, NEW ks \in Keys, NEW pct \in Levels,
         NEW online \in BOOLEAN, NEW held \in BOOLEAN, NEW ends \in BOOLEAN,
         NEW d \in Ticks, NEW move, BadSensorPass(host, ks, pct, online, held, ends, d, move)
  PROVE  ChannelInv' /\ StepFits
<1> DEFINE c1 == Latched(host, ks, pct, online, d)
           c2 == Commanded(c1, ks, host, pct, FALSE, online, held, ends)
           s  == set_motion(c2, "stop")
<1>1. ks \in Int /\ pct \in Int /\ d \in Nat \ {0} /\ d \in Nat
  BY PassAssumption
<1>2. /\ chan' = [s EXCEPT !.drive = "brake"]
      /\ au' = HeldOff(ks, c1, d, move)
  BY DEF BadSensorPass, motor_brake_now
<1>n. PICK good \in BOOLEAN : ~good /\ Noticed(host, ks, pct, online, good, d, c1)
  <2>1. Noticed(host, ks, pct, online, FALSE, d, c1)
    BY DEF BadSensorPass
  <2> QED
    BY <2>1, Zenon
<1>4. LatchedFits(c1, ks, pct, d)
  BY <1>1, LatchedKeeps DEF ChannelInv
<1> HIDE DEF c1
<1>5. MotionFits(c1)
  BY <1>4, LatchedMotion
<1>6. CommandedFits(c1, c2, ks, host, pct, FALSE, online)
  <2>1. c1 \in Chans /\ FALSE \in BOOLEAN
    BY <1>4 DEF LatchedFits
  <2> QED
    BY <1>5, <2>1, CommandedKeeps
<1> HIDE DEF c2
<1>7. /\ c2 \in Chans /\ MotionFits(c2)
  BY <1>6 DEF CommandedFits
<1>8. /\ s \in Chans /\ MotionFits(s) /\ s.jam.low = c2.jam.low
      /\ s.jam.risen = c2.jam.risen /\ s.jam.jam = c2.jam.jam
      /\ c2.jam.brake /\ c2.jam.jam => s.jam.brake
  <2>1. "stop" \in Motions
    BY DEF Motions
  <2> QED
    BY <1>7, <2>1, StopsHere
<1> HIDE DEF s
<1>9. EndFits(c2, chan')
  <2>1. "brake" \in Drives /\ "brake" \notin Pushes
    BY DEF Drives, Pushes
  <2>2. /\ chan' \in Chans /\ chan'.motion = s.motion /\ chan'.pos = s.pos
        /\ chan'.jam = s.jam /\ chan'.drive = "brake"
    BY <1>2, <1>8, <2>1, Placed
  <2>3. MotionFits(chan')
    BY <1>8, <2>2 DEF MotionFits
  <2> QED
    BY <1>8, <2>1, <2>2, <2>3, Zenon DEF EndFits
<1>s. SeenFits(host, ks, pct, online, good, d, c1)
  BY <1>n, SeenNow
<1>10. /\ key' = ks
       /\ DOMAIN seen' = {"tangle", "low", "lift", "pulled", "spent"}
       /\ seen'.tangle = ( \/ ~chan.jam.jam /\ c1.jam.jam
                           \/ seen.tangle /\ ks # 0 /\ pct < JamTripPct)
       /\ seen'.low = LowSeen(ks, pct, d)
       /\ seen'.lift = LiftSeen(IF JamOnPass(ks, c1) THEN "none" ELSE seen.lift, pct)
       /\ seen'.spent = SpentNow(host, online, good)
  BY <1>s, Zenon DEF SeenFits
<1>11. /\ (JamInv /\ TangleInv /\ MotionFits(chan) /\ NoPushIntoJam)'
       /\ TripsOnFreshReadings
  BY <1>1, <1>n, <1>4, <1>6, <1>9, JamStep
<1>12. seen'.spent = FALSE /\ SpentInv'
  BY <1>n, <1>10, Zenon DEF SpentNow, SpentInv
<1>13. /\ Unloads(au') /\ LiftInv' /\ seen'.lift \in {"none", "low", "up"}
       /\ ~Unloading(au) /\ Unloading(au') => seen.lift = "up"
  BY <1>1, <1>2, <1>10, LiftStep
<1>14. Typed'
  <2>1. seen'.low \in Nat \cup {Never}
    BY <1>1, <1>10, LowSeenFits DEF ChannelInv
  <2>2. seen'.tangle \in BOOLEAN /\ seen'.spent \in BOOLEAN
    BY <1>10, <1>12, Zenon
  <2>3. chan' \in Chans
    BY <1>9 DEF EndFits
  <2> QED
    BY <1>10, <1>13, <2>1, <2>2, <2>3 DEF Typed, Unloads
<1> QED
  BY <1>11, <1>12, <1>13, <1>14 DEF ChannelInv, StepFits

(* A stale pass sees nothing: it neither trips nor releases, and only an    *)
(* empty key ends a jam.                                                    *)
StaleFits(c) ==
  /\ c \in Chans /\ MotionFits(c) /\ c.pos = chan.pos
  /\ c.jam.jam => chan.jam.jam /\ c.jam.brake /\ key # 0
  /\ c.jam.low = Never
  /\ c.jam.brake => chan.jam.brake
  /\ key # 0 => /\ c.motion = chan.motion /\ c.jam.jam = chan.jam.jam
               /\ c.jam.brake = chan.jam.brake /\ c.jam.risen = chan.jam.risen

LEMMA StaleLatch ==
  ASSUME ChannelInv, NEW host, NEW online \in BOOLEAN, NEW d \in Nat
  PROVE  LET c1 == KeyPass([chan EXCEPT !.jam = JamLater(@, d)], key, host, online)
         IN StaleFits([c1 EXCEPT !.jam = jam_latch_skip(@)])
<1> DEFINE a  == [chan EXCEPT !.jam = JamLater(@, d)]
           c1 == KeyPass(a, key, host, online)
           j  == jam_latch_skip(c1.jam)
           c2 == [c1 EXCEPT !.jam = j]
<1>1. chan \in Chans /\ MotionFits(chan) /\ (chan.jam.jam => chan.jam.brake)
  BY DEF ChannelInv, Typed, JamInv
<1>2. /\ a \in Chans /\ a.motion = chan.motion /\ a.pos = chan.pos
      /\ a.jam.jam = chan.jam.jam /\ a.jam.brake = chan.jam.brake
      /\ a.jam.risen = chan.jam.risen
  BY <1>1, Aged
<1> HIDE DEF a
<1>3. key # 0 => c1 = a
  BY DEF KeyPass
<1>4. /\ c1 \in Chans /\ c1.pos = chan.pos /\ c1.motion \in {chan.motion, "stop"}
      /\ c1.jam.jam => key # 0
      /\ c1.jam.brake => chan.jam.brake
  <2>1. CASE key = 0
    <3>1. c1 = KeyNone(a, host, online)
      BY <2>1 DEF KeyPass
    <3> HIDE DEF c1
    <3> QED
      BY <1>2, <3>1, KeyGone
  <2>2. CASE key # 0
    BY <1>2, <1>3, <2>2, Zenon
  <2> QED
    BY <2>1, <2>2
<1> HIDE DEF c1
<1>5. /\ j \in Jams /\ j.jam = c1.jam.jam /\ j.brake = c1.jam.brake
      /\ j.risen = c1.jam.risen /\ j.low = Never
  <2>1. c1.jam \in Jams /\ Never \in Int
    BY <1>4 DEF Chans, Never
  <2>2. j \in Jams
    BY <2>1, Zenon DEF jam_latch_skip, Jams
  <2> QED
    BY <2>1, <2>2, SMT DEF jam_latch_skip, Jams
<1> HIDE DEF j
<1>6. c2 \in Chans /\ c2.motion = c1.motion /\ c2.pos = c1.pos /\ c2.jam = j
  BY <1>4, <1>5, WithJam
<1> HIDE DEF c2
<1>7. c2.motion = "send" => ~c2.jam.jam
  <2> SUFFICES ASSUME c2.motion = "send", c2.jam.jam PROVE FALSE
    OBVIOUS
  <2>1. c1 = a
    BY <1>3, <1>4, <1>5, <1>6
  <2> QED
    BY <1>1, <1>2, <1>5, <1>6, <2>1 DEF MotionFits
<1>8. MotionFits(c2)
  BY <1>1, <1>4, <1>6, <1>7 DEF MotionFits
<1>9. StaleFits(c2)
  BY <1>1, <1>2, <1>3, <1>4, <1>5, <1>6, <1>8, Zenon DEF StaleFits
<1> QED
  BY <1>9 DEF c2, j, c1, a

LEMMA StaleKeeps ==
  ASSUME ChannelInv, NEW host, NEW online \in BOOLEAN, NEW held \in BOOLEAN,
         NEW ends \in BOOLEAN, NEW d \in Ticks, StalePass(host, online, held, ends, d)
  PROVE  ChannelInv' /\ StepFits
<1> DEFINE c1 == KeyPass([chan EXCEPT !.jam = JamLater(@, d)], key, host, online)
           c2 == [c1 EXCEPT !.jam = jam_latch_skip(@)]
           c3 == Commanded(c2, key, host, 0, TRUE, online, held, ends)
           u  == AutoUnloadLater(au, d, 0)
           spent == SpentNow(host, online, TRUE)
<1>1. d \in Nat
  BY PassAssumption
<1>2. /\ chan' = [c3 EXCEPT !.drive = "brake"]
      /\ au' = auto_unload_reset(u) /\ key' = key
      /\ seen' = [seen EXCEPT !.low = Never, !.pulled = 0, !.spent = spent]
  BY DEF StalePass, motor_brake_hold
<1>3. StaleFits(c2)
  BY <1>1, StaleLatch
<1> HIDE DEF c2
<1>4. CommandedFits(c2, c3, key, host, 0, TRUE, online)
  <2>1. c2 \in Chans /\ MotionFits(c2)
    BY <1>3 DEF StaleFits
  <2> QED
    BY <2>1, CommandedKeeps
<1> HIDE DEF c3
<1>5. /\ chan' \in Chans /\ chan'.motion = c3.motion /\ chan'.pos = c3.pos
      /\ chan'.jam = c3.jam /\ chan'.drive = "brake"
  <2>1. c3 \in Chans /\ "brake" \in Drives
    BY <1>4 DEF CommandedFits, Drives
  <2> QED
    BY <1>2, <2>1, Placed
<1>6. "brake" \notin Pushes
  BY DEF Pushes
<1>7. c3.jam.jam = c2.jam.jam
  <2>1. c3.jam.jam \in BOOLEAN /\ c2.jam.jam \in BOOLEAN
    BY <1>3, <1>4 DEF StaleFits, CommandedFits, Chans, Jams
  <2> QED
    BY <1>4, <2>1, Zenon DEF CommandedFits
<1>8. /\ DOMAIN seen' = DOMAIN seen /\ seen'.tangle = seen.tangle
      /\ seen'.lift = seen.lift /\ seen'.low = Never /\ seen'.spent = spent
  <2>1. DOMAIN seen = {"tangle", "low", "lift", "pulled", "spent"}
    BY DEF ChannelInv, Typed
  <2> HIDE DEF spent
  <2> QED
    BY <1>2, <2>1, SMT
<1>9. Never # JamTripMs
  BY JamAssumption DEF Never
<1>10. JamInv'
  <2>1. chan'.jam.low = Never
    BY <1>3, <1>4, <1>5, Zenon DEF StaleFits, CommandedFits
  <2>2. chan'.jam.jam => chan'.jam.brake
    BY <1>3, <1>4, <1>5, <1>7, Zenon DEF StaleFits, CommandedFits
  <2> QED
    BY <1>8, <1>9, <2>1, <2>2 DEF JamInv
<1>11. TangleInv'
  <2> SUFFICES ASSUME seen'.tangle PROVE chan'.jam.jam /\ ~chan'.jam.risen /\ key' # 0
    BY DEF TangleInv
  <2>1. chan.jam.jam /\ ~chan.jam.risen /\ key # 0
    BY <1>8 DEF ChannelInv, TangleInv
  <2>2. c2.jam.jam /\ ~c2.jam.risen
    BY <1>3, <2>1, Zenon DEF StaleFits
  <2> QED
    BY <1>2, <1>4, <1>5, <1>7, <2>1, <2>2, Zenon DEF CommandedFits
<1>12. MotionFits(chan)'
  BY <1>4, <1>5, Zenon DEF CommandedFits, MotionFits
<1>13. NoPushIntoJam'
  BY <1>5, <1>6 DEF NoPushIntoJam
<1>14. SpentInv'
  <2> SUFFICES ASSUME seen'.spent
               PROVE  /\ chan'.jam.brake /\ ~chan'.jam.jam /\ chan'.drive \notin Pushes
                      /\ chan'.motion \in {"on_use", "stop"} /\ chan'.pos = "using"
    BY DEF SpentInv
  <2>1. /\ host = "on_use" /\ online /\ key # 0 /\ ~chan'.jam.jam
        /\ seen.spent \/ (~chan.jam.brake /\ chan'.jam.brake)
    BY <1>2, <1>8 DEF SpentNow
  <2>2. chan'.jam.brake => chan.jam.brake
    BY <1>3, <1>4, <1>5, Zenon DEF StaleFits, CommandedFits
  <2>3. /\ chan.jam.brake /\ chan.motion \in {"on_use", "stop"} /\ chan.pos = "using"
    BY <2>1, <2>2 DEF ChannelInv, SpentInv
  <2>4. c2.jam.brake /\ c2.motion \in {"on_use", "stop"} /\ c2.pos = "using"
    BY <1>3, <2>1, <2>3, Zenon DEF StaleFits
  <2>5. c3.motion \in {"on_use", "stop"} /\ c3.pos = "using" /\ c3.jam.brake
    BY <1>4, <2>1, <2>4, Zenon DEF CommandedFits
  <2> QED
    BY <1>5, <1>6, <2>1, <2>5
<1>15. Unloads(au') /\ au'.arm = Never /\ au'.active = Never /\ au'.waitLow = au.waitLow
  <2>1. Unloads(au)
    BY DEF ChannelInv, Typed, Unloads
  <2>2. u.waitLow = au.waitLow
    <3> DEFINE g == IF Unloading(au) THEN GuardLater(au.guard, d, 0) ELSE motion_guard_start(0, 0)
    <3>1. u = [au EXCEPT !.arm = Later(@, d, ArmMs + 1), !.active = Later(@, d, MaxMs),
                         !.empty = Later(@, d, EmptyMs), !.guard = g]
      BY DEF AutoUnloadLater
    <3> HIDE DEF u, g
    <3> QED
      BY <2>1, <3>1, SMT DEF Unloads
  <2> HIDE DEF u
  <2> QED
    BY <1>2, <2>1, <2>2, SMT DEF auto_unload_reset, NoAutoUnload, Unloads
<1>16. LiftInv' /\ (~Unloading(au) /\ Unloading(au') => seen.lift = "up")
  BY <1>8, <1>15 DEF ChannelInv, LiftInv, Unloading
<1>17. TripsOnFreshReadings
  <2>1. chan'.jam.jam => chan.jam.jam
    BY <1>3, <1>5, <1>7, Zenon DEF StaleFits
  <2> QED
    BY <1>8, <1>9, <2>1 DEF TripsOnFreshReadings
<1>18. Typed'
  <2>1. seen'.spent \in BOOLEAN
    BY <1>8, Zenon DEF SpentNow
  <2> QED
    BY <1>5, <1>8, <1>15, <2>1 DEF ChannelInv, Typed, Unloads
<1> QED
  BY <1>10, <1>11, <1>12, <1>13, <1>14, <1>16, <1>17, <1>18 DEF ChannelInv, StepFits

-----------------------------------------------------------------------------
LEMMA ChannelInit == Init => ChannelInv
<1> SUFFICES ASSUME Init PROVE ChannelInv
  OBVIOUS
<1>1. /\ NoJam \in Jams /\ ~NoJam.jam /\ NoJam.low = Never /\ Never # JamTripMs
  BY JamAssumption, NoJamFits DEF NoJam, Never
<1>2. chan \in Chans
  <2>1. "stop" \in Motions /\ "idle" \in Poses /\ FALSE \in BOOLEAN /\ "brake" \in Drives
    BY DEF Motions, Poses, Drives
  <2> QED
    BY <1>1, <2>1, Zenon DEF Init, Chans
<1>3. chan.motion = "stop" /\ chan.drive = "brake" /\ chan.jam = NoJam
  BY DEF Init
<1>4. seen = [tangle |-> FALSE, low |-> Never, lift |-> "low", pulled |-> 0, spent |-> FALSE]
  BY DEF Init
<1>5. /\ au.arm = Never /\ Unloads(au)
  BY DEF Init, NoAutoUnload, Unloads
<1>6. Typed
  BY <1>2, <1>4, <1>5, SMT DEF Typed, Unloads
<1>7. JamInv /\ TangleInv /\ SpentInv
  BY <1>1, <1>3, <1>4 DEF JamInv, TangleInv, SpentInv
<1>8. MotionFits(chan) /\ NoPushIntoJam
  BY <1>1, <1>3 DEF MotionFits, NoPushIntoJam, Pushes
<1>9. LiftInv
  BY <1>4, <1>5 DEF LiftInv
<1> QED
  BY <1>6, <1>7, <1>8, <1>9 DEF ChannelInv

LEMMA ChannelNext == ChannelInv /\ [Next]_vars => ChannelInv' /\ [StepFits]_vars
<1> SUFFICES ASSUME ChannelInv, [Next]_vars PROVE ChannelInv' /\ [StepFits]_vars
  OBVIOUS
<1>1. CASE Next
  <2>1. ASSUME NEW host \in Hosts, NEW online \in BOOLEAN, NEW held \in BOOLEAN,
               NEW ends \in BOOLEAN, NEW d \in Ticks,
               \/ StalePass(host, online, held, ends, d)
               \/ \E ks \in Keys, pct \in Levels, move \in IF Unloading(au) THEN Moves ELSE {0} :
                    \/ FreshPass(host, ks, pct, online, held, ends, d, move)
                    \/ BadSensorPass(host, ks, pct, online, held, ends, d, move)
        PROVE  ChannelInv' /\ StepFits
    <3>1. CASE StalePass(host, online, held, ends, d)
      BY <3>1, StaleKeeps
    <3>2. ASSUME NEW ks \in Keys, NEW pct \in Levels, NEW move,
                 FreshPass(host, ks, pct, online, held, ends, d, move)
          PROVE  ChannelInv' /\ StepFits
      BY <3>2, FreshKeeps
    <3>3. ASSUME NEW ks \in Keys, NEW pct \in Levels, NEW move,
                 BadSensorPass(host, ks, pct, online, held, ends, d, move)
          PROVE  ChannelInv' /\ StepFits
      BY <3>3, BadSensorKeeps
    <3> QED
      BY <2>1, <3>1, <3>2, <3>3
  <2> QED
    BY <1>1, <2>1 DEF Next
<1>2. CASE UNCHANGED vars
  BY <1>2 DEF vars, ChannelInv, Typed, JamInv, TangleInv, MotionFits, NoPushIntoJam,
              SpentInv, LiftInv
<1> QED
  BY <1>1, <1>2

LEMMA ChannelAlways == Spec => []ChannelInv /\ [][StepFits]_vars
<1> QED
  BY ChannelInit, ChannelNext, PTL DEF Spec

(* A jammed channel is never pushed, and a push that used up its time stays *)
(* braked for as long as the printer goes on commanding on_use.             *)
THEOREM BrakesAlwaysHold == Spec => []BrakesHold
<1>1. ChannelInv => BrakesHold
  BY DEF ChannelInv, BrakesHold, SpentInv, SpentPushStaysBraked
<1> QED
  BY <1>1, ChannelAlways, PTL

(* The latch trips exactly when fresh readings have shown the buffer low    *)
(* for the whole trip time, and what the printer commands never hides it.   *)
THEOREM JamIsAlwaysTrue == Spec => JamIsTrue
<1>1. ChannelInv' /\ [StepFits]_vars => [ResumeNeverHidesJam' /\ TripsOnFreshReadings]_vars
  BY Zenon DEF ChannelInv, TangleInv, ResumeNeverHidesJam, StepFits
<1> QED
  BY <1>1, ChannelAlways, PTL DEF JamIsTrue

(* The lift that releases a jam never unloads the channel. *)
THEOREM UnloadsAreLifted == Spec => UnloadNeedsItsOwnLift
<1>1. [StepFits]_vars => [~Unloading(au) /\ Unloading(au') => seen.lift = "up"]_vars
  BY Zenon DEF StepFits
<1> QED
  BY <1>1, ChannelAlways, PTL DEF UnloadNeedsItsOwnLift
=============================================================================
