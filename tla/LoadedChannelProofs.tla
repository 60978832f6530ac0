------------------------- MODULE LoadedChannelProofs -------------------------
(***************************************************************************)
(* The safety invariants of LoadedChannel hold for every number of         *)
(* channels and every set of calibrated ones.                              *)
(*                                                                         *)
(* Every handler is an operator from an AMS state to the next one, so the  *)
(* proof is one lemma per handler about two facts of a state: Coherent,    *)
(* which its fields keep among themselves, and Follows, which relates it   *)
(* to what the log is known to hold.                                       *)
(*                                                                         *)
(* Then both images of the boot restore stay in step.  A handler takes a   *)
(* pair of states, one of each image, to a pair.  While the restore is     *)
(* pending only the channel shown tells the two apart (Waits); afterwards  *)
(* they are Twins.                                                         *)
(***************************************************************************)
EXTENDS BootRestoreImages, TLAPS

OneMoves(r) == \A c \in Channels : r.motion[c] # "idle" => r.num = c

LoadedActive(r) == r.loaded # None => r.num = r.loaded \/ (~r.atBoot /\ r.restore = r.loaded)

RestoreFits(r) ==
  r.restore # None =>
    /\ r.loaded = r.restore /\ ~r.flashPending
    /\ r.atBoot => /\ r.num = r.restore /\ r.useFlag = 4
                   /\ r.motion = [AllIdle EXCEPT ![r.restore] = "on_use"]
    /\ ~r.atBoot => r.num = None /\ r.motion = AllIdle

PrintingSaved(r) ==
  r.num # None /\ r.motion[r.num] = "on_use" /\ r.loaded = r.num => ~r.flashPending

Coherent(r) ==
  r \in RamStates /\ OneMoves(r) /\ LoadedActive(r) /\ RestoreFits(r) /\ PrintingSaved(r)

\* k is what the log is known to hold.
Follows(r, k) ==
  (IF r.dirty THEN r.value ELSE k) = (IF r.flashPending THEN None ELSE r.loaded)

\* A handler clears no dirty mark and starts no restore.
Onward(r, s) ==
  /\ s.atBoot = r.atBoot
  /\ r.dirty => s.dirty
  /\ s.restore \in {r.restore, None}

\* What a handler preserves.
Keeps(r, s) ==
  /\ Coherent(s)
  /\ Onward(r, s)
  /\ \A k \in Loaded : Follows(r, k) => Follows(s, k)

-----------------------------------------------------------------------------
LEMMA NoneIsNoChannel == None \notin Channels
  BY ChannelAssumption

LEMMA KeepsItself == ASSUME NEW r, Coherent(r) PROVE Keeps(r, r)
  BY DEF Keeps, Onward

LEMMA KeepsTwice ==
  ASSUME NEW r, NEW s, NEW t, Keeps(r, s), Keeps(s, t)
  PROVE  Keeps(r, t)
  BY DEF Keeps, Onward

\* The printer's reference ends the restore, and shows it first where it was deferred.
LEMMA ReferencedKeeps ==
  ASSUME NEW r, Coherent(r), NEW n \in Loaded, NEW k
  PROVE  /\ Keeps(r, Referenced(r, n, k))
         /\ n # None => Referenced(r, n, k).restore # n
         /\ n = None /\ k = "pull_back" => Referenced(r, n, k).restore = None
<1>1. CASE r.restore = None \/ ~References(r.restore, n, k)
  <2>1. Referenced(r, n, k) = r
    BY <1>1 DEF Referenced
  <2>2. QED
    BY <1>1, <2>1, KeepsItself, NoneIsNoChannel DEF References
<1>2. CASE r.restore # None /\ References(r.restore, n, k)
  <2> DEFINE s == Referenced(r, n, k)
  <2>1. r.restore \in Channels
    BY <1>2 DEF Coherent, RamStates, Loaded
  <2>2. s \in RamStates /\ s.restore = None
    BY <1>2, <2>1 DEF Coherent, Referenced, Seeded, RamStates, AllIdle, Loaded, Motions, InUse
  <2>3. /\ s.loaded = r.loaded /\ s.flashPending = r.flashPending /\ s.dirty = r.dirty
        /\ s.value = r.value /\ s.atBoot = r.atBoot
        /\ s.num = r.restore /\ s.motion = [AllIdle EXCEPT ![r.restore] = "on_use"]
    BY <1>2, <2>1 DEF Coherent, RestoreFits, Referenced, Seeded, RamStates
  <2>4. OneMoves(s)
    BY <2>1, <2>3 DEF OneMoves, AllIdle
  <2>5. LoadedActive(s) /\ PrintingSaved(s) /\ RestoreFits(s)
    BY <1>2, <2>1, <2>2, <2>3 DEF Coherent, LoadedActive, PrintingSaved, RestoreFits
  <2>6. Keeps(r, s)
    BY <2>2, <2>3, <2>4, <2>5 DEF Keeps, Onward, Coherent, Follows
  <2>7. (n # None => n = r.restore) /\ s.restore = None
    BY <1>2, <2>2 DEF References
  <2> QED
    BY <2>1, <2>6, <2>7, NoneIsNoChannel
<1>3. QED
  BY <1>1, <1>2

-----------------------------------------------------------------------------
(* The steps the handlers are made of.                                     *)

\* Taking over: channel c is the active one, and no other moves.
LEMMA AcceptedFields ==
  ASSUME NEW r \in RamStates, OneMoves(r), NEW c \in Channels
  PROVE  LET s == Accepted(r, c)
         IN  /\ s \in RamStates /\ s.num = c
             /\ s.motion[c] = r.motion[c]
             /\ \A d \in Channels \ {c} : s.motion[d] = "idle"
             /\ s.loaded = r.loaded /\ s.flashPending = r.flashPending /\ s.dirty = r.dirty
             /\ s.value = r.value /\ s.restore = r.restore /\ s.atBoot = r.atBoot
<1> DEFINE s == Accepted(r, c)
<1>1. CASE r.num \in {c, None}
  <2>1. /\ s \in RamStates /\ s.num = c /\ s.motion = r.motion
        /\ s.loaded = r.loaded /\ s.flashPending = r.flashPending /\ s.dirty = r.dirty
        /\ s.value = r.value /\ s.restore = r.restore /\ s.atBoot = r.atBoot
    BY <1>1 DEF Accepted, RamStates, Loaded
  <2>2. QED
    BY <1>1, <2>1, NoneIsNoChannel DEF OneMoves
<1>2. CASE r.num \notin {c, None}
  <2>1. r.num \in Channels
    BY <1>2 DEF RamStates, Loaded
  <2>2. /\ s \in RamStates /\ s.num = c /\ s.motion = [r.motion EXCEPT ![r.num] = "idle"]
        /\ s.loaded = r.loaded /\ s.flashPending = r.flashPending /\ s.dirty = r.dirty
        /\ s.value = r.value /\ s.restore = r.restore /\ s.atBoot = r.atBoot
    BY <1>2, <2>1 DEF Accepted, RamStates, Loaded, Motions
  <2>3. r.motion \in [Channels -> Motions]
    BY DEF RamStates
  <2>4. QED
    BY <1>2, <2>1, <2>2, <2>3 DEF OneMoves
<1>3. QED
  BY <1>1, <1>2

\* Unloading takes the restore with it.
LEMMA UnloadedFields ==
  ASSUME NEW r \in RamStates, NEW c \in Loaded, r.loaded # None, c \in {None, r.loaded}
  PROVE  LET s == Unloaded(r, c)
         IN  /\ s \in RamStates
             /\ s.loaded = None /\ ~s.flashPending /\ s.dirty /\ s.value = None
             /\ s.restore = None /\ s.atBoot = r.atBoot
             /\ s.num = IF r.atBoot /\ r.restore # None /\ r.num = r.restore THEN None ELSE r.num
             /\ \A d \in Channels :
                  s.motion[d] = IF r.atBoot /\ d = r.restore THEN "idle" ELSE r.motion[d]
<1> DEFINE s == Unloaded(r, c)
           u == [r EXCEPT !.loaded = None, !.flashPending = FALSE, !.value = None, !.dirty = TRUE]
<1>1. s = RestoreUndone(u)
  BY DEF Unloaded
<1>2. /\ u \in RamStates /\ u.loaded = None /\ ~u.flashPending /\ u.dirty /\ u.value = None
      /\ u.restore = r.restore /\ u.atBoot = r.atBoot /\ u.num = r.num /\ u.motion = r.motion
  BY DEF RamStates, Loaded
<1> HIDE DEF u
<1>3. CASE u.restore = None \/ ~u.atBoot
  <2>1. /\ s \in RamStates /\ s.loaded = None /\ ~s.flashPending /\ s.dirty /\ s.value = None
        /\ s.restore = None /\ s.atBoot = u.atBoot /\ s.num = u.num /\ s.motion = u.motion
    BY <1>1, <1>2, <1>3 DEF RestoreUndone, RamStates, Loaded
  <2>2. QED
    BY <1>2, <1>3, <2>1, NoneIsNoChannel
<1>4. CASE u.restore # None /\ u.atBoot
  <2>1. u.restore \in Channels
    BY <1>2, <1>4 DEF RamStates, Loaded
  <2>2. /\ s \in RamStates /\ s.loaded = None /\ ~s.flashPending /\ s.dirty /\ s.value = None
        /\ s.restore = None /\ s.atBoot = u.atBoot
        /\ s.num = IF u.num = u.restore THEN None ELSE u.num
        /\ s.motion = [u.motion EXCEPT ![u.restore] = "idle"]
    <3> DEFINE m == [u.motion EXCEPT ![u.restore] = "idle"]
    <3>0. m \in [Channels -> Motions]
      BY <1>2, <2>1 DEF RamStates, Motions
    <3> HIDE DEF s
    <3>1. CASE u.num = u.restore
      <4>1. s = [u EXCEPT !.restore = None, !.num = None, !.useFlag = 0, !.motion = m]
        BY <1>1, <1>2, <1>4, <3>1 DEF RestoreUndone, RamStates, s
      <4>2. QED
        BY <1>2, <3>0, <3>1, <4>1 DEF RamStates, Loaded
    <3>2. CASE u.num # u.restore
      <4>1. s = [u EXCEPT !.restore = None, !.motion = m]
        BY <1>1, <1>2, <1>4, <3>2 DEF RestoreUndone, RamStates, s
      <4>2. QED
        BY <1>2, <3>0, <3>2, <4>1 DEF RamStates, Loaded
    <3>3. QED
      BY <3>1, <3>2
  <2>3. u.motion \in [Channels -> Motions]
    BY <1>2 DEF RamStates
  <2>4. QED
    BY <1>2, <1>4, <2>1, <2>2, <2>3
<1>5. QED
  BY <1>3, <1>4

LEMMA UnloadedNot ==
  ASSUME NEW r, NEW c, r.loaded = None \/ c \notin {None, r.loaded}
  PROVE  Unloaded(r, c) = r
  BY DEF Unloaded

LEMMA UnloadedKeeps ==
  ASSUME NEW r, Coherent(r), NEW c \in Loaded
  PROVE  Keeps(r, Unloaded(r, c))
<1>1. CASE r.loaded = None \/ c \notin {None, r.loaded}
  BY <1>1, UnloadedNot, KeepsItself
<1>2. CASE r.loaded # None /\ c \in {None, r.loaded}
  <2> DEFINE s == Unloaded(r, c)
  <2>1. r \in RamStates
    BY DEF Coherent
  <2>2. /\ s \in RamStates
        /\ s.loaded = None /\ ~s.flashPending /\ s.dirty /\ s.value = None
        /\ s.restore = None /\ s.atBoot = r.atBoot
        /\ s.num = IF r.atBoot /\ r.restore # None /\ r.num = r.restore THEN None ELSE r.num
        /\ \A d \in Channels :
             s.motion[d] = IF r.atBoot /\ d = r.restore THEN "idle" ELSE r.motion[d]
    BY <1>2, <2>1, UnloadedFields
  <2> HIDE DEF s
  <2>3. OneMoves(s)
    BY <2>2, NoneIsNoChannel DEF OneMoves, Coherent
  <2>4. LoadedActive(s) /\ RestoreFits(s) /\ PrintingSaved(s)
    BY <2>2 DEF LoadedActive, RestoreFits, PrintingSaved
  <2>5. QED
    BY <2>2, <2>3, <2>4 DEF Keeps, Coherent, Onward, Follows, s
<1>3. QED
  BY <1>1, <1>2

-----------------------------------------------------------------------------
(* Steps that leave the loaded channel alone.                              *)

\* r and s agree on everything the log and the restore depend on.
SameLoaded(r, s) ==
  /\ s.loaded = r.loaded /\ s.flashPending = r.flashPending /\ s.dirty = r.dirty
  /\ s.value = r.value /\ s.restore = r.restore /\ s.atBoot = r.atBoot

\* A channel that moves by anything but "on_use" ends the restore's claim on the state.
LEMMA MovingMeansTaken ==
  ASSUME NEW r, Coherent(r), NEW c \in Channels, r.motion[c] \notin {"idle", "on_use"}
  PROVE  r.restore = None /\ r.num = c
<1>1. r.num = c
  BY DEF Coherent, OneMoves
<1>2. r.restore = None \/ r.restore \in Channels
  BY DEF Coherent, RamStates, Loaded
<1>3. r.atBoot \in BOOLEAN
  BY DEF Coherent, RamStates
<1>4. QED
  BY <1>1, <1>2, <1>3, NoneIsNoChannel DEF Coherent, RestoreFits, AllIdle

\* The loaded channel, no longer one that waits for the printer, is the active one.
LEMMA TakenIsActive ==
  ASSUME NEW r, Coherent(r), NEW c \in Channels, r.loaded = c, r.restore # c
  PROVE  r.restore = None /\ r.num = c
  BY NoneIsNoChannel DEF Coherent, LoadedActive, RestoreFits

LEMMA TouchKeeps ==
  ASSUME NEW r, Coherent(r), NEW s \in RamStates, SameLoaded(r, s),
         s.num = r.num, s.motion = r.motion, s.useFlag \in {r.useFlag, 4}
  PROVE  Keeps(r, s)
<1>1. OneMoves(s) /\ LoadedActive(s) /\ RestoreFits(s) /\ PrintingSaved(s)
  BY DEF Coherent, OneMoves, LoadedActive, RestoreFits, PrintingSaved, SameLoaded
<1>2. QED
  BY <1>1 DEF Keeps, Coherent, Onward, Follows, SameLoaded

LEMMA HeldKeeps ==
  ASSUME NEW r, Coherent(r), NEW c \in Channels
  PROVE  Keeps(r, [r EXCEPT !.held[c] = FALSE])
<1> DEFINE h == [r.held EXCEPT ![c] = FALSE]
           s == [r EXCEPT !.held = h]
<1>1. r \in RamStates /\ h \in [Channels -> BOOLEAN]
  BY DEF Coherent, RamStates
<1> HIDE DEF h
<1>2. s \in RamStates /\ SameLoaded(r, s) /\ s.num = r.num /\ s.motion = r.motion
      /\ s.useFlag = r.useFlag
  BY <1>1 DEF RamStates, SameLoaded
<1>3. s = [r EXCEPT !.held[c] = FALSE]
  BY <1>1 DEF h, RamStates
<1>4. QED
  BY <1>2, <1>3, TouchKeeps

\* The active channel of a state with no restore moves otherwise.
LEMMA MotionKeeps ==
  ASSUME NEW r, Coherent(r), r.restore = None, NEW s \in RamStates, SameLoaded(r, s),
         s.num = r.num,
         \A d \in Channels : s.motion[d] = r.motion[d]
                             \/ (s.motion[d] # "on_use" /\ (d = r.num \/ s.motion[d] = "idle"))
  PROVE  Keeps(r, s)
<1>1. OneMoves(s)
  BY DEF Coherent, OneMoves
<1>2. LoadedActive(s) /\ RestoreFits(s)
  BY DEF Coherent, LoadedActive, RestoreFits, SameLoaded
<1>3. PrintingSaved(s)
  BY DEF Coherent, PrintingSaved, SameLoaded, RamStates, Loaded
<1>4. QED
  BY <1>1, <1>2, <1>3 DEF Keeps, Coherent, Onward, Follows, SameLoaded

\* Channel c becomes the active one, with no restore and no other channel loaded.
LEMMA TakenOverKeeps ==
  ASSUME NEW r, Coherent(r), NEW c \in Channels, NEW s \in RamStates,
         s.num = c, \A d \in Channels \ {c} : s.motion[d] = "idle",
         s.restore = None, s.loaded \in {None, c}, s.atBoot = r.atBoot, r.dirty => s.dirty,
         s.motion[c] = "on_use" /\ s.loaded = c => ~s.flashPending,
         \A k \in Loaded : Follows(r, k) => Follows(s, k)
  PROVE  Keeps(r, s)
<1>1. OneMoves(s)
  BY DEF OneMoves
<1>2. LoadedActive(s) /\ RestoreFits(s) /\ PrintingSaved(s)
  BY DEF LoadedActive, RestoreFits, PrintingSaved
<1>3. QED
  BY <1>1, <1>2 DEF Keeps, Coherent, Onward

-----------------------------------------------------------------------------
(* One lemma per command.                                                  *)

LEMMA SendOutKeeps ==
  ASSUME NEW r, Coherent(r), NEW c \in Channels, r.restore # c
  PROVE  Keeps(r, SendOut(r, c))
<1> DEFINE a == Accepted(r, c)
           h == [a.held EXCEPT ![c] = FALSE]
           s == [a EXCEPT !.held = h]
           u == IF s.motion[c] # "send_out" THEN Unloaded(s, None) ELSE s
           m == [u.motion EXCEPT ![c] = "send_out"]
           t == [u EXCEPT !.motion = m, !.useFlag = 2]
<1>1. /\ a \in RamStates /\ a.num = c /\ a.motion[c] = r.motion[c]
      /\ \A d \in Channels \ {c} : a.motion[d] = "idle"
      /\ SameLoaded(r, a)
  BY AcceptedFields DEF Coherent, SameLoaded
<1> HIDE DEF a
<1>2. h \in [Channels -> BOOLEAN]
  BY <1>1 DEF RamStates
<1> HIDE DEF h
<1>3. /\ s \in RamStates /\ s.num = c /\ s.motion[c] = r.motion[c]
      /\ \A d \in Channels \ {c} : s.motion[d] = "idle"
      /\ SameLoaded(r, s)
  BY <1>1, <1>2 DEF RamStates, SameLoaded
<1> HIDE DEF s
<1>4. /\ u \in RamStates /\ u.num = c /\ u.restore = None /\ u.loaded \in {None, c}
      /\ \A d \in Channels \ {c} : u.motion[d] = "idle"
      /\ u.atBoot = r.atBoot /\ (r.dirty => u.dirty)
      /\ \A k \in Loaded : Follows(r, k) => Follows(u, k)
  <2>1. CASE r.loaded = None
    <3>1. u = s
      BY <1>3, <2>1, UnloadedNot DEF SameLoaded
    <3>2. r.restore = None
      BY <2>1 DEF Coherent, RestoreFits
    <3>3. QED
      BY <1>3, <2>1, <3>1, <3>2 DEF SameLoaded, Follows
  <2>2. CASE r.loaded # None /\ r.motion[c] # "send_out"
    <3>1. u = Unloaded(s, None)
      BY <1>3, <2>2
    <3>2. /\ u \in RamStates
          /\ u.loaded = None /\ ~u.flashPending /\ u.dirty /\ u.value = None
          /\ u.restore = None /\ u.atBoot = s.atBoot
          /\ u.num = IF s.atBoot /\ s.restore # None /\ s.num = s.restore THEN None ELSE s.num
          /\ \A d \in Channels :
               u.motion[d] = IF s.atBoot /\ d = s.restore THEN "idle" ELSE s.motion[d]
      BY <1>3, <2>2, <3>1, UnloadedFields DEF SameLoaded, Loaded
    <3>3. QED
      BY <1>3, <3>2 DEF SameLoaded, Follows
  <2>3. CASE r.loaded # None /\ r.motion[c] = "send_out"
    <3>1. u = s
      BY <1>3, <2>3
    <3>2. r.restore = None /\ r.num = c
      BY <2>3, MovingMeansTaken
    <3>3. r.loaded = c
      BY <2>3, <3>2 DEF Coherent, LoadedActive
    <3>4. QED
      BY <1>3, <3>1, <3>2, <3>3 DEF SameLoaded, Follows
  <2>4. QED
    BY <2>1, <2>2, <2>3
<1>5. SendOut(r, c) = t
  BY <1>1, <1>3 DEF SendOut, a, s, h
<1> HIDE DEF u
<1>6. /\ m \in [Channels -> Motions] /\ m[c] = "send_out"
      /\ \A d \in Channels \ {c} : m[d] = "idle"
  BY <1>4 DEF RamStates, Motions
<1> HIDE DEF m
<1>7. /\ t \in RamStates /\ t.num = c /\ t.restore = None /\ t.loaded \in {None, c}
      /\ t.motion = m /\ t.atBoot = r.atBoot /\ (r.dirty => t.dirty)
      /\ t.loaded = u.loaded /\ t.flashPending = u.flashPending /\ t.dirty = u.dirty
      /\ t.value = u.value
  BY <1>4, <1>6 DEF RamStates
<1> HIDE DEF t
<1>8. \A k \in Loaded : Follows(r, k) => Follows(t, k)
  BY <1>4, <1>7 DEF Follows
<1>9. Keeps(r, t)
  BY <1>6, <1>7, <1>8, TakenOverKeeps
<1>10. QED
  BY <1>5, <1>9

LEMMA StopOnUseKeeps ==
  ASSUME NEW r, Coherent(r), NEW c \in Channels, r.restore # c
  PROVE  Keeps(r, StopOnUse(r, c))
<1> DEFINE s == [r EXCEPT !.held[c] = FALSE]
<1>1. Keeps(r, s)
  BY HeldKeeps
<1>2. s.loaded = r.loaded /\ s.restore = r.restore /\ s.num = r.num
  BY DEF Coherent, RamStates
<1> HIDE DEF s
<1>3. CASE r.loaded # c
  BY <1>1, <1>3 DEF StopOnUse, s
<1>4. CASE r.loaded = c
  <2>1. s.restore = None /\ s.num = c
    BY <1>2, <1>4, TakenIsActive
  <2>2. Coherent(s) /\ s \in RamStates
    BY <1>1 DEF Keeps, Coherent
  <2>3. Accepted(s, c) = s
    BY <2>1 DEF Accepted
  <2> DEFINE x == IF s.motion[c] \in {"on_use", "before_on_use"} THEN "stop_on_use"
                  ELSE s.motion[c]
             m == [s.motion EXCEPT ![c] = x]
             t == [s EXCEPT !.useFlag = 4, !.motion = m]
  <2>4. StopOnUse(r, c) = t
    BY <1>2, <1>4, <2>2, <2>3 DEF StopOnUse, s, RamStates
  <2>5. x \in Motions /\ (x = s.motion[c] \/ x # "on_use")
    BY <2>2 DEF RamStates, Motions, InUse
  <2> HIDE DEF x
  <2>6. /\ m \in [Channels -> Motions] /\ m[c] = x
        /\ \A d \in Channels \ {c} : m[d] = s.motion[d]
    BY <2>2, <2>5 DEF RamStates
  <2> HIDE DEF m
  <2>7. t \in RamStates /\ SameLoaded(s, t) /\ t.num = s.num /\ t.motion = m
    BY <2>2, <2>6 DEF RamStates, SameLoaded
  <2> HIDE DEF t
  <2>8. Keeps(s, t)
    BY <2>1, <2>2, <2>5, <2>6, <2>7, MotionKeeps
  <2>9. QED
    BY <1>1, <2>4, <2>8, KeepsTwice
<1>5. QED
  BY <1>3, <1>4
LEMMA BeforeOnUseKeeps ==
  ASSUME NEW r, Coherent(r), NEW c \in Channels
  PROVE  Keeps(r, BeforeOnUse(r, c))
<1>1. CASE r.motion[c] \notin {"send_out", "before_on_use"}
  BY <1>1, KeepsItself DEF BeforeOnUse
<1>2. CASE r.motion[c] \in {"send_out", "before_on_use"} /\ ~Free(r, c)
  BY <1>2, HeldKeeps DEF BeforeOnUse
<1>3. CASE r.motion[c] \in {"send_out", "before_on_use"} /\ Free(r, c)
  <2>1. r.restore = None /\ r.num = c
    BY <1>3, MovingMeansTaken
  <2>2. r \in RamStates /\ (\A d \in Channels \ {c} : r.motion[d] = "idle")
    BY <2>1 DEF Coherent, OneMoves
  <2>3. Accepted(r, c) = r
    BY <2>1 DEF Accepted
  <2> DEFINE h == [r.held EXCEPT ![c] = FALSE]
             m == [r.motion EXCEPT ![c] = "before_on_use"]
             s == [r EXCEPT !.held = h, !.motion = m, !.useFlag = 4]
  <2>4. BeforeOnUse(r, c) = Claimed(s, c)
    BY <1>3, <2>2, <2>3 DEF BeforeOnUse, RamStates
  <2>5. /\ h \in [Channels -> BOOLEAN] /\ m \in [Channels -> Motions]
        /\ m[c] = "before_on_use" /\ \A d \in Channels \ {c} : m[d] = "idle"
    BY <2>2 DEF RamStates, Motions, InUse
  <2> HIDE DEF h, m
  <2>6. s \in RamStates /\ SameLoaded(r, s) /\ s.num = c /\ s.motion = m
    BY <2>1, <2>2, <2>5 DEF RamStates, SameLoaded
  <2> HIDE DEF s
  <2> DEFINE t == Claimed(s, c)
  <2>7. /\ t \in RamStates /\ t.num = c /\ t.motion = m /\ t.restore = None
        /\ t.loaded = c /\ t.atBoot = r.atBoot /\ t.dirty = r.dirty /\ t.value = r.value
        /\ IF r.loaded = None THEN t.flashPending ELSE t.flashPending = r.flashPending
    BY <1>3, <2>1, <2>6 DEF Claimed, RamStates, Loaded, SameLoaded, Free
  <2> HIDE DEF t
  <2>8. \A k \in Loaded : Follows(r, k) => Follows(t, k)
    BY <1>3, <2>7 DEF Follows, Free
  <2>9. Keeps(r, t)
    BY <2>5, <2>7, <2>8, TakenOverKeeps
  <2>10. QED
    BY <2>4, <2>9 DEF t
<1>4. QED
  BY <1>1, <1>2, <1>3

\* The channel comes in use: what is loaded and not saved yet gets its record.
LEMMA SetLoadedFields ==
  ASSUME NEW r \in RamStates, NEW c \in Channels, Free(r, c)
  PROVE  LET s == SetLoaded(r, c)
         IN  /\ s \in RamStates /\ s.loaded = c /\ ~s.flashPending
             /\ s.num = r.num /\ s.motion = r.motion
             /\ s.restore = r.restore /\ s.atBoot = r.atBoot
             /\ IF r.loaded = c /\ ~r.flashPending
                THEN s.dirty = r.dirty /\ s.value = r.value
                ELSE s.dirty /\ s.value = c
<1>1. c # None
  BY NoneIsNoChannel
<1>2. CASE r.loaded = None
  BY <1>1, <1>2 DEF SetLoaded, Claimed, RamStates, Loaded, Free
<1>3. CASE r.loaded = c /\ r.flashPending
  BY <1>1, <1>3 DEF SetLoaded, Claimed, RamStates, Loaded, Free
<1>4. CASE r.loaded = c /\ ~r.flashPending
  BY <1>1, <1>4 DEF SetLoaded, Claimed, RamStates, Loaded, Free
<1>5. QED
  BY <1>2, <1>3, <1>4 DEF Free, RamStates

LEMMA OnUseKeeps ==
  ASSUME NEW r, Coherent(r), NEW c \in Channels, NEW late \in BOOLEAN, r.restore # c
  PROVE  Keeps(r, OnUse(r, c, late))
<1>1. CASE ~Free(r, c)
  BY <1>1, KeepsItself DEF OnUse
<1>2. CASE Free(r, c)
  <2> DEFINE a == Accepted(r, c)
  <2>1. /\ a \in RamStates /\ a.num = c /\ a.motion[c] = r.motion[c]
        /\ \A d \in Channels \ {c} : a.motion[d] = "idle"
        /\ SameLoaded(r, a)
    BY AcceptedFields DEF Coherent, SameLoaded
  <2>2. r.restore = None
    BY <1>2 DEF Coherent, RestoreFits, Free
  <2>3. a.loaded \in {None, c}
    BY <1>2, <2>1 DEF SameLoaded, Free
  <2>4. CASE a.motion[c] = "send_out" /\ ~(a.held[c] /\ late)
    <3> DEFINE h == [a.held EXCEPT ![c] = TRUE]
               s == [a EXCEPT !.held = h, !.useFlag = 4]
    <3>1. OnUse(r, c, late) = s
      BY <1>2, <2>1, <2>4 DEF OnUse, RamStates
    <3> HIDE DEF a
    <3>2. h \in [Channels -> BOOLEAN]
      BY <2>1 DEF RamStates
    <3> HIDE DEF h
    <3>3. s \in RamStates /\ SameLoaded(r, s) /\ s.num = c /\ s.motion = a.motion
      BY <2>1, <3>2 DEF RamStates, SameLoaded
    <3> HIDE DEF s
    <3>4. \A k \in Loaded : Follows(r, k) => Follows(s, k)
      BY <3>3 DEF Follows, SameLoaded
    <3>5. /\ s.restore = None /\ s.loaded \in {None, c} /\ s.atBoot = r.atBoot
          /\ r.dirty => s.dirty
      BY <2>1, <2>2, <2>3, <3>3 DEF SameLoaded
    <3>6. Keeps(r, s)
      BY <2>1, <2>4, <3>3, <3>4, <3>5, TakenOverKeeps
    <3>7. QED
      BY <3>1, <3>6
  <2>5. CASE ~(a.motion[c] = "send_out" /\ ~(a.held[c] /\ late))
    <3> DEFINE h == [a.held EXCEPT ![c] = FALSE]
               m == [a.motion EXCEPT ![c] = "on_use"]
               s == [a EXCEPT !.held = h, !.motion = m, !.useFlag = 4]
               t == SetLoaded(s, c)
    <3>1. OnUse(r, c, late) = t
      BY <1>2, <2>1, <2>5 DEF OnUse, RamStates
    <3> HIDE DEF a
    <3>2. /\ h \in [Channels -> BOOLEAN] /\ m \in [Channels -> Motions]
          /\ \A d \in Channels \ {c} : m[d] = "idle"
      BY <2>1 DEF RamStates, Motions, InUse
    <3> HIDE DEF h, m
    <3>3. s \in RamStates /\ SameLoaded(r, s) /\ s.num = c /\ s.motion = m
      BY <2>1, <3>2 DEF RamStates, SameLoaded
    <3> HIDE DEF s
    <3>4. /\ t \in RamStates /\ t.loaded = c /\ ~t.flashPending
          /\ t.num = s.num /\ t.motion = s.motion
          /\ t.restore = s.restore /\ t.atBoot = s.atBoot
          /\ IF s.loaded = c /\ ~s.flashPending
             THEN t.dirty = s.dirty /\ t.value = s.value
             ELSE t.dirty /\ t.value = c
      BY <1>2, <3>3, SetLoadedFields DEF SameLoaded, Free
    <3> HIDE DEF t
    <3>5. \A k \in Loaded : Follows(r, k) => Follows(t, k)
      BY <3>3, <3>4 DEF Follows, SameLoaded
    <3>6. t.restore = None /\ t.atBoot = r.atBoot /\ (r.dirty => t.dirty)
      BY <2>2, <3>3, <3>4 DEF SameLoaded
    <3>7. Keeps(r, t)
      BY <3>2, <3>3, <3>4, <3>5, <3>6, TakenOverKeeps
    <3>8. QED
      BY <3>1, <3>7
  <2>6. QED
    BY <2>4, <2>5
<1>3. QED
  BY <1>1, <1>2

LEMMA BeforePullBackKeeps ==
  ASSUME NEW r, Coherent(r), NEW c \in Channels, r.restore # c
  PROVE  Keeps(r, BeforePullBack(r, c))
<1> DEFINE s == [r EXCEPT !.held[c] = FALSE]
<1>1. Keeps(r, s)
  BY HeldKeeps
<1>2. s.loaded = r.loaded /\ s.restore = r.restore /\ s.num = r.num
  BY DEF Coherent, RamStates
<1> HIDE DEF s
<1>3. CASE r.loaded # c
  BY <1>1, <1>3 DEF BeforePullBack, s
<1>4. CASE r.loaded = c
  <2>1. s.restore = None /\ s.num = c
    BY <1>2, <1>4, TakenIsActive
  <2>2. Coherent(s) /\ s \in RamStates
    BY <1>1 DEF Keeps, Coherent
  <2>3. Accepted(s, c) = s
    BY <2>1 DEF Accepted
  <2> DEFINE x == IF s.motion[c] \in InUse THEN "before_pull_back" ELSE s.motion[c]
             m == [s.motion EXCEPT ![c] = x]
             t == [s EXCEPT !.useFlag = 4, !.motion = m]
  <2>4. BeforePullBack(r, c) = Unloaded(t, c)
    BY <1>2, <1>4, <2>2, <2>3 DEF BeforePullBack, s, RamStates
  <2>5. x \in Motions /\ (x = s.motion[c] \/ x # "on_use")
    BY <2>2 DEF RamStates, Motions, InUse
  <2> HIDE DEF x
  <2>6. /\ m \in [Channels -> Motions] /\ m[c] = x
        /\ \A d \in Channels \ {c} : m[d] = s.motion[d]
    BY <2>2, <2>5 DEF RamStates
  <2> HIDE DEF m
  <2>7. t \in RamStates /\ SameLoaded(s, t) /\ t.num = s.num /\ t.motion = m
    BY <2>2, <2>6 DEF RamStates, SameLoaded
  <2> HIDE DEF t
  <2>8. Keeps(s, t)
    BY <2>1, <2>2, <2>5, <2>6, <2>7, MotionKeeps
  <2>9. Keeps(t, Unloaded(t, c))
    BY <2>8, UnloadedKeeps DEF Keeps, Loaded
  <2>10. QED
    BY <1>1, <2>4, <2>8, <2>9, KeepsTwice
<1>5. QED
  BY <1>3, <1>4

LEMMA OtherStatus9Keeps ==
  ASSUME NEW r, Coherent(r), NEW c \in Channels
  PROVE  Keeps(r, OtherStatus9(r, c))
<1> DEFINE h == [r.held EXCEPT ![c] = FALSE]
           s == [r EXCEPT !.held = h, !.useFlag = 4]
<1>1. r \in RamStates /\ h \in [Channels -> BOOLEAN]
  BY DEF Coherent, RamStates
<1> HIDE DEF h
<1>2. s \in RamStates /\ SameLoaded(r, s) /\ s.num = r.num /\ s.motion = r.motion
      /\ s.useFlag = 4
  BY <1>1 DEF RamStates, SameLoaded
<1>3. OtherStatus9(r, c) = s
  BY <1>1 DEF OtherStatus9, RamStates, h
<1> HIDE DEF s
<1>4. QED
  BY <1>2, <1>3, TouchKeeps

LEMMA PullBackKeeps ==
  ASSUME NEW r, Coherent(r), r.restore = None
  PROVE  Keeps(r, PullBack(r))
<1>1. CASE r.num = None
  BY <1>1, KeepsItself DEF PullBack
<1>2. CASE r.num # None
  <2> DEFINE c == r.num
             s == [r EXCEPT !.held[c] = FALSE]
  <2>1. c \in Channels
    BY <1>2 DEF Coherent, RamStates, Loaded
  <2>2. Keeps(r, s)
    BY <2>1, HeldKeeps
  <2>3. s.restore = None /\ s.num = c
    BY DEF Coherent, RamStates
  <2>4. Coherent(s) /\ s \in RamStates
    BY <2>2 DEF Keeps, Coherent
  <2> HIDE DEF s
  <2> DEFINE m == [s.motion EXCEPT ![c] = "pull_back"]
             t == [s EXCEPT !.motion = m, !.useFlag = 2]
             u == IF s.motion[c] \in InUse \cup {"before_pull_back"} THEN t ELSE s
  <2>5. PullBack(r) = Unloaded(u, c)
    BY <1>2, <2>4 DEF PullBack, s, RamStates
  <2>6. /\ m \in [Channels -> Motions] /\ m[c] = "pull_back"
        /\ \A d \in Channels \ {c} : m[d] = s.motion[d]
    BY <2>1, <2>4 DEF RamStates, Motions
  <2> HIDE DEF m
  <2>7. t \in RamStates /\ SameLoaded(s, t) /\ t.num = s.num /\ t.motion = m
    BY <2>4, <2>6 DEF RamStates, SameLoaded
  <2> HIDE DEF t
  <2>8. Keeps(s, t)
    BY <2>3, <2>4, <2>6, <2>7, MotionKeeps
  <2>9. Keeps(s, u)
    BY <2>4, <2>8, KeepsItself
  <2> HIDE DEF u
  <2>10. Keeps(u, Unloaded(u, c))
    BY <2>1, <2>9, UnloadedKeeps DEF Keeps, Loaded
  <2>11. QED
    BY <2>2, <2>5, <2>9, <2>10, KeepsTwice
<1>3. QED
  BY <1>1, <1>2

LEMMA IdlePollKeeps ==
  ASSUME NEW r, Coherent(r) PROVE Keeps(r, IdlePoll(r))
<1>1. r.num \in Loaded
  BY DEF Coherent, RamStates
<1>2. QED
  BY <1>1, KeepsItself, UnloadedKeeps DEF IdlePoll

\* The reset finds no restore: a shown one is in use, a deferred one holds it back.
LEMMA ResetKeeps ==
  ASSUME NEW r, Coherent(r) PROVE Keeps(r, Reset(r))
<1> DEFINE held == \/ r.num # None /\ r.motion[r.num] \in InUse
                   \/ ~r.atBoot /\ r.restore # None
           s == [r EXCEPT !.motion = AllIdle, !.held = NotHeld, !.useFlag = 0, !.num = None]
           t == Unloaded(s, None)
<1>1. CASE held
  BY <1>1, KeepsItself DEF Reset
<1>2. CASE ~held
  <2>1. Reset(r) = t
    BY <1>2 DEF Reset
  <2>2. r.restore = None
    <3>1. SUFFICES ASSUME r.restore # None PROVE FALSE
      OBVIOUS
    <3>2. r.restore \in Channels /\ r.atBoot \in BOOLEAN
      BY <3>1 DEF Coherent, RamStates, Loaded
    <3>3. r.num = r.restore /\ r.motion[r.restore] = "on_use"
      BY <1>2, <3>1, <3>2 DEF Coherent, RestoreFits, AllIdle
    <3>4. QED
      BY <1>2, <3>1, <3>3 DEF InUse
  <2>3. /\ s \in RamStates /\ SameLoaded(r, s) /\ s.num = None
        /\ \A d \in Channels : s.motion[d] = "idle"
    BY DEF Coherent, RamStates, SameLoaded, AllIdle, NotHeld, Motions, Loaded
  <2> HIDE DEF s
  <2>4. /\ t \in RamStates /\ t.num = None /\ t.restore = None /\ t.loaded = None
        /\ \A d \in Channels : t.motion[d] = "idle"
        /\ t.atBoot = r.atBoot
        /\ IF r.loaded = None THEN SameLoaded(r, t)
           ELSE ~t.flashPending /\ t.dirty /\ t.value = None
    <3>1. CASE r.loaded = None
      BY <2>2, <2>3, <3>1, UnloadedNot DEF SameLoaded
    <3>2. CASE r.loaded # None
      <4>1. /\ t \in RamStates
            /\ t.loaded = None /\ ~t.flashPending /\ t.dirty /\ t.value = None
            /\ t.restore = None /\ t.atBoot = s.atBoot
            /\ t.num = IF s.atBoot /\ s.restore # None /\ s.num = s.restore THEN None ELSE s.num
            /\ \A d \in Channels :
                 t.motion[d] = IF s.atBoot /\ d = s.restore THEN "idle" ELSE s.motion[d]
        BY <2>3, <3>2, UnloadedFields DEF SameLoaded, Loaded
      <4>2. QED
        BY <2>2, <2>3, <3>2, <4>1 DEF SameLoaded
    <3>3. QED
      BY <3>1, <3>2
  <2> HIDE DEF t
  <2>5. OneMoves(t) /\ LoadedActive(t) /\ RestoreFits(t) /\ PrintingSaved(t)
    BY <2>4 DEF OneMoves, LoadedActive, RestoreFits, PrintingSaved
  <2>6. \A k \in Loaded : Follows(r, k) => Follows(t, k)
    BY <2>4 DEF Follows, SameLoaded
  <2>7. Keeps(r, t)
    BY <2>2, <2>4, <2>5, <2>6 DEF Keeps, Coherent, Onward, SameLoaded
  <2>8. QED
    BY <2>1, <2>7
<1>3. QED
  BY <1>1, <1>2
LEMMA CommandKeeps ==
  ASSUME NEW r, Coherent(r), NEW cmd \in Commands, NEW late \in BOOLEAN
  PROVE  Keeps(r, set_motion(r, cmd[1], cmd[2], late))
<1> DEFINE n == cmd[1]
           k == cmd[2]
           s == Referenced(r, n, k)
           t == set_motion(r, n, k, late)
<1>1. \/ n \in Channels /\ k \in ChannelCommands
      \/ n = None /\ k \in AmsCommands
  BY DEF Commands
<1> HIDE DEF n, k
<1>2. /\ Keeps(r, s)
      /\ n # None => s.restore # n
      /\ n = None /\ k = "pull_back" => s.restore = None
  BY <1>1, ReferencedKeeps DEF Loaded
<1>3. Coherent(s)
  BY <1>2 DEF Keeps
<1> HIDE DEF s
<1>4. Keeps(s, t)
  <2>1. CASE n \in Channels /\ k = "send_out"
    <3>1. t = SendOut(s, n)
      BY <2>1 DEF set_motion, s
    <3>2. QED
      BY <1>2, <1>3, <2>1, <3>1, SendOutKeeps, NoneIsNoChannel
  <2>2. CASE n \in Channels /\ k = "before_on_use"
    <3>1. t = BeforeOnUse(s, n)
      BY <2>2 DEF set_motion, s
    <3>2. QED
      BY <1>3, <2>2, <3>1, BeforeOnUseKeeps
  <2>3. CASE n \in Channels /\ k = "stop_on_use"
    <3>1. t = StopOnUse(s, n)
      BY <2>3 DEF set_motion, s
    <3>2. QED
      BY <1>2, <1>3, <2>3, <3>1, StopOnUseKeeps, NoneIsNoChannel
  <2>4. CASE n \in Channels /\ k = "on_use"
    <3>1. t = OnUse(s, n, late)
      BY <2>4 DEF set_motion, s
    <3>2. QED
      BY <1>2, <1>3, <2>4, <3>1, OnUseKeeps, NoneIsNoChannel
  <2>5. CASE n \in Channels /\ k = "before_pull_back"
    <3>1. t = BeforePullBack(s, n)
      BY <2>5 DEF set_motion, s
    <3>2. QED
      BY <1>2, <1>3, <2>5, <3>1, BeforePullBackKeeps, NoneIsNoChannel
  <2>6. CASE n \in Channels /\ k = "status 9"
    <3>1. t = OtherStatus9(s, n)
      BY <2>6 DEF set_motion, s
    <3>2. QED
      BY <1>3, <2>6, <3>1, OtherStatus9Keeps
  <2>7. CASE k = "other"
    <3>1. t = s
      BY <2>7 DEF set_motion, s
    <3>2. QED
      BY <1>3, <3>1, KeepsItself
  <2>8. CASE n = None /\ k = "pull_back"
    <3>1. t = PullBack(s)
      BY <2>8 DEF set_motion, s
    <3>2. QED
      BY <1>2, <1>3, <2>8, <3>1, PullBackKeeps
  <2>9. CASE k = "idle_poll"
    <3>1. t = IdlePoll(s)
      BY <2>9 DEF set_motion, s
    <3>2. QED
      BY <1>3, <3>1, IdlePollKeeps
  <2>10. CASE k = "reset"
    <3>1. t = Reset(s)
      BY <2>10 DEF set_motion, s
    <3>2. QED
      BY <1>3, <3>1, ResetKeeps
  <2>11. QED
    BY <1>1, <2>1, <2>2, <2>3, <2>4, <2>5, <2>6, <2>7, <2>8, <2>9, <2>10
       DEF ChannelCommands, AmsCommands
<1>5. Keeps(r, t)
  BY <1>2, <1>4, KeepsTwice
<1>6. QED
  BY <1>5 DEF n, k

-----------------------------------------------------------------------------
(* Motor control and the boot.                                             *)

LEMMA EmptyUnloadedKeeps ==
  ASSUME NEW r, Coherent(r), NEW keys PROVE Keeps(r, EmptyUnloaded(r, keys))
<1>1. r.loaded \in Loaded
  BY DEF Coherent, RamStates
<1>2. QED
  BY <1>1, KeepsItself, UnloadedKeeps DEF EmptyUnloaded

\* Retractions that end leave their channels idle.
LEMMA EndedKeeps ==
  ASSUME NEW r, Coherent(r), r.restore = None, NEW idle \in SUBSET Channels,
         NEW f \in {0, 2, 4},
         NEW s, s = [r EXCEPT !.useFlag = f,
                              !.motion = [c \in Channels |-> IF c \in idle THEN "idle" ELSE @[c]]]
  PROVE  Keeps(r, s)
<1> DEFINE m == [c \in Channels |-> IF c \in idle THEN "idle" ELSE r.motion[c]]
           t == [r EXCEPT !.useFlag = f, !.motion = m]
<1>1. r \in RamStates
  BY DEF Coherent
<1>2. s = t
  BY <1>1 DEF RamStates
<1>3. m \in [Channels -> Motions] /\ \A d \in Channels : m[d] \in {r.motion[d], "idle"}
  BY <1>1 DEF RamStates, Motions
<1> HIDE DEF m
<1>4. t \in RamStates /\ SameLoaded(r, t) /\ t.num = r.num /\ t.motion = m
  BY <1>1, <1>3 DEF RamStates, SameLoaded
<1> HIDE DEF t
<1>5. Keeps(r, t)
  BY <1>1, <1>3, <1>4, MotionKeeps
<1>6. QED
  BY <1>2, <1>5

LEMMA WentIdleKeeps ==
  ASSUME NEW r, Coherent(r), r.restore = None, NEW c \in Channels
  PROVE  Keeps(r, WentIdle(r, c))
<1> DEFINE m == [r.motion EXCEPT ![c] = "idle"]
           t == [r EXCEPT !.useFlag = 0, !.motion = m]
<1>1. r \in RamStates
  BY DEF Coherent
<1>2. WentIdle(r, c) = t
  BY <1>1 DEF WentIdle, RamStates
<1>3. m \in [Channels -> Motions] /\ \A d \in Channels : m[d] \in {r.motion[d], "idle"}
  BY <1>1 DEF RamStates, Motions
<1> HIDE DEF m
<1>4. t \in RamStates /\ SameLoaded(r, t) /\ t.num = r.num /\ t.motion = m
  BY <1>1, <1>3 DEF RamStates, SameLoaded
<1> HIDE DEF t
<1>5. Keeps(r, t)
  BY <1>1, <1>3, <1>4, MotionKeeps
<1>6. QED
  BY <1>2, <1>5

LEMMA RamInitCoherent ==
  ASSUME NEW b \in BOOLEAN
  PROVE  Coherent(RamInit(b, None)) /\ ~RamInit(b, None).dirty
  BY DEF RamInit, Coherent, RamStates, AllIdle, NotHeld, Motions, Loaded,
         OneMoves, LoadedActive, RestoreFits, PrintingSaved

LEMMA RestoredCoherent ==
  ASSUME NEW b \in BOOLEAN, NEW l \in Loaded
  PROVE  LET r == Restored(RamInit(b, l))
         IN  Coherent(r) /\ Follows(r, l) /\ r.loaded = l /\ r.restore = l /\ r.atBoot = b
<1> DEFINE i == RamInit(b, l)
           r == Restored(i)
<1>1. /\ i \in RamStates /\ i.num = None /\ i.motion = AllIdle /\ i.loaded = l /\ i.restore = l
      /\ i.atBoot = b /\ ~i.flashPending /\ ~i.dirty
  BY DEF RamInit, RamStates, AllIdle, NotHeld, Motions, Loaded
<1> HIDE DEF i
<1>2. CASE l = None \/ ~b
  <2>1. r = i
    BY <1>1, <1>2 DEF Restored
  <2>2. OneMoves(r) /\ LoadedActive(r) /\ RestoreFits(r) /\ PrintingSaved(r)
    BY <1>1, <1>2, <2>1 DEF OneMoves, LoadedActive, RestoreFits, PrintingSaved, AllIdle
  <2>3. QED
    BY <1>1, <2>1, <2>2 DEF Coherent, Follows, i
<1>3. CASE l # None /\ b
  <2> DEFINE m == [AllIdle EXCEPT ![l] = "on_use"]
  <2>1. l \in Channels
    BY <1>3 DEF Loaded
  <2>2. /\ m \in [Channels -> Motions]
        /\ \A d \in Channels : m[d] # "idle" => d = l
    BY <2>1 DEF AllIdle, Motions, InUse
  <2>3. r = [i EXCEPT !.num = l, !.useFlag = 4, !.motion = m]
    BY <1>1, <1>3 DEF Restored, Seeded
  <2>4. m = [AllIdle EXCEPT ![l] = "on_use"]
    OBVIOUS
  <2> HIDE DEF m
  <2>5. /\ r \in RamStates /\ r.num = l /\ r.useFlag = 4 /\ r.motion = m
        /\ r.loaded = l /\ r.restore = l /\ r.atBoot = b /\ ~r.flashPending /\ ~r.dirty
    BY <1>1, <2>2, <2>3 DEF RamStates
  <2> HIDE DEF r
  <2>6. OneMoves(r) /\ LoadedActive(r) /\ RestoreFits(r) /\ PrintingSaved(r)
    BY <1>3, <2>2, <2>4, <2>5 DEF OneMoves, LoadedActive, RestoreFits, PrintingSaved
  <2>7. QED
    BY <2>5, <2>6 DEF Coherent, Follows, r, i
<1>4. QED
  BY <1>2, <1>3

\* A channel that cannot feed is not restored: the boot unloads it.
LEMMA BootCheckedKeeps ==
  ASSUME NEW r, Coherent(r), r.restore = r.loaded, NEW usable
  PROVE  Keeps(r, BootChecked(r, usable))
<1>1. CASE r.loaded = None \/ r.loaded \in usable
  BY <1>1, KeepsItself DEF BootChecked
<1>2. CASE ~(r.loaded = None \/ r.loaded \in usable)
  <2> DEFINE c == r.loaded
             m == [r.motion EXCEPT ![c] = "idle"]
             s == [r EXCEPT !.motion = m, !.num = None, !.useFlag = 0]
             t == Unloaded(s, c)
  <2>1. r \in RamStates /\ c \in Channels /\ r.atBoot \in BOOLEAN
    BY <1>2 DEF Coherent, RamStates, Loaded
  <2>2. BootChecked(r, usable) = t
    BY <1>2, <2>1 DEF BootChecked, RamStates
  <2>3. m \in [Channels -> Motions] /\ \A d \in Channels : m[d] = "idle"
    BY <1>2, <2>1 DEF Coherent, RestoreFits, RamStates, Motions, AllIdle
  <2> HIDE DEF m
  <2>4. s \in RamStates /\ SameLoaded(r, s) /\ s.num = None /\ s.motion = m
    BY <2>1, <2>3 DEF RamStates, SameLoaded, Loaded
  <2> HIDE DEF s
  <2>5. /\ t \in RamStates
        /\ t.loaded = None /\ ~t.flashPending /\ t.dirty /\ t.value = None
        /\ t.restore = None /\ t.atBoot = s.atBoot
        /\ t.num = IF s.atBoot /\ s.restore # None /\ s.num = s.restore THEN None ELSE s.num
        /\ \A d \in Channels :
             t.motion[d] = IF s.atBoot /\ d = s.restore THEN "idle" ELSE s.motion[d]
    BY <1>2, <2>1, <2>4, UnloadedFields DEF SameLoaded, Loaded
  <2> HIDE DEF t
  <2>6. OneMoves(t) /\ LoadedActive(t) /\ RestoreFits(t) /\ PrintingSaved(t)
    BY <2>3, <2>4, <2>5 DEF OneMoves, LoadedActive, RestoreFits, PrintingSaved
  <2>7. Keeps(r, t)
    BY <2>4, <2>5, <2>6 DEF Keeps, Coherent, Onward, Follows, SameLoaded
  <2>8. QED
    BY <2>2, <2>7
<1>3. QED
  BY <1>1, <1>2
-----------------------------------------------------------------------------
(* The inductive invariant.                                                *)

NothingBeforeBoot == pass = "off" => ram = RamInit(ram.atBoot, None) /\ pos = NoPos

\* A retraction follows a command that has ended the restore.
RetractsTaken == ram.restore # None => pos = NoPos

\* The save of an older value ends with the state still marked for a save.
MarkedWhilePending == pending # NoPending => ram.dirty

KnownFollowed == pass # "off" => Follows(ram, known["sta"])

IInv ==
  /\ TypeOK /\ Coherent(ram)
  /\ NothingBeforeBoot /\ RetractsTaken /\ MarkedWhilePending /\ KnownFollowed

\* A step that changes the AMS state by handlers only, and no part of the log.
LEMMA HandlersKeep ==
  ASSUME IInv, pass # "off", Keeps(ram, ram'), pos' \in [Channels -> Positions],
         ram'.restore # None => pos' = NoPos, pass' \in {"bus", "nvm", "motion"},
         key' \in [Channels -> BOOLEAN], blank' = blank, UNCHANGED log
  PROVE  IInv'
<1>1. UNCHANGED <<stored, known, pending, stuck>>
  BY DEF log
<1>2. TypeOK'
  BY <1>1 DEF IInv, TypeOK, Log!TypeOK, Keeps, Coherent
<1>3. Coherent(ram)' /\ NothingBeforeBoot' /\ RetractsTaken'
  BY DEF Keeps, NothingBeforeBoot, RetractsTaken
<1>4. MarkedWhilePending'
  BY <1>1 DEF IInv, MarkedWhilePending, Keeps, Onward
<1>5. KnownFollowed'
  BY <1>1 DEF IInv, KnownFollowed, Keeps, TypeOK, Log!TypeOK
<1>6. QED
  BY <1>2, <1>3, <1>4, <1>5 DEF IInv

LEMMA InitIInv == Init => IInv
<1> SUFFICES ASSUME Init PROVE IInv
  OBVIOUS
<1>1. PICK b \in BOOLEAN : ram = RamInit(b, None)
  BY DEF Init
<1>2. ram.atBoot = b /\ ram.restore = None
  BY <1>1 DEF RamInit
<1>3. Coherent(ram)
  BY <1>1, RamInitCoherent
<1>4. TypeOK
  BY <1>3 DEF Init, TypeOK, Coherent, Log!Init, Log!TypeOK, NoPos, Positions
<1>5. NothingBeforeBoot /\ RetractsTaken /\ MarkedWhilePending /\ KnownFollowed
  BY <1>1, <1>2 DEF Init, NothingBeforeBoot, RetractsTaken, MarkedWhilePending, KnownFollowed,
                    Log!Init
<1>6. QED
  BY <1>3, <1>4, <1>5 DEF IInv

LEMMA NextIInv == IInv /\ [Next]_vars => IInv'
<1> SUFFICES ASSUME IInv, [Next]_vars PROVE IInv'
  OBVIOUS
<1> USE DEF Positions
<1>0. /\ ram \in RamStates /\ Coherent(ram) /\ pos \in [Channels -> Positions]
      /\ key \in [Channels -> BOOLEAN] /\ known \in [{"sta"} -> Loaded]
      /\ NoPos \in [Channels -> Positions]
  BY DEF IInv, TypeOK, Log!TypeOK, Coherent, NoPos
<1>1. CASE Boot
  <2> DEFINE l == known["sta"]
             r == Restored(RamInit(ram.atBoot, l))
  <2>1. ram.atBoot \in BOOLEAN /\ l \in Loaded
    BY <1>0 DEF RamStates
  <2>2. Coherent(r) /\ Follows(r, l) /\ r.loaded = l /\ r.restore = l
    BY <2>1, RestoredCoherent
  <2>3. Keeps(r, ram')
    BY <1>1, <2>2, BootCheckedKeeps DEF Boot
  <2>4. ram = RamInit(ram.atBoot, None) /\ pos = NoPos
    BY <1>1 DEF Boot, IInv, NothingBeforeBoot
  <2>5. pending = NoPending
    BY <2>4 DEF IInv, MarkedWhilePending, RamInit
  <2>6. Coherent(ram)' /\ Follows(ram', l)
    BY <2>1, <2>2, <2>3 DEF Keeps
  <2>7. pass' = "bus" /\ pos' = pos /\ key' \in [Channels -> BOOLEAN] /\ blank' = blank
        /\ UNCHANGED <<stored, known, pending, stuck>>
    BY <1>1 DEF Boot, log
  <2>8. TypeOK'
    BY <2>6, <2>7 DEF IInv, TypeOK, Log!TypeOK, Coherent
  <2>9. (NothingBeforeBoot /\ RetractsTaken /\ MarkedWhilePending /\ KnownFollowed)'
    BY <2>4, <2>5, <2>6, <2>7 DEF NothingBeforeBoot, RetractsTaken, MarkedWhilePending,
                                  KnownFollowed
  <2>10. QED
    BY <2>6, <2>8, <2>9 DEF IInv
<1>2. CASE NoCommand \/ NoSave
  <2>1. Keeps(ram, ram')
    BY <1>0, <1>2, KeepsItself DEF NoCommand, NoSave
  <2>2. QED
    BY <1>0, <1>2, <2>1, HandlersKeep DEF NoCommand, NoSave, IInv, RetractsTaken
<1>3. CASE \E cmd \in Commands, late \in BOOLEAN : Command(cmd, late)
  <2>1. PICK cmd \in Commands, late \in BOOLEAN : Command(cmd, late)
    BY <1>3
  <2>2. Keeps(ram, ram')
    BY <1>0, <2>1, CommandKeeps DEF Command
  <2>3. ram'.restore # None => pos' = NoPos
    BY <2>1, <2>2 DEF Command, IInv, RetractsTaken, Keeps, Onward
  <2>4. QED
    BY <1>0, <2>1, <2>2, <2>3, HandlersKeep DEF Command
<1>4. CASE Save
  <2>1. CASE ~blank /\ known["sta"] = ram.value
    <3>1. /\ ram' = [ram EXCEPT !.dirty = FALSE] /\ UNCHANGED <<stored, known, pending, stuck>>
          /\ pass' = "motion" /\ UNCHANGED <<pos, key, blank>> /\ pending = NoPending
          /\ ram.dirty /\ pass = "nvm"
      BY <1>4, <2>1 DEF Save, log
    <3>2. /\ ram' \in RamStates /\ ~ram'.dirty /\ ram'.num = ram.num
          /\ ram'.motion = ram.motion /\ ram'.useFlag = ram.useFlag
          /\ ram'.loaded = ram.loaded /\ ram'.flashPending = ram.flashPending
          /\ ram'.restore = ram.restore /\ ram'.atBoot = ram.atBoot
      BY <1>0, <3>1 DEF RamStates
    <3>3. Coherent(ram)'
      BY <1>0, <3>2 DEF Coherent, OneMoves, LoadedActive, RestoreFits, PrintingSaved
    <3>4. Follows(ram', known["sta"])
      BY <2>1, <3>1, <3>2 DEF IInv, KnownFollowed, Follows
    <3>5. TypeOK'
      BY <3>1, <3>2 DEF IInv, TypeOK, Log!TypeOK
    <3>6. (NothingBeforeBoot /\ RetractsTaken /\ MarkedWhilePending /\ KnownFollowed)'
      BY <3>1, <3>2, <3>4 DEF IInv, NothingBeforeBoot, RetractsTaken, MarkedWhilePending,
                              KnownFollowed
    <3>7. QED
      BY <3>3, <3>5, <3>6 DEF IInv
  <2>2. CASE ~(~blank /\ known["sta"] = ram.value)
    <3>1. /\ ram' = ram /\ pending' = <<"sta", ram.value>>
          /\ UNCHANGED <<stored, known, stuck>>
          /\ pass' = "motion" /\ UNCHANGED <<pos, key, blank>>
          /\ ram.dirty /\ pass = "nvm"
      BY <1>4, <2>2 DEF Save, Log!Queue
    <3>2. pending' \in {"sta"} \X Loaded
      BY <1>0, <3>1 DEF RamStates
    <3>3. TypeOK'
      BY <3>1, <3>2 DEF IInv, TypeOK, Log!TypeOK
    <3>4. (NothingBeforeBoot /\ RetractsTaken /\ MarkedWhilePending /\ KnownFollowed)'
      BY <3>1 DEF IInv, NothingBeforeBoot, RetractsTaken, MarkedWhilePending, KnownFollowed
    <3>5. QED
      BY <1>0, <3>1, <3>3, <3>4 DEF IInv
  <2>3. QED
    BY <2>1, <2>2
<1>5. CASE Motion
  <2>1. PICK error \in BOOLEAN, ended \in SUBSET {c \in Channels : Retracting(c)} :
          Motion_control_run(error, ended)
    BY <1>5 DEF Motion
  <2> DEFINE r == EmptyUnloaded(ram, key')
  <2>2. Keeps(ram, r)
    BY <1>0, EmptyUnloadedKeeps
  <2>3. Coherent(r) /\ (r.restore # None => ram.restore # None)
    BY <2>2 DEF Keeps, Onward
  <2>4. /\ pass = "motion" /\ pass' = "bus" /\ key' \in [Channels -> BOOLEAN]
        /\ blank' = blank /\ UNCHANGED log
        /\ IF error THEN ram' = r /\ UNCHANGED pos
           ELSE RetractPass(r, ended) \/ SwitchPass(r)
    BY <2>1 DEF Motion_control_run
  <2> HIDE DEF r
  <2>5. Keeps(r, ram') /\ pos' \in [Channels -> Positions]
        /\ (ram'.restore # None => pos' = NoPos)
    <3>1. CASE error
      BY <1>0, <2>3, <2>4, <3>1, KeepsItself DEF IInv, RetractsTaken
    <3>2. CASE ~error /\ RetractPass(r, ended)
      <4> DEFINE idle == {c \in ended : pos[c] = "redetect"}
      <4>1. idle \in SUBSET Channels
        OBVIOUS
      <4>2. pos # NoPos
        BY <3>2 DEF RetractPass, Retracting, NoPos
      <4>3. r.restore = None
        BY <2>3, <4>2 DEF IInv, RetractsTaken
      <4>4. ram' = [r EXCEPT !.useFlag = IF idle = {} THEN @ ELSE 0,
                             !.motion = [c \in Channels |-> IF c \in idle THEN "idle" ELSE @[c]]]
        BY <3>2 DEF RetractPass
      <4> HIDE DEF idle
      <4> DEFINE f == IF idle = {} THEN r.useFlag ELSE 0
      <4>5. f \in {0, 2, 4} /\ r \in RamStates
        BY <2>3 DEF Coherent, RamStates
      <4>6. ram' = [r EXCEPT !.useFlag = f,
                             !.motion = [c \in Channels |-> IF c \in idle THEN "idle" ELSE @[c]]]
        BY <4>4, <4>5 DEF RamStates
      <4> HIDE DEF f
      <4>7. Keeps(r, ram')
        BY <2>3, <4>1, <4>3, <4>5, <4>6, EndedKeeps
      <4>8. ram'.restore = None
        BY <4>3, <4>7 DEF Keeps, Onward
      <4>9. pos' \in [Channels -> Positions]
        BY <1>0, <3>2 DEF RetractPass
      <4>10. QED
        BY <4>7, <4>8, <4>9
    <3>3. CASE ~error /\ SwitchPass(r)
      <4> DEFINE pulls == r.num # None /\ key'[r.num] /\ r.motion[r.num] = "pull_back"
      <4>1. CASE ~pulls
        <5>1. ram' = r /\ pos' = NoPos
          BY <3>3, <4>1 DEF SwitchPass
        <5>2. QED
          BY <1>0, <2>3, <5>1, KeepsItself
      <4>2. CASE pulls
        <5>1. r.num \in Channels
          BY <2>3, <4>2 DEF Coherent, RamStates, Loaded
        <5>2. r.restore = None
          BY <2>3, <4>2, <5>1, MovingMeansTaken
        <5>3. ram' \in {r, WentIdle(r, r.num)}
          BY <3>3 DEF SwitchPass
        <5>4. Keeps(r, ram')
          BY <2>3, <5>1, <5>2, <5>3, KeepsItself, WentIdleKeeps
        <5>5. ram'.restore = None
          BY <5>2, <5>4 DEF Keeps, Onward
        <5>6. pos' \in [Channels -> Positions]
          BY <1>0, <3>3, <5>1 DEF SwitchPass
        <5>7. QED
          BY <5>4, <5>5, <5>6
      <4>3. QED
        BY <4>1, <4>2
    <3>4. QED
      BY <2>4, <3>1, <3>2, <3>3
  <2>6. Keeps(ram, ram')
    BY <2>2, <2>5, KeepsTwice
  <2>7. QED
    BY <2>4, <2>5, <2>6, HandlersKeep
<1>6. CASE LogCommit
  <2>1. /\ UNCHANGED <<ram, pos, key, pass, blank, known, pending, stuck>>
        /\ stored' = Log!Committed /\ pending # NoPending
    BY <1>6 DEF LogCommit, Log!Commit
  <2>2. stored' \in [{"sta"} -> Loaded]
    BY <2>1 DEF IInv, TypeOK, Log!TypeOK, Log!Committed
  <2>3. QED
    BY <2>1, <2>2 DEF IInv, TypeOK, Log!TypeOK, NothingBeforeBoot, RetractsTaken,
                      MarkedWhilePending, KnownFollowed
<1>7. CASE LogAcknowledge
  <2>1. /\ UNCHANGED <<ram, pos, key, pass, stored, stuck>> /\ blank' = FALSE
        /\ pending # NoPending /\ pending' = NoPending
        /\ known' = [known EXCEPT ![pending[1]] = pending[2]]
    BY <1>7 DEF LogAcknowledge, Log!Acknowledge
  <2>2. known' \in [{"sta"} -> Loaded]
    BY <2>1 DEF IInv, TypeOK, Log!TypeOK
  <2>3. ram.dirty
    BY <2>1 DEF IInv, MarkedWhilePending
  <2>4. KnownFollowed'
    BY <2>1, <2>3 DEF IInv, KnownFollowed, Follows
  <2>5. QED
    BY <2>1, <2>2, <2>4 DEF IInv, TypeOK, Log!TypeOK, NothingBeforeBoot, RetractsTaken,
                            MarkedWhilePending
<1>8. CASE LogStick
  <2>1. /\ UNCHANGED <<ram, pos, key, pass, blank, stored, known>>
        /\ stuck' = TRUE /\ pending' \in {pending, NoPending}
    BY <1>8 DEF LogStick, Log!Stick
  <2>2. QED
    BY <2>1 DEF IInv, TypeOK, Log!TypeOK, NothingBeforeBoot, RetractsTaken,
                MarkedWhilePending, KnownFollowed
<1>9. CASE PowerCut
  <2>1. /\ pass' = "off" /\ ram' = RamInit(ram.atBoot, None) /\ pos' = NoPos
        /\ key' = [c \in Channels |-> FALSE] /\ blank' \in BOOLEAN
        /\ stored' \in {stored} \cup (IF pending = NoPending THEN {} ELSE {Log!Committed})
        /\ known' = stored' /\ pending' = NoPending /\ stuck' = FALSE
    BY <1>9 DEF PowerCut, Log!Crash, IInv, TypeOK
  <2>2. stored' \in [{"sta"} -> Loaded]
    BY <2>1 DEF IInv, TypeOK, Log!TypeOK, Log!Committed
  <2>3. ram.atBoot \in BOOLEAN
    BY <1>0 DEF RamStates
  <2>4. Coherent(ram)' /\ ram'.atBoot = ram.atBoot /\ ram'.restore = None
    BY <2>1, <2>3, RamInitCoherent DEF RamInit
  <2>5. TypeOK'
    BY <1>0, <2>1, <2>2, <2>4 DEF TypeOK, Log!TypeOK, Coherent
  <2>6. (NothingBeforeBoot /\ RetractsTaken /\ MarkedWhilePending /\ KnownFollowed)'
    BY <2>1, <2>4 DEF NothingBeforeBoot, RetractsTaken, MarkedWhilePending, KnownFollowed
  <2>7. QED
    BY <2>4, <2>5, <2>6 DEF IInv
<1>10. CASE UNCHANGED vars
  BY <1>10 DEF vars, log, IInv, TypeOK, Log!TypeOK, NothingBeforeBoot, RetractsTaken,
               MarkedWhilePending, KnownFollowed
<1>11. QED
  BY <1>1, <1>2, <1>3, <1>4, <1>5, <1>6, <1>7, <1>8, <1>9, <1>10 DEF Next

\* The inductive invariant, from which the theorems below follow.
THEOREM Invariance == Spec => []IInv
  BY InitIInv, NextIInv, PTL DEF Spec

\* Only the active channel ever moves (set_motion, boot_restore.h, Motion_control.cpp).
THEOREM OnlyActiveMoves == Spec => []OneChannelMoves
<1>1. IInv => OneChannelMoves
  BY DEF IInv, Coherent, OneMoves, OneChannelMoves
<1>2. QED
  BY <1>1, Invariance, PTL

\* The loaded channel is the active one, unless its restore waits for the printer.
THEOREM LoadedMeansActive == Spec => []LoadedIsActive
<1>1. IInv => LoadedIsActive
  BY DEF IInv, Coherent, LoadedActive, LoadedIsActive
<1>2. QED
  BY <1>1, Invariance, PTL

\* A pending restore is shown as boot_restore.h says, and it is of the loaded channel.
THEOREM RestoreIsShown == Spec => []RestoreShown
<1>1. IInv => RestoreShown
  <2>1. SUFFICES ASSUME IInv, ram.restore # None PROVE RestoreShown
    BY DEF RestoreShown
  <2>2. ram.atBoot \in BOOLEAN
    BY <2>1 DEF IInv, Coherent, RamStates
  <2>3. QED
    BY <2>1, <2>2 DEF IInv, Coherent, RestoreFits, RestoreShown
<1>2. QED
  BY <1>1, Invariance, PTL

\* What the log will hold once the pending save is done is the loaded channel, or none
\* while the channel is only claimed (ams_state_*, ams_state_save_run).
THEOREM LogFollowsLoaded == Spec => []LogFollows
<1>1. IInv => LogFollows
  BY DEF IInv, KnownFollowed, Follows, LogFollows, LogTarget
<1>2. QED
  BY <1>1, Invariance, PTL

\* A channel the printer prints from is saved or being saved (get_package_motion, on_use).
THEOREM PrintingSavedAlways == Spec => []PrintingIsSaved
<1>1. IInv => PrintingIsSaved
  BY DEF IInv, Coherent, PrintingSaved, PrintingIsSaved
<1>2. QED
  BY <1>1, Invariance, PTL

\* What the printer is shown is one channel: the moving, the loaded and the restored one
\* are the active one (ams_state_*, boot_restore.h).
THEOREM OneAtATime == Spec => []OneChannelAtATime
<1>1. OneChannelMoves /\ LoadedIsActive /\ RestoreShown => OneChannelAtATime
  BY DEF OneChannelAtATime
<1>2. QED
  BY <1>1, OnlyActiveMoves, LoadedMeansActive, RestoreIsShown, PTL

\* The log can be relied on after a power cut: it follows the loaded channel, and the
\* channel being printed from is in it or on its way (ams_state_save_run).
THEOREM LogIsTrueAlways == Spec => []LogIsTrue
<1>1. LogFollows /\ PrintingIsSaved => LogIsTrue
  BY DEF LogIsTrue
<1>2. QED
  BY <1>1, LogFollowsLoaded, PrintingSavedAlways, PTL
-----------------------------------------------------------------------------
(* Both images.                                                            *)

\* Two images with the same in flash and of the loaded channel.
Alike(r, s) ==
  /\ r \in RamStates /\ r.atBoot
  /\ s \in RamStates /\ ~s.atBoot
  /\ s.held = r.held /\ s.loaded = r.loaded /\ s.flashPending = r.flashPending
  /\ s.dirty = r.dirty /\ s.value = r.value /\ s.restore = r.restore

\* The same of what moves, too.
Near(r, s) == Alike(r, s) /\ s.num = r.num /\ s.motion = r.motion

\* The restore is over: the images differ at most in the use flag of no channel, and in nothing
\* once the printer has referenced the restored channel (t).
Twins(r, s, t) ==
  Near(r, s) /\ r.restore = None /\ (t \/ r.num # None => s.useFlag = r.useFlag)

\* The restore is pending: one image shows the restored channel, the other none.
Waits(r, s) ==
  Alike(r, s) /\ r.restore # None /\ s.num = None /\ s.motion = AllIdle /\ r.held = NotHeld

Pair(r, s, t) == Twins(r, s, t) \/ (Waits(r, s) /\ ~t)

ImagesInv == IInv /\ posOff = pos /\ taken \in BOOLEAN /\ Pair(ram, off, taken)

-----------------------------------------------------------------------------
(* The handlers do not depend on the image they are instantiated for.      *)

LEMMA SameSets ==
  /\ Off!Channels = Channels /\ Off!Loaded = Loaded /\ Off!InUse = InUse
  /\ Off!AllIdle = AllIdle /\ Off!NotHeld = NotHeld /\ Off!NoPos = NoPos
  BY DEF Off!Channels, Channels, Off!Loaded, Loaded, Off!InUse, InUse, Off!AllIdle, AllIdle,
         Off!NotHeld, NotHeld, Off!NoPos, NoPos

LEMMA SameRestore ==
  ASSUME NEW r, NEW n, NEW k, NEW b
  PROVE  /\ Off!RamInit(b, k) = RamInit(b, k)
         /\ Off!Restored(r) = Restored(r)
         /\ Off!Referenced(r, n, k) = Referenced(r, n, k)
         /\ Off!RestoreUndone(r) = RestoreUndone(r)
<1>1. Off!RamInit(b, k) = RamInit(b, k)
  BY SameSets DEF Off!RamInit, RamInit
<1>2. \A q, c : Off!Seeded(q, c) = Seeded(q, c)
  BY SameSets DEF Off!Seeded, Seeded
<1>3. \A c : Off!References(c, n, k) = References(c, n, k)
  BY DEF Off!References, References
<1>4. Off!Restored(r) = Restored(r)
  BY <1>2 DEF Off!Restored, Restored
<1>5. Off!Referenced(r, n, k) = Referenced(r, n, k)
  BY <1>2, <1>3 DEF Off!Referenced, Referenced
<1>6. Off!RestoreUndone(r) = RestoreUndone(r)
  BY DEF Off!RestoreUndone, RestoreUndone
<1>7. QED
  BY <1>1, <1>4, <1>5, <1>6

LEMMA SameLoad ==
  ASSUME NEW r, NEW c
  PROVE  /\ Off!Free(r, c) = Free(r, c)
         /\ Off!Claimed(r, c) = Claimed(r, c)
         /\ Off!SetLoaded(r, c) = SetLoaded(r, c)
         /\ Off!Unloaded(r, c) = Unloaded(r, c)
         /\ Off!Accepted(r, c) = Accepted(r, c)
<1>1. Off!Free(r, c) = Free(r, c)
  BY DEF Off!Free, Free
<1>2. Off!Claimed(r, c) = Claimed(r, c)
  BY DEF Off!Claimed, Claimed
<1>3. Off!SetLoaded(r, c) = SetLoaded(r, c)
  BY <1>1, <1>2 DEF Off!SetLoaded, SetLoaded
<1>4. Off!Unloaded(r, c) = Unloaded(r, c)
  BY SameRestore DEF Off!Unloaded, Unloaded
<1>5. Off!Accepted(r, c) = Accepted(r, c)
  BY DEF Off!Accepted, Accepted
<1>6. QED
  BY <1>1, <1>2, <1>3, <1>4, <1>5

LEMMA SameCommand ==
  ASSUME NEW r, NEW n, NEW k, NEW late
  PROVE  Off!set_motion(r, n, k, late) = set_motion(r, n, k, late)
<1>1. \A q : Off!SendOut(q, n) = SendOut(q, n)
  BY SameLoad DEF Off!SendOut, SendOut
<1>2. \A q : Off!BeforeOnUse(q, n) = BeforeOnUse(q, n)
  BY SameLoad DEF Off!BeforeOnUse, BeforeOnUse, Off!Free, Free
<1>3. \A q : Off!StopOnUse(q, n) = StopOnUse(q, n)
  BY SameLoad DEF Off!StopOnUse, StopOnUse
<1>4. ASSUME NEW q PROVE Off!OnUse(q, n, late) = OnUse(q, n, late)
  <2> DEFINE a == Accepted(q, n)
             u == [a EXCEPT !.held[n] = FALSE, !.motion[n] = "on_use", !.useFlag = 4]
             o == IF ~Free(q, n) THEN q
                  ELSE IF a.motion[n] = "send_out" /\ ~(a.held[n] /\ late)
                  THEN [a EXCEPT !.held[n] = TRUE, !.useFlag = 4]
                  ELSE Off!SetLoaded(u, n)
  <2>1. Off!Accepted(q, n) = a /\ Off!SetLoaded(u, n) = SetLoaded(u, n)
    BY SameLoad
  <2>2. Off!Free(q, n) <=> Free(q, n)
    BY DEF Off!Free, Free
  <2>3. OnUse(q, n, late) = o
    BY <2>1 DEF OnUse
  <2>4. Off!OnUse(q, n, late) = o
    BY <2>1, <2>2 DEF Off!OnUse
  <2>5. QED
    BY <2>3, <2>4
<1>5. \A q : Off!BeforePullBack(q, n) = BeforePullBack(q, n)
  BY SameSets, SameLoad DEF Off!BeforePullBack, BeforePullBack
<1>6. \A q : Off!OtherStatus9(q, n) = OtherStatus9(q, n)
  BY DEF Off!OtherStatus9, OtherStatus9
<1>7. \A q : Off!PullBack(q) = PullBack(q)
  BY SameSets, SameLoad DEF Off!PullBack, PullBack
<1>8. \A q : Off!IdlePoll(q) = IdlePoll(q)
  BY SameLoad DEF Off!IdlePoll, IdlePoll
<1>9. \A q : Off!Reset(q) = Reset(q)
  BY SameSets, SameLoad DEF Off!Reset, Reset
<1>10. QED
  BY <1>1, <1>2, <1>3, <1>4, <1>5, <1>6, <1>7, <1>8, <1>9, SameRestore
  DEF Off!set_motion, set_motion

LEMMA SameMotor ==
  ASSUME NEW r, NEW k, NEW c
  PROVE  /\ Off!EmptyUnloaded(r, k) = EmptyUnloaded(r, k)
         /\ Off!WentIdle(r, c) = WentIdle(r, c)
         /\ Off!BootChecked(r, k) = BootChecked(r, k)
<1>1. Off!EmptyUnloaded(r, k) = EmptyUnloaded(r, k)
  BY SameLoad DEF Off!EmptyUnloaded, EmptyUnloaded
<1>2. Off!WentIdle(r, c) = WentIdle(r, c)
  BY DEF Off!WentIdle, WentIdle
<1>3. Off!BootChecked(r, k) = BootChecked(r, k)
  BY SameLoad DEF Off!BootChecked, BootChecked
<1>4. QED
  BY <1>1, <1>2, <1>3

-----------------------------------------------------------------------------
(* The steps the handlers are made of: With sets what moves, the other     *)
(* three what is loaded.                                                   *)

With(r, n, h, m, f) == [r EXCEPT !.num = n, !.held = h, !.motion = m, !.useFlag = f]

Emptied(r) ==
  [r EXCEPT !.loaded = None, !.flashPending = FALSE, !.dirty = TRUE, !.value = None,
            !.restore = None]
ClaimedFor(r, c) == [r EXCEPT !.loaded = c, !.flashPending = TRUE]
SavedFor(r, c) == [r EXCEPT !.loaded = c, !.flashPending = FALSE, !.dirty = TRUE, !.value = c]

LEMMA WithFields ==
  ASSUME NEW r \in RamStates, NEW n \in Loaded, NEW h \in [Channels -> BOOLEAN],
         NEW m \in [Channels -> Motions], NEW f \in {0, 2, 4}
  PROVE  LET w == With(r, n, h, m, f)
         IN  /\ w \in RamStates /\ w.atBoot = r.atBoot
             /\ w.num = n /\ w.held = h /\ w.motion = m /\ w.useFlag = f
             /\ w.loaded = r.loaded /\ w.flashPending = r.flashPending
             /\ w.dirty = r.dirty /\ w.value = r.value /\ w.restore = r.restore
  BY DEF With, RamStates

\* w is r but for what is loaded.
SameMoves(r, w) ==
  /\ w \in RamStates /\ w.atBoot = r.atBoot
  /\ w.num = r.num /\ w.held = r.held /\ w.motion = r.motion /\ w.useFlag = r.useFlag

LEMMA EmptiedFields ==
  ASSUME NEW r \in RamStates
  PROVE  LET w == Emptied(r)
         IN  /\ SameMoves(r, w)
             /\ w.loaded = None /\ w.flashPending = FALSE /\ w.dirty = TRUE
             /\ w.value = None /\ w.restore = None
  BY DEF Emptied, SameMoves, RamStates, Loaded

LEMMA ClaimedForFields ==
  ASSUME NEW r \in RamStates, NEW c \in Channels
  PROVE  LET w == ClaimedFor(r, c)
         IN  /\ SameMoves(r, w)
             /\ w.loaded = c /\ w.flashPending = TRUE /\ w.dirty = r.dirty
             /\ w.value = r.value /\ w.restore = r.restore
  BY DEF ClaimedFor, SameMoves, RamStates, Loaded

LEMMA SavedForFields ==
  ASSUME NEW r \in RamStates, NEW c \in Channels
  PROVE  LET w == SavedFor(r, c)
         IN  /\ SameMoves(r, w)
             /\ w.loaded = c /\ w.flashPending = FALSE /\ w.dirty = TRUE
             /\ w.value = c /\ w.restore = r.restore
  BY DEF SavedFor, SameMoves, RamStates, Loaded

LEMMA WithNear ==
  ASSUME NEW r, NEW s, Alike(r, s), NEW n \in Loaded, NEW h \in [Channels -> BOOLEAN],
         NEW m \in [Channels -> Motions], NEW f \in {0, 2, 4}, NEW g \in {0, 2, 4}
  PROVE  LET a == With(r, n, h, m, f)
             b == With(s, n, h, m, g)
         IN  /\ Near(a, b)
             /\ a.num = n /\ a.held = h /\ a.motion = m /\ a.useFlag = f /\ b.useFlag = g
             /\ a.loaded = r.loaded /\ a.restore = r.restore
<1>1. r \in RamStates /\ s \in RamStates
  BY DEF Alike
<1>2. QED
  BY <1>1, WithFields DEF Near, Alike

LEMMA WithTwins ==
  ASSUME NEW r, NEW s, Alike(r, s), r.restore = None, NEW n \in Loaded,
         NEW h \in [Channels -> BOOLEAN], NEW m \in [Channels -> Motions],
         NEW f \in {0, 2, 4}, NEW g \in {0, 2, 4}, NEW t, t \/ n # None => f = g
  PROVE  Twins(With(r, n, h, m, f), With(s, n, h, m, g), t)
  BY WithNear DEF Twins

LEMMA LoadNear ==
  ASSUME NEW r, NEW s, Near(r, s), NEW a, NEW b, SameMoves(r, a), SameMoves(s, b),
         b.loaded = a.loaded, b.flashPending = a.flashPending, b.dirty = a.dirty,
         b.value = a.value, b.restore = a.restore
  PROVE  Near(a, b)
  BY DEF Near, Alike, SameMoves

LEMMA LoadTwins ==
  ASSUME NEW r, NEW s, NEW t, Twins(r, s, t), NEW a, NEW b, SameMoves(r, a), SameMoves(s, b),
         b.loaded = a.loaded, b.flashPending = a.flashPending, b.dirty = a.dirty,
         b.value = a.value, b.restore = a.restore, a.restore = None
  PROVE  Twins(a, b, t)
<1>1. Near(a, b)
  BY LoadNear DEF Twins
<1>2. a.num = r.num /\ a.useFlag = r.useFlag /\ b.useFlag = s.useFlag
  BY DEF SameMoves
<1>3. QED
  BY <1>1, <1>2 DEF Twins

LEMMA AcceptedWith ==
  ASSUME NEW r \in RamStates, NEW c \in Channels
  PROVE  Accepted(r, c) =
           IF r.num \in {c, None} THEN With(r, c, r.held, r.motion, r.useFlag)
           ELSE With(r, c, [r.held EXCEPT ![r.num] = FALSE], [r.motion EXCEPT ![r.num] = "idle"], 0)
<1>1. CASE r.num \in {c, None}
  BY <1>1, NoneIsNoChannel DEF Accepted, With, RamStates
<1>2. CASE r.num \notin {c, None}
  BY <1>2, NoneIsNoChannel DEF Accepted, With, RamStates
<1>3. QED
  BY <1>1, <1>2

LEMMA AcceptedNear ==
  ASSUME NEW r, NEW s, Near(r, s), NEW c \in Channels
  PROVE  LET a == Accepted(r, c)
             b == Accepted(s, c)
         IN  /\ Near(a, b) /\ a.num = c
             /\ a.loaded = r.loaded /\ a.restore = r.restore
<1>1. /\ r \in RamStates /\ s \in RamStates
      /\ r.held \in [Channels -> BOOLEAN] /\ r.motion \in [Channels -> Motions]
      /\ r.useFlag \in {0, 2, 4} /\ s.useFlag \in {0, 2, 4} /\ c \in Loaded
      /\ s.num = r.num /\ s.held = r.held /\ s.motion = r.motion
      /\ r.num \in Loaded /\ "idle" \in Motions
  BY DEF Near, Alike, RamStates, Loaded, Motions
<1>2. Alike(r, s)
  BY DEF Near
<1>3. CASE r.num \in {c, None}
  <2>1. /\ Accepted(r, c) = With(r, c, r.held, r.motion, r.useFlag)
        /\ Accepted(s, c) = With(s, c, r.held, r.motion, s.useFlag)
    BY <1>1, <1>3, AcceptedWith
  <2>2. QED
    BY <1>1, <1>2, <2>1, WithNear
<1>4. CASE r.num \notin {c, None}
  <2> DEFINE h == [r.held EXCEPT ![r.num] = FALSE]
             m == [r.motion EXCEPT ![r.num] = "idle"]
  <2>1. /\ Accepted(r, c) = With(r, c, h, m, 0)
        /\ Accepted(s, c) = With(s, c, h, m, 0)
    BY <1>1, <1>4, AcceptedWith
  <2>2. h \in [Channels -> BOOLEAN] /\ m \in [Channels -> Motions]
    BY <1>1, <1>4 DEF Loaded
  <2> HIDE DEF h, m
  <2>3. QED
    BY <1>1, <1>2, <2>1, <2>2, WithNear
<1>5. QED
  BY <1>3, <1>4

\* Unloading where no restore shows in the state.
Undone(r) == r.restore = None \/ (r.num # r.restore /\ r.motion[r.restore] = "idle")

LEMMA UnloadedIsEmptied ==
  ASSUME NEW r \in RamStates, NEW c, r.loaded # None, c \in {None, r.loaded}, Undone(r)
  PROVE  Unloaded(r, c) = Emptied(r)
<1> DEFINE u == [r EXCEPT !.loaded = None, !.flashPending = FALSE, !.value = None, !.dirty = TRUE]
           w == Emptied(r)
<1>1. Unloaded(r, c) = RestoreUndone(u)
  BY DEF Unloaded
<1>2. u.restore = r.restore /\ u.num = r.num /\ u.motion = r.motion /\ u.atBoot = r.atBoot
      /\ [u EXCEPT !.restore = None] = w
  BY DEF RamStates, Emptied
<1>3. w.num = r.num /\ w.motion = r.motion /\ w \in RamStates
  BY EmptiedFields DEF SameMoves
<1> HIDE DEF u, w
<1>4. CASE r.restore = None \/ ~r.atBoot
  BY <1>1, <1>2, <1>4 DEF RestoreUndone, w
<1>5. CASE r.restore # None /\ r.atBoot
  <2>1. RestoreUndone(u) = [w EXCEPT !.motion[r.restore] = "idle"]
    BY <1>2, <1>3, <1>5 DEF RestoreUndone, Undone
  <2>2. r.motion = [r.motion EXCEPT ![r.restore] = "idle"]
    BY <1>5 DEF Undone, RamStates
  <2>3. w = [w EXCEPT !.motion[r.restore] = "idle"]
    BY <1>3, <2>2 DEF RamStates
  <2>4. QED
    BY <1>1, <2>1, <2>3 DEF w
<1>6. QED
  BY <1>4, <1>5

LEMMA UnloadedNear ==
  ASSUME NEW r, NEW s, Near(r, s), Undone(r), NEW c
  PROVE  LET a == Unloaded(r, c)
             b == Unloaded(s, c)
         IN  /\ Near(a, b)
             /\ a.num = r.num /\ a.motion = r.motion
             /\ a.useFlag = r.useFlag /\ b.useFlag = s.useFlag
             /\ a.restore = IF r.loaded # None /\ c \in {None, r.loaded} THEN None ELSE r.restore
<1>1. /\ r \in RamStates /\ s \in RamStates /\ s.loaded = r.loaded /\ Undone(s)
      /\ None \in Loaded
  BY DEF Near, Alike, Undone, Loaded
<1>2. CASE r.loaded # None /\ c \in {None, r.loaded}
  <2>1. /\ Unloaded(r, c) = Emptied(r)
        /\ Unloaded(s, c) = Emptied(s)
    BY <1>1, <1>2, UnloadedIsEmptied
  <2> DEFINE a == Emptied(r)
             b == Emptied(s)
  <2>2. /\ SameMoves(r, a) /\ SameMoves(s, b) /\ b.loaded = a.loaded
        /\ b.flashPending = a.flashPending /\ b.dirty = a.dirty /\ b.value = a.value
        /\ b.restore = a.restore /\ a.restore = None
    BY <1>1, EmptiedFields
  <2> HIDE DEF a, b
  <2>3. Near(a, b)
    BY <2>2, LoadNear
  <2>4. QED
    BY <1>2, <2>1, <2>2, <2>3 DEF SameMoves, a, b
<1>3. CASE r.loaded = None \/ c \notin {None, r.loaded}
  <2>1. Unloaded(r, c) = r /\ Unloaded(s, c) = s
    BY <1>1, <1>3, UnloadedNot
  <2>2. QED
    BY <1>3, <2>1
<1>4. QED
  BY <1>2, <1>3

LEMMA UnloadedTwins ==
  ASSUME NEW r, NEW s, NEW t, Twins(r, s, t), NEW c
  PROVE  Twins(Unloaded(r, c), Unloaded(s, c), t)
<1>1. Near(r, s) /\ Undone(r) /\ r.restore = None
  BY DEF Twins, Undone
<1>2. QED
  BY <1>1, UnloadedNear DEF Twins

LEMMA ClaimedTwins ==
  ASSUME NEW r, NEW s, NEW t, Twins(r, s, t), NEW c \in Channels
  PROVE  Twins(Claimed(r, c), Claimed(s, c), t)
<1>1. /\ r.restore = None /\ s.loaded = r.loaded /\ s.dirty = r.dirty
      /\ s.value = r.value /\ s.restore = None /\ r \in RamStates /\ s \in RamStates
  BY DEF Twins, Near, Alike
<1>2. CASE r.loaded = None
  <2> DEFINE a == ClaimedFor(r, c)
             b == ClaimedFor(s, c)
  <2>1. Claimed(r, c) = a /\ Claimed(s, c) = b
    BY <1>1, <1>2 DEF Claimed, ClaimedFor
  <2>2. /\ SameMoves(r, a) /\ SameMoves(s, b) /\ b.loaded = a.loaded
        /\ b.flashPending = a.flashPending /\ b.dirty = a.dirty /\ b.value = a.value
        /\ b.restore = a.restore /\ a.restore = None
    BY <1>1, ClaimedForFields
  <2> HIDE DEF a, b
  <2>3. QED
    BY <2>1, <2>2, LoadTwins
<1>3. CASE r.loaded # None
  BY <1>1, <1>3 DEF Claimed
<1>4. QED
  BY <1>2, <1>3

LEMMA SetLoadedTwins ==
  ASSUME NEW r, NEW s, NEW t, Twins(r, s, t), NEW c \in Channels
  PROVE  Twins(SetLoaded(r, c), SetLoaded(s, c), t)
<1> DEFINE a == Claimed(r, c)
           b == Claimed(s, c)
<1>1. Twins(a, b, t)
  BY ClaimedTwins
<1>2. (Free(r, c) <=> Free(s, c)) /\ a.flashPending = b.flashPending
  BY <1>1 DEF Twins, Near, Alike, Free
<1>3. CASE ~Free(r, c) \/ ~a.flashPending
  BY <1>2, <1>3 DEF SetLoaded
<1>4. CASE Free(r, c) /\ a.flashPending
  <2>0. /\ Near(a, b) /\ a.restore = None /\ b.restore = None /\ a \in RamStates /\ b \in RamStates
        /\ a.loaded = c /\ b.loaded = c
    <3>1. r \in RamStates /\ s \in RamStates /\ s.loaded = r.loaded
      BY DEF Twins, Near, Alike
    <3>2. a.loaded = c
      BY <1>4, <3>1 DEF Claimed, RamStates, Free
    <3>3. QED
      BY <1>1, <3>2 DEF Twins, Near, Alike
  <2> HIDE DEF a, b
  <2> DEFINE u == SavedFor(a, c)
             v == SavedFor(b, c)
  <2>1. /\ [a EXCEPT !.value = c, !.dirty = TRUE, !.flashPending = FALSE] = u
        /\ [b EXCEPT !.value = c, !.dirty = TRUE, !.flashPending = FALSE] = v
    BY <2>0 DEF SavedFor, RamStates
  <2>2. SetLoaded(r, c) = u /\ SetLoaded(s, c) = v
    BY <1>2, <1>4, <2>1 DEF SetLoaded, a, b
  <2>3. /\ SameMoves(a, u) /\ SameMoves(b, v) /\ v.loaded = u.loaded
        /\ v.flashPending = u.flashPending /\ v.dirty = u.dirty /\ v.value = u.value
        /\ v.restore = u.restore /\ u.restore = None
    BY <2>0, SavedForFields
  <2> HIDE DEF u, v
  <2>4. QED
    BY <1>1, <2>2, <2>3, LoadTwins
<1>5. QED
  BY <1>3, <1>4

-----------------------------------------------------------------------------
(* Twins stay twins: one lemma per command.                                *)

Released(a, c)    == [a EXCEPT !.held[c] = FALSE]
Touched(a, c)     == [a EXCEPT !.held[c] = FALSE, !.useFlag = 4]
HeldFor(a, c)     == [a EXCEPT !.held[c] = TRUE, !.useFlag = 4]
Turned(a, c, k, f) == [a EXCEPT !.motion[c] = k, !.useFlag = f]
Moved(a, c, k)    == [a EXCEPT !.held[c] = FALSE, !.motion[c] = k, !.useFlag = 4]

LEMMA NearFacts ==
  ASSUME NEW r, NEW s, Near(r, s)
  PROVE  /\ Alike(r, s)
         /\ r \in RamStates /\ s \in RamStates
         /\ r.num \in Loaded /\ r.held \in [Channels -> BOOLEAN]
         /\ r.motion \in [Channels -> Motions]
         /\ r.useFlag \in {0, 2, 4} /\ s.useFlag \in {0, 2, 4}
         /\ s.num = r.num /\ s.held = r.held /\ s.motion = r.motion
         /\ s.loaded = r.loaded /\ s.restore = r.restore
  BY DEF Near, Alike, RamStates

Freed(h, c)     == [h EXCEPT ![c] = FALSE]
Marked(h, c)    == [h EXCEPT ![c] = TRUE]
Shifted(m, c, k) == [m EXCEPT ![c] = k]

LEMMA PathsAreWith ==
  ASSUME NEW a \in RamStates, NEW c \in Channels, NEW k, NEW f
  PROVE  /\ Released(a, c) = With(a, a.num, Freed(a.held, c), a.motion, a.useFlag)
         /\ Touched(a, c) = With(a, a.num, Freed(a.held, c), a.motion, 4)
         /\ HeldFor(a, c) = With(a, a.num, Marked(a.held, c), a.motion, 4)
         /\ Turned(a, c, k, f) = With(a, a.num, a.held, Shifted(a.motion, c, k), f)
         /\ Moved(a, c, k) = With(a, a.num, Freed(a.held, c), Shifted(a.motion, c, k), 4)
  BY DEF Released, Touched, HeldFor, Turned, Moved, With, RamStates, Freed, Marked, Shifted

LEMMA PathTypes ==
  ASSUME NEW a \in RamStates, NEW c \in Channels, NEW k \in Motions
  PROVE  /\ Freed(a.held, c) \in [Channels -> BOOLEAN]
         /\ Marked(a.held, c) \in [Channels -> BOOLEAN]
         /\ Shifted(a.motion, c, k) \in [Channels -> Motions]
  BY DEF Freed, Marked, Shifted, RamStates

LEMMA ReleasedNear ==
  ASSUME NEW a, NEW b, Near(a, b), NEW c \in Channels
  PROVE  LET u == Released(a, c)
             w == Released(b, c)
         IN  /\ Near(u, w) /\ u.restore = a.restore /\ u.loaded = a.loaded
             /\ u.num = a.num /\ u.motion = a.motion
             /\ u.useFlag = a.useFlag /\ w.useFlag = b.useFlag
<1> DEFINE h == Freed(a.held, c)
<1>0. /\ a \in RamStates /\ b \in RamStates
      /\ b.num = a.num /\ b.held = a.held /\ b.motion = a.motion
  BY NearFacts
<1>1. /\ Released(a, c) = With(a, a.num, h, a.motion, a.useFlag)
      /\ Released(b, c) = With(b, a.num, h, a.motion, b.useFlag)
  BY <1>0, PathsAreWith
<1>2. h \in [Channels -> BOOLEAN]
  BY <1>0 DEF Freed, RamStates
<1> HIDE DEF h
<1>3. QED
  BY <1>1, <1>2, NearFacts, WithNear

LEMMA ReleasedTwins ==
  ASSUME NEW a, NEW b, NEW t, Twins(a, b, t), NEW c \in Channels
  PROVE  Twins(Released(a, c), Released(b, c), t)
  BY ReleasedNear DEF Twins

\* The use flag is set, so the images agree on it.
LEMMA SetTwins ==
  ASSUME NEW a, NEW b, Near(a, b), a.restore = None, NEW c \in Channels, NEW k \in Motions,
         NEW f \in {0, 2, 4}, NEW t
  PROVE  /\ Twins(Touched(a, c), Touched(b, c), t)
         /\ Twins(HeldFor(a, c), HeldFor(b, c), t)
         /\ Twins(Turned(a, c, k, f), Turned(b, c, k, f), t)
         /\ Twins(Moved(a, c, k), Moved(b, c, k), t)
<1> DEFINE h == Freed(a.held, c)
           g == Marked(a.held, c)
           m == Shifted(a.motion, c, k)
<1>0. /\ a \in RamStates /\ b \in RamStates
      /\ b.num = a.num /\ b.held = a.held /\ b.motion = a.motion
  BY NearFacts
<1>1. /\ Touched(a, c) = With(a, a.num, h, a.motion, 4)
      /\ HeldFor(a, c) = With(a, a.num, g, a.motion, 4)
      /\ Turned(a, c, k, f) = With(a, a.num, a.held, m, f)
      /\ Moved(a, c, k) = With(a, a.num, h, m, 4)
  BY <1>0, PathsAreWith
<1>2. /\ Touched(b, c) = With(b, a.num, h, a.motion, 4)
      /\ HeldFor(b, c) = With(b, a.num, g, a.motion, 4)
      /\ Turned(b, c, k, f) = With(b, a.num, a.held, m, f)
      /\ Moved(b, c, k) = With(b, a.num, h, m, 4)
  BY <1>0, PathsAreWith
<1>3. h \in [Channels -> BOOLEAN] /\ g \in [Channels -> BOOLEAN] /\ m \in [Channels -> Motions]
  BY <1>0, PathTypes
<1> HIDE DEF h, g, m
<1>4. /\ Twins(With(a, a.num, h, a.motion, 4), With(b, a.num, h, a.motion, 4), t)
      /\ Twins(With(a, a.num, g, a.motion, 4), With(b, a.num, g, a.motion, 4), t)
      /\ Twins(With(a, a.num, a.held, m, f), With(b, a.num, a.held, m, f), t)
      /\ Twins(With(a, a.num, h, m, 4), With(b, a.num, h, m, 4), t)
  BY <1>3, NearFacts, WithTwins
<1>5. QED
  BY <1>1, <1>2, <1>4

LEMMA TwinsAreNear ==
  ASSUME NEW r, NEW s, NEW t, Twins(r, s, t)
  PROVE  /\ Near(r, s) /\ r.restore = None /\ Undone(r)
         /\ s.num = r.num /\ s.motion = r.motion /\ s.loaded = r.loaded /\ s.held = r.held
         /\ r.num # None => s.useFlag = r.useFlag
  BY DEF Twins, Near, Alike, Undone

\* Also where the restore is pending and another channel is commanded: then it is undone.
LEMMA SendOutNear ==
  ASSUME NEW r, NEW s, NEW a, NEW b, NEW c \in Channels, NEW t,
         a = Accepted(r, c), b = Accepted(s, c), Near(a, b), Undone(a),
         a.restore = None \/ (a.loaded = a.restore /\ a.motion[c] = "idle")
  PROVE  Twins(SendOut(r, c), SendOut(s, c), t)
<1> DEFINE x == Released(a, c)
           y == Released(b, c)
           u == IF x.motion[c] # "send_out" THEN Unloaded(x, None) ELSE x
           v == IF y.motion[c] # "send_out" THEN Unloaded(y, None) ELSE y
<1>1. /\ Near(x, y) /\ x.restore = a.restore /\ x.loaded = a.loaded /\ x.num = a.num
      /\ x.motion = a.motion
  BY ReleasedNear
<1>2. SendOut(r, c) = Turned(u, c, "send_out", 2) /\ SendOut(s, c) = Turned(v, c, "send_out", 2)
  BY DEF SendOut, Released, Turned
<1>3. Undone(x) /\ y.motion = x.motion
  BY <1>1, NearFacts DEF Undone
<1> HIDE DEF x, y
<1>4. Near(u, v) /\ u.restore = None
  <2>1. CASE x.motion[c] # "send_out"
    BY <1>1, <1>3, <2>1, UnloadedNear
  <2>2. CASE x.motion[c] = "send_out"
    BY <1>1, <1>3, <2>2
  <2>3. QED
    BY <2>1, <2>2
<1> HIDE DEF u, v
<1>5. "send_out" \in Motions
  BY DEF Motions
<1>6. QED
  BY <1>2, <1>4, <1>5, SetTwins

LEMMA AcceptedTwins ==
  ASSUME NEW r, NEW s, NEW t, Twins(r, s, t), NEW c \in Channels
  PROVE  LET a == Accepted(r, c)
             b == Accepted(s, c)
         IN  /\ Near(a, b) /\ a.num = c /\ a.restore = None /\ Undone(a)
             /\ a.loaded = r.loaded /\ b.motion = a.motion /\ b.held = a.held
<1>1. Near(r, s) /\ r.restore = None
  BY TwinsAreNear
<1>2. QED
  BY <1>1, AcceptedNear, NearFacts DEF Undone

LEMMA SendOutTwins ==
  ASSUME NEW r, NEW s, NEW t, Twins(r, s, t), NEW c \in Channels
  PROVE  Twins(SendOut(r, c), SendOut(s, c), t)
  BY AcceptedTwins, SendOutNear

LEMMA BeforeOnUseTwins ==
  ASSUME NEW r, NEW s, NEW t, Twins(r, s, t), NEW c \in Channels
  PROVE  Twins(BeforeOnUse(r, c), BeforeOnUse(s, c), t)
<1> DEFINE a == Accepted(r, c)
           b == Accepted(s, c)
           u == Moved(a, c, "before_on_use")
           v == Moved(b, c, "before_on_use")
<1>1. s.motion = r.motion /\ s.loaded = r.loaded
  BY TwinsAreNear
<1>2. CASE r.motion[c] \notin {"send_out", "before_on_use"}
  BY <1>1, <1>2 DEF BeforeOnUse
<1>3. CASE r.motion[c] \in {"send_out", "before_on_use"} /\ r.loaded \notin {None, c}
  <2>1. BeforeOnUse(r, c) = Released(r, c) /\ BeforeOnUse(s, c) = Released(s, c)
    BY <1>1, <1>3 DEF BeforeOnUse, Released, Free
  <2>2. QED
    BY <2>1, ReleasedTwins
<1>4. CASE r.motion[c] \in {"send_out", "before_on_use"} /\ r.loaded \in {None, c}
  <2>1. BeforeOnUse(r, c) = Claimed(u, c) /\ BeforeOnUse(s, c) = Claimed(v, c)
    BY <1>1, <1>4 DEF BeforeOnUse, Moved, Free
  <2>2. Near(a, b) /\ a.restore = None
    BY AcceptedTwins
  <2> HIDE DEF a, b
  <2>3. "before_on_use" \in Motions /\ 4 \in {0, 2, 4}
    BY DEF Motions, InUse
  <2>4. Twins(u, v, t)
    BY <2>2, <2>3, SetTwins
  <2> HIDE DEF u, v
  <2>5. QED
    BY <2>1, <2>4, ClaimedTwins
<1>5. QED
  BY <1>2, <1>3, <1>4

LEMMA StopOnUseTwins ==
  ASSUME NEW r, NEW s, NEW t, Twins(r, s, t), NEW c \in Channels
  PROVE  Twins(StopOnUse(r, c), StopOnUse(s, c), t)
<1> DEFINE x == Released(r, c)
           y == Released(s, c)
           a == Accepted(x, c)
           b == Accepted(y, c)
           k == IF a.motion[c] \in {"on_use", "before_on_use"} THEN "stop_on_use" ELSE a.motion[c]
           p == [a EXCEPT !.useFlag = 4,
                          !.motion[c] = IF @ \in {"on_use", "before_on_use"} THEN "stop_on_use" ELSE @]
           q == [b EXCEPT !.useFlag = 4,
                          !.motion[c] = IF @ \in {"on_use", "before_on_use"} THEN "stop_on_use" ELSE @]
<1>1. s.loaded = r.loaded /\ Twins(x, y, t)
  BY TwinsAreNear, ReleasedTwins
<1>2. CASE r.loaded # c
  BY <1>1, <1>2 DEF StopOnUse, Released
<1>3. CASE r.loaded = c
  <2>1. StopOnUse(r, c) = p /\ StopOnUse(s, c) = q
    BY <1>1, <1>3 DEF StopOnUse, Released
  <2> HIDE DEF x, y
  <2>2. Near(a, b) /\ a.restore = None /\ b.motion = a.motion
    BY <1>1, AcceptedTwins
  <2>3. a \in RamStates /\ b \in RamStates /\ a.motion \in [Channels -> Motions]
    BY <2>2, NearFacts
  <2> HIDE DEF a, b
  <2>4. p = Turned(a, c, k, 4) /\ q = Turned(b, c, k, 4)
    BY <2>2, <2>3 DEF Turned, RamStates
  <2>5. k \in Motions /\ 4 \in {0, 2, 4}
    BY <2>3 DEF Motions, InUse
  <2> HIDE DEF k, p, q
  <2>6. QED
    BY <2>1, <2>2, <2>4, <2>5, SetTwins
<1>4. QED
  BY <1>2, <1>3

LEMMA OnUseTwins ==
  ASSUME NEW r, NEW s, NEW t, Twins(r, s, t), NEW c \in Channels, NEW late
  PROVE  Twins(OnUse(r, c, late), OnUse(s, c, late), t)
<1> DEFINE a == Accepted(r, c)
           b == Accepted(s, c)
           u == Moved(a, c, "on_use")
           v == Moved(b, c, "on_use")
<1>1. s.loaded = r.loaded
  BY TwinsAreNear
<1>2. /\ Near(a, b) /\ a.restore = None /\ b.motion = a.motion /\ b.held = a.held
  BY AcceptedTwins
<1>3. "on_use" \in Motions /\ 4 \in {0, 2, 4}
  BY DEF Motions, InUse
<1>4. CASE r.loaded \notin {None, c}
  BY <1>1, <1>4 DEF OnUse, Free
<1>5. CASE r.loaded \in {None, c} /\ a.motion[c] = "send_out" /\ ~(a.held[c] /\ late)
  <2>1. OnUse(r, c, late) = HeldFor(a, c) /\ OnUse(s, c, late) = HeldFor(b, c)
    BY <1>1, <1>2, <1>5 DEF OnUse, HeldFor, Free
  <2> HIDE DEF a, b
  <2>2. QED
    BY <1>2, <1>3, <2>1, SetTwins
<1>6. CASE r.loaded \in {None, c} /\ ~(a.motion[c] = "send_out" /\ ~(a.held[c] /\ late))
  <2>1. OnUse(r, c, late) = SetLoaded(u, c) /\ OnUse(s, c, late) = SetLoaded(v, c)
    BY <1>1, <1>2, <1>6 DEF OnUse, Moved, Free
  <2> HIDE DEF a, b
  <2>2. Twins(u, v, t)
    BY <1>2, <1>3, SetTwins
  <2> HIDE DEF u, v
  <2>3. QED
    BY <2>1, <2>2, SetLoadedTwins
<1>7. QED
  BY <1>4, <1>5, <1>6

LEMMA BeforePullBackTwins ==
  ASSUME NEW r, NEW s, NEW t, Twins(r, s, t), NEW c \in Channels
  PROVE  Twins(BeforePullBack(r, c), BeforePullBack(s, c), t)
<1> DEFINE x == Released(r, c)
           y == Released(s, c)
           a == Accepted(x, c)
           b == Accepted(y, c)
           k == IF a.motion[c] \in InUse THEN "before_pull_back" ELSE a.motion[c]
           p == [a EXCEPT !.useFlag = 4,
                          !.motion[c] = IF @ \in InUse THEN "before_pull_back" ELSE @]
           q == [b EXCEPT !.useFlag = 4,
                          !.motion[c] = IF @ \in InUse THEN "before_pull_back" ELSE @]
<1>1. s.loaded = r.loaded /\ Twins(x, y, t)
  BY TwinsAreNear, ReleasedTwins
<1>2. CASE r.loaded # c
  BY <1>1, <1>2 DEF BeforePullBack, Released
<1>3. CASE r.loaded = c
  <2>1. BeforePullBack(r, c) = Unloaded(p, c) /\ BeforePullBack(s, c) = Unloaded(q, c)
    BY <1>1, <1>3 DEF BeforePullBack, Released
  <2> HIDE DEF x, y
  <2>2. Near(a, b) /\ a.restore = None /\ b.motion = a.motion
    BY <1>1, AcceptedTwins
  <2>3. a \in RamStates /\ b \in RamStates /\ a.motion \in [Channels -> Motions]
    BY <2>2, NearFacts
  <2> HIDE DEF a, b
  <2>4. p = Turned(a, c, k, 4) /\ q = Turned(b, c, k, 4)
    BY <2>2, <2>3 DEF Turned, RamStates
  <2>5. k \in Motions /\ 4 \in {0, 2, 4}
    BY <2>3 DEF Motions
  <2> HIDE DEF k, p, q
  <2>6. Twins(p, q, t)
    BY <2>2, <2>4, <2>5, SetTwins
  <2>7. QED
    BY <2>1, <2>6, UnloadedTwins
<1>4. QED
  BY <1>2, <1>3

LEMMA OtherStatus9Twins ==
  ASSUME NEW r, NEW s, NEW t, Twins(r, s, t), NEW c \in Channels
  PROVE  Twins(OtherStatus9(r, c), OtherStatus9(s, c), t)
<1>1. OtherStatus9(r, c) = Touched(r, c) /\ OtherStatus9(s, c) = Touched(s, c)
  BY DEF OtherStatus9, Touched
<1>2. "idle" \in Motions /\ 4 \in {0, 2, 4}
  BY DEF Motions
<1>3. QED
  BY <1>1, <1>2, TwinsAreNear, SetTwins

LEMMA PullBackTwins ==
  ASSUME NEW r, NEW s, NEW t, Twins(r, s, t)
  PROVE  Twins(PullBack(r), PullBack(s), t)
<1> DEFINE c == r.num
           x == Released(r, c)
           y == Released(s, c)
           p == IF x.motion[c] \in InUse \cup {"before_pull_back"}
                THEN Turned(x, c, "pull_back", 2) ELSE x
           q == IF y.motion[c] \in InUse \cup {"before_pull_back"}
                THEN Turned(y, c, "pull_back", 2) ELSE y
<1>1. Near(r, s) /\ s.num = r.num
  BY TwinsAreNear
<1>2. CASE r.num = None
  BY <1>1, <1>2 DEF PullBack
<1>3. CASE r.num # None
  <2>1. c \in Channels
    BY <1>1, <1>3, NearFacts DEF Loaded
  <2>2. PullBack(r) = Unloaded(p, c) /\ PullBack(s) = Unloaded(q, c)
    BY <1>1, <1>3 DEF PullBack, Released, Turned
  <2> HIDE DEF c
  <2>3. Twins(x, y, t)
    BY <2>1, ReleasedTwins
  <2> HIDE DEF x, y
  <2>4. Near(x, y) /\ x.restore = None /\ y.motion = x.motion
    BY <2>3, TwinsAreNear
  <2>5. "pull_back" \in Motions /\ 2 \in {0, 2, 4}
    BY DEF Motions
  <2>6. Twins(p, q, t)
    BY <2>1, <2>3, <2>4, <2>5, SetTwins
  <2>7. QED
    BY <2>2, <2>6, UnloadedTwins
<1>4. QED
  BY <1>2, <1>3

LEMMA IdlePollTwins ==
  ASSUME NEW r, NEW s, NEW t, Twins(r, s, t)
  PROVE  Twins(IdlePoll(r), IdlePoll(s), t)
<1>1. s.num = r.num /\ (r.num # None => s.useFlag = r.useFlag)
  BY TwinsAreNear
<1>2. Twins(Unloaded(r, r.num), Unloaded(s, r.num), t)
  BY UnloadedTwins
<1>3. QED
  BY <1>1, <1>2 DEF IdlePoll

LEMMA ResetTwins ==
  ASSUME NEW r, NEW s, NEW t, Twins(r, s, t)
  PROVE  Twins(Reset(r), Reset(s), t)
<1> DEFINE p == With(r, None, NotHeld, AllIdle, 0)
           q == With(s, None, NotHeld, AllIdle, 0)
<1>1. /\ Near(r, s) /\ s.num = r.num /\ s.motion = r.motion /\ r.restore = None
      /\ s.restore = None
  BY TwinsAreNear, NearFacts
<1>2. CASE r.num # None /\ r.motion[r.num] \in InUse
  BY <1>1, <1>2 DEF Reset
<1>3. CASE ~(r.num # None /\ r.motion[r.num] \in InUse)
  <2>1. r \in RamStates /\ s \in RamStates
    BY <1>1, NearFacts
  <2>2. /\ p = [r EXCEPT !.motion = AllIdle, !.held = NotHeld, !.useFlag = 0, !.num = None]
        /\ q = [s EXCEPT !.motion = AllIdle, !.held = NotHeld, !.useFlag = 0, !.num = None]
    BY <2>1 DEF With, RamStates
  <2>3. Reset(r) = Unloaded(p, None) /\ Reset(s) = Unloaded(q, None)
    BY <1>1, <1>3, <2>2 DEF Reset
  <2>4. None \in Loaded /\ NotHeld \in [Channels -> BOOLEAN] /\ AllIdle \in [Channels -> Motions]
    BY DEF Loaded, NotHeld, AllIdle, Motions
  <2>5. Twins(p, q, t)
    BY <1>1, <2>4, WithTwins, NearFacts
  <2> HIDE DEF p, q
  <2>6. QED
    BY <2>3, <2>5, UnloadedTwins
<1>4. QED
  BY <1>2, <1>3

-----------------------------------------------------------------------------
(* While the restore is pending.                                           *)

LEMMA WaitsShows ==
  ASSUME NEW r, NEW s, Coherent(r), Waits(r, s)
  PROVE  /\ r.restore \in Channels /\ r.num = r.restore /\ r.loaded = r.restore
         /\ r.useFlag = 4 /\ r.motion = [AllIdle EXCEPT ![r.restore] = "on_use"]
         /\ r \in RamStates /\ s \in RamStates /\ r.atBoot /\ ~s.atBoot
         /\ s.restore = r.restore /\ s.loaded = r.restore /\ s.num = None /\ s.motion = AllIdle
         /\ r.held = NotHeld /\ s.held = NotHeld
<1>1. r.restore \in Channels
  BY DEF Waits, Alike, RamStates, Loaded
<1>2. QED
  BY <1>1 DEF Waits, Alike, Coherent, RestoreFits

\* The printer's reference makes twins of them.
LEMMA ReferencedPair ==
  ASSUME NEW r, NEW s, NEW t \in BOOLEAN, Coherent(r), Pair(r, s, t), NEW n \in Loaded, NEW k
  PROVE  Pair(Referenced(r, n, k), Referenced(s, n, k),
              t \/ (r.restore # None /\ References(r.restore, n, k)))
<1>1. CASE Twins(r, s, t)
  <2>1. r.restore = None /\ s.restore = None
    BY <1>1 DEF Twins, Near, Alike
  <2>2. Referenced(r, n, k) = r /\ Referenced(s, n, k) = s
    BY <2>1 DEF Referenced
  <2>3. QED
    BY <1>1, <2>1, <2>2 DEF Pair, Twins
<1>2. CASE Waits(r, s) /\ ~t /\ ~References(r.restore, n, k)
  <2>1. Referenced(r, n, k) = r /\ Referenced(s, n, k) = s
    BY <1>2 DEF Referenced, Waits, Alike
  <2>2. QED
    BY <1>2, <2>1 DEF Pair
<1>3. CASE Waits(r, s) /\ ~t /\ References(r.restore, n, k)
  <2> DEFINE c == r.restore
             m == [AllIdle EXCEPT ![c] = "on_use"]
             p == [r EXCEPT !.restore = None]
             q == [s EXCEPT !.restore = None, !.num = c, !.useFlag = 4, !.motion = m]
  <2>1. /\ c \in Channels /\ r.num = c /\ r.useFlag = 4 /\ r.motion = m
        /\ r \in RamStates /\ s \in RamStates /\ r.atBoot /\ ~s.atBoot /\ s.restore = c
        /\ c # None
    BY <1>3, WaitsShows, NoneIsNoChannel
  <2>2. /\ s.held = r.held /\ s.loaded = r.loaded /\ s.flashPending = r.flashPending
        /\ s.dirty = r.dirty /\ s.value = r.value
    BY <1>3 DEF Waits, Alike
  <2>3. Referenced(r, n, k) = p
    BY <1>3, <2>1 DEF Referenced
  <2>4. Referenced(s, n, k) = q
    BY <1>3, <2>1 DEF Referenced, Seeded, RamStates
  <2>5. m \in [Channels -> Motions]
    BY <2>1 DEF AllIdle, Motions, InUse
  <2> HIDE DEF m
  <2>6. /\ p \in RamStates /\ p.num = c /\ p.useFlag = 4 /\ p.motion = m /\ p.restore = None
        /\ p.held = r.held /\ p.loaded = r.loaded /\ p.flashPending = r.flashPending
        /\ p.dirty = r.dirty /\ p.value = r.value /\ p.atBoot = r.atBoot
    BY <2>1 DEF RamStates, Loaded
  <2>7. /\ q \in RamStates /\ q.num = c /\ q.useFlag = 4 /\ q.motion = m /\ q.restore = None
        /\ q.held = s.held /\ q.loaded = s.loaded /\ q.flashPending = s.flashPending
        /\ q.dirty = s.dirty /\ q.value = s.value /\ q.atBoot = s.atBoot
    BY <2>1, <2>5 DEF RamStates, Loaded
  <2> HIDE DEF p, q
  <2>8. Twins(p, q, TRUE)
    BY <2>1, <2>2, <2>6, <2>7 DEF Twins, Near, Alike
  <2>9. QED
    BY <1>3, <2>1, <2>3, <2>4, <2>8 DEF Pair, Twins
<1>4. QED
  BY <1>1, <1>2, <1>3 DEF Pair

LEMMA FreedNotHeld ==
  ASSUME NEW r \in RamStates, NEW c \in Channels, r.held = NotHeld
  PROVE  [r EXCEPT !.held[c] = FALSE] = r
<1>1. [NotHeld EXCEPT ![c] = FALSE] = NotHeld
  BY DEF NotHeld
<1>2. QED
  BY <1>1 DEF RamStates

\* Another channel sent out ends the restore, in both images in the same state.
LEMMA WaitsSendOut ==
  ASSUME NEW r, NEW s, Coherent(r), Waits(r, s), NEW c \in Channels, c # r.restore, NEW t
  PROVE  Twins(SendOut(r, c), SendOut(s, c), t)
<1> DEFINE e == r.restore
           a == Accepted(r, c)
           b == Accepted(s, c)
<1>1. /\ e \in Channels /\ r.num = e /\ r.loaded = e /\ r.restore = e
      /\ r.motion = [AllIdle EXCEPT ![e] = "on_use"]
      /\ r \in RamStates /\ s \in RamStates /\ s.num = None /\ s.motion = AllIdle
      /\ r.held = NotHeld /\ s.held = NotHeld /\ e # None
  BY WaitsShows, NoneIsNoChannel
<1>2. Alike(r, s)
  BY DEF Waits
<1>3. a = With(r, c, NotHeld, AllIdle, 0)
  <2>1. [NotHeld EXCEPT ![e] = FALSE] = NotHeld
    BY DEF NotHeld
  <2>2. [r.motion EXCEPT ![e] = "idle"] = AllIdle
    BY <1>1 DEF AllIdle
  <2>3. QED
    BY <1>1, <2>1, <2>2, AcceptedWith
<1>4. b = With(s, c, NotHeld, AllIdle, s.useFlag)
  BY <1>1, AcceptedWith
<1>5. /\ c \in Loaded /\ NotHeld \in [Channels -> BOOLEAN] /\ AllIdle \in [Channels -> Motions]
      /\ s.useFlag \in {0, 2, 4}
  BY <1>1 DEF Loaded, NotHeld, AllIdle, Motions, RamStates
<1>6. Near(a, b) /\ a.num = c /\ a.motion = AllIdle /\ a.loaded = e /\ a.restore = e
  BY <1>1, <1>2, <1>3, <1>4, <1>5, WithNear
<1> HIDE DEF a, b
<1>7. Undone(a) /\ a.motion[c] = "idle"
  BY <1>1, <1>6 DEF Undone, AllIdle
<1>8. QED
  BY <1>6, <1>7, SendOutNear DEF a, b

\* No other command for another channel, no poll and no reset does anything to the restore.
LEMMA WaitsOn ==
  ASSUME NEW r, NEW s, Coherent(r), Waits(r, s), NEW late
  PROVE  /\ \A c \in Channels \ {r.restore} :
              /\ BeforeOnUse(r, c) = r /\ BeforeOnUse(s, c) = s
              /\ StopOnUse(r, c) = r /\ StopOnUse(s, c) = s
              /\ OnUse(r, c, late) = r /\ OnUse(s, c, late) = s
              /\ BeforePullBack(r, c) = r /\ BeforePullBack(s, c) = s
              /\ Waits(OtherStatus9(r, c), OtherStatus9(s, c))
         /\ IdlePoll(r) = r /\ IdlePoll(s) = s
         /\ Reset(r) = r /\ Reset(s) = s
<1> DEFINE e == r.restore
<1>1. /\ e \in Channels /\ r.num = e /\ r.loaded = e /\ r.useFlag = 4
      /\ r.motion = [AllIdle EXCEPT ![e] = "on_use"]
      /\ r \in RamStates /\ s \in RamStates /\ s.num = None /\ s.motion = AllIdle
      /\ s.loaded = e /\ s.restore = e
      /\ r.held = NotHeld /\ s.held = NotHeld /\ e # None /\ r.atBoot /\ ~s.atBoot
  BY WaitsShows, NoneIsNoChannel
<1>2. ASSUME NEW c \in Channels \ {e}
      PROVE  /\ BeforeOnUse(r, c) = r /\ BeforeOnUse(s, c) = s
             /\ StopOnUse(r, c) = r /\ StopOnUse(s, c) = s
             /\ OnUse(r, c, late) = r /\ OnUse(s, c, late) = s
             /\ BeforePullBack(r, c) = r /\ BeforePullBack(s, c) = s
             /\ Waits(OtherStatus9(r, c), OtherStatus9(s, c))
  <2>1. r.motion[c] = "idle" /\ s.motion[c] = "idle"
    BY <1>1 DEF AllIdle
  <2>2. BeforeOnUse(r, c) = r /\ BeforeOnUse(s, c) = s
    BY <2>1 DEF BeforeOnUse
  <2>3. [r EXCEPT !.held[c] = FALSE] = r /\ [s EXCEPT !.held[c] = FALSE] = s
    BY <1>1, FreedNotHeld
  <2>4. StopOnUse(r, c) = r /\ StopOnUse(s, c) = s
    BY <1>1, <2>3 DEF StopOnUse
  <2>5. OnUse(r, c, late) = r /\ OnUse(s, c, late) = s
    BY <1>1 DEF OnUse, Free
  <2>6. BeforePullBack(r, c) = r /\ BeforePullBack(s, c) = s
    BY <1>1, <2>3 DEF BeforePullBack
  <2>7. Waits(OtherStatus9(r, c), OtherStatus9(s, c))
    <3> DEFINE q == [s EXCEPT !.useFlag = 4]
    <3>1. OtherStatus9(r, c) = r
      <4>1. [NotHeld EXCEPT ![c] = FALSE] = NotHeld
        BY DEF NotHeld
      <4>2. QED
        BY <1>1, <4>1 DEF OtherStatus9, RamStates
    <3>2. OtherStatus9(s, c) = q
      <4>1. [NotHeld EXCEPT ![c] = FALSE] = NotHeld
        BY DEF NotHeld
      <4>2. QED
        BY <1>1, <4>1 DEF OtherStatus9, RamStates
    <3>3. /\ q \in RamStates /\ q.atBoot = s.atBoot /\ q.held = s.held /\ q.loaded = s.loaded
          /\ q.flashPending = s.flashPending /\ q.dirty = s.dirty /\ q.value = s.value
          /\ q.restore = s.restore /\ q.num = s.num /\ q.motion = s.motion
      BY <1>1 DEF RamStates
    <3> HIDE DEF q
    <3>4. QED
      BY <3>1, <3>2, <3>3 DEF Waits, Alike
  <2>8. QED
    BY <2>2, <2>4, <2>5, <2>6, <2>7
<1>3. IdlePoll(r) = r /\ IdlePoll(s) = s
  BY <1>1 DEF IdlePoll
<1>4. Reset(r) = r
  <2>1. r.motion[e] = "on_use"
    BY <1>1 DEF AllIdle
  <2>2. QED
    BY <1>1, <2>1 DEF Reset, InUse
<1>5. Reset(s) = s
  BY <1>1 DEF Reset
<1>6. QED
  BY <1>2, <1>3, <1>4, <1>5

\* A command takes a pair to a pair.
LEMMA CommandPair ==
  ASSUME NEW r, NEW s, NEW t \in BOOLEAN, Coherent(r), Pair(r, s, t), NEW cmd \in Commands,
         NEW late \in BOOLEAN
  PROVE  Pair(set_motion(r, cmd[1], cmd[2], late), set_motion(s, cmd[1], cmd[2], late),
              t \/ (r.restore # None /\ References(r.restore, cmd[1], cmd[2])))
<1> DEFINE n == cmd[1]
           k == cmd[2]
           p == Referenced(r, n, k)
           q == Referenced(s, n, k)
           u == t \/ (r.restore # None /\ References(r.restore, n, k))
           x == set_motion(r, n, k, late)
           y == set_motion(s, n, k, late)
<1>1. \/ n \in Channels /\ k \in ChannelCommands
      \/ n = None /\ k \in AmsCommands
  BY DEF Commands
<1> HIDE DEF n, k
<1>2. /\ Coherent(p)
      /\ n # None => p.restore # n
      /\ n = None /\ k = "pull_back" => p.restore = None
  BY <1>1, ReferencedKeeps DEF Loaded, Keeps
<1>3. Pair(p, q, u) /\ u \in BOOLEAN
  BY <1>1, ReferencedPair DEF Loaded
<1> HIDE DEF p, q, u
<1>4. Pair(x, y, u)
  <2>1. CASE n \in Channels /\ k = "send_out"
    <3>1. x = SendOut(p, n) /\ y = SendOut(q, n)
      BY <2>1 DEF set_motion, p, q
    <3>2. QED
      BY <1>2, <1>3, <2>1, <3>1, SendOutTwins, WaitsSendOut, NoneIsNoChannel DEF Pair
  <2>2. CASE n \in Channels /\ k = "before_on_use"
    <3>1. x = BeforeOnUse(p, n) /\ y = BeforeOnUse(q, n)
      BY <2>2 DEF set_motion, p, q
    <3>2. QED
      BY <1>2, <1>3, <2>2, <3>1, BeforeOnUseTwins, WaitsOn, NoneIsNoChannel DEF Pair
  <2>3. CASE n \in Channels /\ k = "stop_on_use"
    <3>1. x = StopOnUse(p, n) /\ y = StopOnUse(q, n)
      BY <2>3 DEF set_motion, p, q
    <3>2. QED
      BY <1>2, <1>3, <2>3, <3>1, StopOnUseTwins, WaitsOn, NoneIsNoChannel DEF Pair
  <2>4. CASE n \in Channels /\ k = "on_use"
    <3>1. x = OnUse(p, n, late) /\ y = OnUse(q, n, late)
      BY <2>4 DEF set_motion, p, q
    <3>2. QED
      BY <1>2, <1>3, <2>4, <3>1, OnUseTwins, WaitsOn, NoneIsNoChannel DEF Pair
  <2>5. CASE n \in Channels /\ k = "before_pull_back"
    <3>1. x = BeforePullBack(p, n) /\ y = BeforePullBack(q, n)
      BY <2>5 DEF set_motion, p, q
    <3>2. QED
      BY <1>2, <1>3, <2>5, <3>1, BeforePullBackTwins, WaitsOn, NoneIsNoChannel DEF Pair
  <2>6. CASE n \in Channels /\ k = "status 9"
    <3>1. x = OtherStatus9(p, n) /\ y = OtherStatus9(q, n)
      BY <2>6 DEF set_motion, p, q
    <3>2. CASE Twins(p, q, u)
      BY <2>6, <3>1, <3>2, OtherStatus9Twins DEF Pair
    <3>3. CASE Waits(p, q) /\ ~u
      <4>1. n \in Channels \ {p.restore}
        BY <1>2, <2>6, NoneIsNoChannel
      <4>2. Waits(OtherStatus9(p, n), OtherStatus9(q, n))
        BY <1>2, <3>3, <4>1, WaitsOn
      <4>3. QED
        BY <3>1, <3>3, <4>2 DEF Pair
    <3>4. QED
      BY <1>3, <3>2, <3>3 DEF Pair
  <2>7. CASE k = "other"
    BY <1>3, <2>7 DEF set_motion, p, q
  <2>8. CASE n = None /\ k = "pull_back"
    <3>1. x = PullBack(p) /\ y = PullBack(q)
      BY <2>8 DEF set_motion, p, q
    <3>2. Twins(p, q, u)
      BY <1>2, <1>3, <2>8 DEF Pair, Waits
    <3>3. QED
      BY <3>1, <3>2, PullBackTwins DEF Pair
  <2>9. CASE k = "idle_poll"
    <3>1. x = IdlePoll(p) /\ y = IdlePoll(q)
      BY <2>9 DEF set_motion, p, q
    <3>2. QED
      BY <1>2, <1>3, <3>1, IdlePollTwins, WaitsOn DEF Pair
  <2>10. CASE k = "reset"
    <3>1. x = Reset(p) /\ y = Reset(q)
      BY <2>10 DEF set_motion, p, q
    <3>2. QED
      BY <1>2, <1>3, <3>1, ResetTwins, WaitsOn DEF Pair
  <2>11. QED
    BY <1>1, <2>1, <2>2, <2>3, <2>4, <2>5, <2>6, <2>7, <2>8, <2>9, <2>10
       DEF ChannelCommands, AmsCommands
<1>5. QED
  BY <1>4 DEF n, k, u

-----------------------------------------------------------------------------
(* Saves, motor control and the boot.                                      *)

LEMMA SavedPair ==
  ASSUME NEW r, NEW s, NEW t, Pair(r, s, t)
  PROVE  Pair([r EXCEPT !.dirty = FALSE], [s EXCEPT !.dirty = FALSE], t)
<1> DEFINE p == [r EXCEPT !.dirty = FALSE]
           q == [s EXCEPT !.dirty = FALSE]
<1>1. r \in RamStates /\ s \in RamStates
  BY DEF Pair, Twins, Waits, Near, Alike
<1>2. /\ p \in RamStates /\ p.atBoot = r.atBoot /\ p.held = r.held /\ p.loaded = r.loaded
      /\ p.flashPending = r.flashPending /\ p.dirty = FALSE /\ p.value = r.value
      /\ p.restore = r.restore /\ p.num = r.num /\ p.motion = r.motion /\ p.useFlag = r.useFlag
  BY <1>1 DEF RamStates
<1>3. /\ q \in RamStates /\ q.atBoot = s.atBoot /\ q.held = s.held /\ q.loaded = s.loaded
      /\ q.flashPending = s.flashPending /\ q.dirty = FALSE /\ q.value = s.value
      /\ q.restore = s.restore /\ q.num = s.num /\ q.motion = s.motion /\ q.useFlag = s.useFlag
  BY <1>1 DEF RamStates
<1> HIDE DEF p, q
<1>4. CASE Twins(r, s, t)
  <2>1. Twins(p, q, t)
    BY <1>2, <1>3, <1>4 DEF Twins, Near, Alike
  <2>2. QED
    BY <2>1 DEF Pair, p, q
<1>5. CASE Waits(r, s) /\ ~t
  <2>1. Waits(p, q)
    BY <1>2, <1>3, <1>5 DEF Waits, Alike
  <2>2. QED
    BY <1>5, <2>1 DEF Pair, p, q
<1>6. QED
  BY <1>4, <1>5 DEF Pair

\* The restored channel reads empty before the printer has asked for it.
LEMMA WaitsUnloaded ==
  ASSUME NEW r, NEW s, Coherent(r), Waits(r, s)
  PROVE  Twins(Unloaded(r, r.loaded), Unloaded(s, r.loaded), FALSE)
<1> DEFINE e == r.restore
           u == [r EXCEPT !.loaded = None, !.flashPending = FALSE, !.value = None, !.dirty = TRUE]
           p == Emptied(r)
           q == Emptied(s)
           a == With(p, None, p.held, AllIdle, 0)
           b == With(q, None, p.held, AllIdle, s.useFlag)
<1>1. /\ e \in Channels /\ r.num = e /\ r.loaded = e /\ r.restore = e
      /\ r.motion = [AllIdle EXCEPT ![e] = "on_use"]
      /\ r \in RamStates /\ s \in RamStates /\ s.num = None /\ s.motion = AllIdle
      /\ s.loaded = e /\ s.restore = e /\ e # None /\ r.atBoot /\ ~s.atBoot
  BY WaitsShows, NoneIsNoChannel
<1>2. Alike(p, q) /\ p.restore = None
  BY <1>1, EmptiedFields DEF Alike, SameMoves, Waits
<1>3. /\ p \in RamStates /\ p.num = e /\ p.motion = r.motion
      /\ q \in RamStates /\ q.num = None /\ q.motion = AllIdle /\ q.useFlag = s.useFlag
      /\ q.held = p.held
  BY <1>1, <1>2, EmptiedFields DEF SameMoves, Alike
<1>4. Unloaded(r, r.loaded) = a
  <2>1. Unloaded(r, r.loaded) = RestoreUndone(u)
    BY <1>1 DEF Unloaded
  <2>2. [u EXCEPT !.restore = None] = p /\ u.restore = e /\ u.atBoot
    BY <1>1 DEF RamStates, Emptied
  <2> HIDE DEF u, p
  <2>3. RestoreUndone(u) = [p EXCEPT !.num = None, !.useFlag = 0, !.motion[e] = "idle"]
    BY <1>1, <1>3, <2>2 DEF RestoreUndone
  <2>4. [p.motion EXCEPT ![e] = "idle"] = AllIdle
    BY <1>1, <1>3 DEF AllIdle
  <2>5. QED
    BY <1>3, <2>1, <2>3, <2>4 DEF With, RamStates
<1>5. Unloaded(s, r.loaded) = b
  <2>1. Unloaded(s, r.loaded) = q
    BY <1>1, UnloadedIsEmptied DEF Undone, AllIdle
  <2>2. q = b
    BY <1>3 DEF With, RamStates
  <2>3. QED
    BY <2>1, <2>2
<1>6. /\ None \in Loaded /\ p.held \in [Channels -> BOOLEAN] /\ AllIdle \in [Channels -> Motions]
      /\ s.useFlag \in {0, 2, 4} /\ 0 \in {0, 2, 4}
  BY <1>1, <1>3 DEF Loaded, AllIdle, Motions, RamStates
<1> HIDE DEF p, q
<1>7. Twins(a, b, FALSE)
  BY <1>2, <1>6, WithTwins
<1>8. QED
  BY <1>4, <1>5, <1>7

LEMMA EmptyUnloadedPair ==
  ASSUME NEW r, NEW s, NEW t, Coherent(r), Pair(r, s, t), NEW keys
  PROVE  Pair(EmptyUnloaded(r, keys), EmptyUnloaded(s, keys), t)
<1>1. s.loaded = r.loaded
  BY DEF Pair, Twins, Waits, Near, Alike
<1>2. CASE r.loaded = None \/ keys[r.loaded]
  BY <1>1, <1>2 DEF EmptyUnloaded
<1>3. CASE r.loaded # None /\ ~keys[r.loaded]
  <2>1. /\ EmptyUnloaded(r, keys) = Unloaded(r, r.loaded)
        /\ EmptyUnloaded(s, keys) = Unloaded(s, r.loaded)
    BY <1>1, <1>3 DEF EmptyUnloaded
  <2>2. CASE Twins(r, s, t)
    BY <2>1, <2>2, UnloadedTwins DEF Pair
  <2>3. CASE Waits(r, s) /\ ~t
    <3>1. Twins(Unloaded(r, r.loaded), Unloaded(s, r.loaded), FALSE)
      BY <2>3, WaitsUnloaded
    <3>2. QED
      BY <2>1, <2>3, <3>1 DEF Pair, Twins
  <2>4. QED
    BY <2>2, <2>3 DEF Pair
<1>4. QED
  BY <1>2, <1>3

LEMMA InitFields ==
  ASSUME NEW b \in BOOLEAN, NEW l \in Loaded
  PROVE  LET i == RamInit(b, l)
         IN  /\ i \in RamStates /\ i.atBoot = b /\ i.num = None /\ i.motion = AllIdle
             /\ i.useFlag = 0 /\ i.held = NotHeld /\ i.loaded = l /\ i.flashPending = FALSE
             /\ i.dirty = FALSE /\ i.value = None /\ i.restore = l
  BY DEF RamInit, RamStates, AllIdle, NotHeld, Motions, Loaded

LEMMA InitTwins == Twins(RamInit(TRUE, None), RamInit(FALSE, None), FALSE)
  BY InitFields DEF Twins, Near, Alike, Loaded

\* The boot, with or without the channel in flash.
LEMMA BootPair ==
  ASSUME NEW l \in Loaded, NEW usable
  PROVE  Pair(BootChecked(Restored(RamInit(TRUE, l)), usable),
              BootChecked(Restored(RamInit(FALSE, l)), usable), FALSE)
<1> DEFINE i == RamInit(TRUE, l)
           s == RamInit(FALSE, l)
           r == Restored(i)
<1>1. /\ i \in RamStates /\ i.atBoot /\ i.held = NotHeld /\ i.loaded = l /\ i.flashPending = FALSE
      /\ i.dirty = FALSE /\ i.value = None /\ i.restore = l
  BY InitFields
<1>2. /\ s \in RamStates /\ ~s.atBoot /\ s.num = None /\ s.motion = AllIdle /\ s.useFlag = 0
      /\ s.held = NotHeld /\ s.loaded = l /\ s.flashPending = FALSE
      /\ s.dirty = FALSE /\ s.value = None /\ s.restore = l
  BY InitFields
<1>3. Restored(s) = s
  BY <1>2 DEF Restored
<1>4. CASE l = None
  <2>1. r = i /\ BootChecked(r, usable) = i /\ BootChecked(s, usable) = s
    BY <1>1, <1>2, <1>4 DEF Restored, BootChecked
  <2>2. QED
    BY <1>3, <1>4, <2>1, InitTwins DEF Pair
<1>5. CASE l # None
  <2> DEFINE m == [AllIdle EXCEPT ![l] = "on_use"]
  <2>1. l \in Channels
    BY <1>5 DEF Loaded
  <2>2. m \in [Channels -> Motions]
    BY <2>1 DEF AllIdle, Motions, InUse
  <2> HIDE DEF i
  <2>3. r = [i EXCEPT !.num = l, !.useFlag = 4, !.motion = m]
    BY <1>1, <1>5 DEF Restored, Seeded
  <2>4. /\ r \in RamStates /\ r.atBoot /\ r.held = NotHeld /\ r.loaded = l
        /\ r.flashPending = FALSE /\ r.dirty = FALSE /\ r.value = None /\ r.restore = l
        /\ r.motion = m
    BY <1>1, <2>2, <2>3 DEF RamStates
  <2> HIDE DEF r, s
  <2>5. Alike(r, s)
    BY <1>2, <2>4 DEF Alike
  <2>6. CASE l \in usable
    <3>1. BootChecked(r, usable) = r /\ BootChecked(s, usable) = s
      BY <1>2, <2>4, <2>6 DEF BootChecked
    <3>2. QED
      BY <1>2, <1>3, <1>5, <2>4, <2>5, <3>1 DEF Pair, Waits, r, i, s
  <2>7. CASE l \notin usable
    <3> DEFINE p == With(r, None, NotHeld, AllIdle, 0)
               q == With(s, None, NotHeld, AllIdle, 0)
    <3>1. [r.motion EXCEPT ![l] = "idle"] = AllIdle /\ [s.motion EXCEPT ![l] = "idle"] = AllIdle
      BY <1>2, <2>1, <2>4 DEF AllIdle, m
    <3>2. /\ BootChecked(r, usable) = Unloaded(p, l)
          /\ BootChecked(s, usable) = Unloaded(q, l)
      <4>1. [r EXCEPT !.motion[l] = "idle", !.num = None, !.useFlag = 0]
              = [r EXCEPT !.motion = AllIdle, !.num = None, !.useFlag = 0]
        BY <2>4, <3>1 DEF RamStates
      <4>2. [s EXCEPT !.motion[l] = "idle", !.num = None, !.useFlag = 0]
              = [s EXCEPT !.motion = AllIdle, !.num = None, !.useFlag = 0]
        BY <1>2, <3>1 DEF RamStates
      <4>3. /\ [r EXCEPT !.motion = AllIdle, !.num = None, !.useFlag = 0] = p
            /\ [s EXCEPT !.motion = AllIdle, !.num = None, !.useFlag = 0] = q
        BY <1>2, <2>4 DEF With, RamStates
      <4>4. QED
        BY <1>2, <1>5, <2>4, <2>7, <4>1, <4>2, <4>3 DEF BootChecked
    <3>3. /\ None \in Loaded /\ NotHeld \in [Channels -> BOOLEAN]
          /\ AllIdle \in [Channels -> Motions] /\ 0 \in {0, 2, 4}
      BY DEF Loaded, NotHeld, AllIdle, Motions
    <3>4. /\ Near(p, q) /\ p.num = None /\ p.motion = AllIdle /\ p.useFlag = 0 /\ q.useFlag = 0
          /\ p.loaded = l /\ p.restore = l
      BY <2>4, <2>5, <3>3, WithNear
    <3> HIDE DEF p, q
    <3>5. Undone(p)
      BY <1>5, <2>1, <3>4 DEF Undone, AllIdle
    <3>6. Twins(Unloaded(p, l), Unloaded(q, l), FALSE)
      BY <1>5, <3>4, <3>5, UnloadedNear DEF Twins
    <3>7. QED
      BY <1>3, <3>2, <3>6 DEF Pair, r, i, s
  <2>8. QED
    BY <2>6, <2>7
<1>6. QED
  BY <1>4, <1>5

-----------------------------------------------------------------------------
(* The invariant of both images.                                           *)

LEMMA InitImages == ImagesInit => ImagesInv
<1> SUFFICES ASSUME ImagesInit PROVE ImagesInv
  OBVIOUS
<1>1. IInv
  BY InitIInv DEF ImagesInit
<1>2. PICK b \in BOOLEAN : ram = RamInit(b, None)
  BY DEF ImagesInit, Init
<1>3. PICK d \in BOOLEAN : off = Off!RamInit(d, None)
  BY DEF ImagesInit, Off!Init
<1>4. off = RamInit(d, None)
  BY <1>3, SameRestore
<1>5. None \in Loaded
  BY DEF Loaded
<1>6. b = TRUE /\ d = FALSE
  BY <1>2, <1>4, <1>5, InitFields DEF ImagesInit
<1>7. posOff = pos /\ taken = FALSE
  BY SameSets DEF ImagesInit, Init, Off!Init
<1>8. QED
  BY <1>1, <1>2, <1>4, <1>6, <1>7, InitTwins DEF ImagesInv, Pair

\* A pair whose motors agree as well.
LEMMA PairFacts ==
  ASSUME ImagesInv
  PROVE  /\ Coherent(ram) /\ ram.atBoot = TRUE /\ off.atBoot = FALSE
         /\ off.dirty = ram.dirty /\ off.value = ram.value
         /\ Pair(ram, off, taken) /\ posOff = pos /\ taken \in BOOLEAN
<1>1. Coherent(ram) /\ Pair(ram, off, taken) /\ posOff = pos /\ taken \in BOOLEAN
  BY DEF ImagesInv, IInv
<1>2. Alike(ram, off)
  BY <1>1 DEF Pair, Twins, Waits, Near
<1>3. QED
  BY <1>1, <1>2 DEF Alike, RamStates

\* A retraction goes on or ends in both images.
LEMMA RetractBoth ==
  ASSUME NEW r, NEW s, NEW t, Twins(r, s, t), posOff = pos, NEW ended \in SUBSET Channels,
         RetractPass(r, ended), Off!RetractPass(s, ended)
  PROVE  Twins(ram', off', t) /\ posOff' = pos'
<1> DEFINE idle == {c \in ended : pos[c] = "redetect"}
           m == [c \in Channels |-> IF c \in idle THEN "idle" ELSE r.motion[c]]
           f == IF idle = {} THEN r.useFlag ELSE 0
           g == IF idle = {} THEN s.useFlag ELSE 0
<1>1. /\ Near(r, s) /\ r.restore = None /\ (t \/ r.num # None => s.useFlag = r.useFlag)
  BY DEF Twins
<1>2. /\ r \in RamStates /\ s \in RamStates /\ s.motion = r.motion /\ s.num = r.num
      /\ s.held = r.held /\ r.held \in [Channels -> BOOLEAN] /\ r.num \in Loaded
      /\ r.motion \in [Channels -> Motions]
      /\ r.useFlag \in {0, 2, 4} /\ s.useFlag \in {0, 2, 4}
  BY <1>1, NearFacts
<1>3. posOff' = pos'
  BY SameSets DEF RetractPass, Off!RetractPass
<1>4. ram' = [r EXCEPT !.useFlag = IF idle = {} THEN @ ELSE 0,
                       !.motion = [c \in Channels |-> IF c \in idle THEN "idle" ELSE @[c]]]
  BY DEF RetractPass
<1>5. off' = [s EXCEPT !.useFlag = IF idle = {} THEN @ ELSE 0,
                       !.motion = [c \in Channels |-> IF c \in idle THEN "idle" ELSE @[c]]]
  BY SameSets DEF Off!RetractPass
<1>6. m \in [Channels -> Motions]
  BY <1>2 DEF Motions
<1> HIDE DEF idle
<1>7. ram' = With(r, r.num, r.held, m, f)
  BY <1>2, <1>4 DEF With, RamStates
<1>8. off' = With(s, r.num, r.held, m, g)
  BY <1>2, <1>5 DEF With, RamStates
<1>9. f \in {0, 2, 4} /\ g \in {0, 2, 4} /\ (t \/ r.num # None => f = g)
  BY <1>1, <1>2
<1> HIDE DEF m, f, g
<1>10. Alike(r, s)
  BY <1>1 DEF Near
<1>11. QED
  BY <1>1, <1>2, <1>3, <1>6, <1>7, <1>8, <1>9, <1>10, WithTwins

\* A pull back starts or ends at once in both images.
LEMMA SwitchBoth ==
  ASSUME NEW r, NEW s, NEW t, Coherent(r), Pair(r, s, t), SwitchPass(r), Off!SwitchPass(s)
  PROVE  Pair(ram', off', t) /\ posOff' = pos'
<1> DEFINE pulls(q) == q.num # None /\ key'[q.num] /\ q.motion[q.num] = "pull_back"
<1>1. /\ ram' = IF pulls(r) /\ r.num \notin Calibrated THEN WentIdle(r, r.num) ELSE r
      /\ pos' = IF pulls(r) /\ r.num \in Calibrated
                THEN [NoPos EXCEPT ![r.num] = "pulling_back"] ELSE NoPos
  BY DEF SwitchPass
<1>2. /\ off' = IF pulls(s) /\ s.num \notin Calibrated THEN WentIdle(s, s.num) ELSE s
      /\ posOff' = IF pulls(s) /\ s.num \in Calibrated
                   THEN [NoPos EXCEPT ![s.num] = "pulling_back"] ELSE NoPos
  BY SameSets, SameMotor DEF Off!SwitchPass
<1>3. CASE Twins(r, s, t)
  <2>1. Near(r, s) /\ r.restore = None /\ s.num = r.num /\ s.motion = r.motion
    BY <1>3, TwinsAreNear
  <2>2. pulls(s) <=> pulls(r)
    BY <2>1
  <2>3. CASE pulls(r) /\ r.num \notin Calibrated
    <3>1. ram' = Turned(r, r.num, "idle", 0) /\ off' = Turned(s, r.num, "idle", 0)
      <4>1. \A q : WentIdle(q, r.num) = Turned(q, r.num, "idle", 0)
        BY <2>1, NearFacts DEF WentIdle, Turned
      <4>2. QED
        BY <1>1, <1>2, <2>1, <2>2, <2>3, <4>1
    <3>2. r.num \in Channels
      BY <2>1, <2>3, NearFacts DEF Loaded
    <3>3. "idle" \in Motions /\ 0 \in {0, 2, 4}
      BY DEF Motions
    <3>4. Twins(ram', off', t)
      BY <2>1, <3>1, <3>2, <3>3, SetTwins
    <3>5. QED
      BY <1>1, <1>2, <2>1, <2>2, <2>3, <3>4 DEF Pair
  <2>4. CASE ~(pulls(r) /\ r.num \notin Calibrated)
    BY <1>1, <1>2, <1>3, <2>1, <2>2, <2>4 DEF Pair
  <2>5. QED
    BY <2>3, <2>4
<1>4. CASE Waits(r, s) /\ ~t
  <2>1. ~pulls(r) /\ ~pulls(s)
    BY <1>4, WaitsShows DEF AllIdle
  <2>2. QED
    BY <1>1, <1>2, <1>4, <2>1 DEF Pair
<1>5. QED
  BY <1>3, <1>4 DEF Pair

LEMMA MotionBothPair ==
  ASSUME ImagesInv, MotionBoth, UNCHANGED taken
  PROVE  Motion /\ Pair(ram', off', taken') /\ posOff' = pos'
<1>1. PICK error \in BOOLEAN, ended \in SUBSET Channels :
        /\ \A c \in ended : Retracting(c) \/ Off!Retracting(c)
        /\ Motion_control_run(error, ended) /\ Off!Motion_control_run(error, ended)
  BY DEF MotionBoth
<1>2. posOff = pos /\ Coherent(ram) /\ Pair(ram, off, taken)
  BY PairFacts
<1>3. \A c : Off!Retracting(c) <=> Retracting(c)
  BY <1>2 DEF Off!Retracting, Retracting
<1>4. ended \in SUBSET {c \in Channels : Retracting(c)}
  BY <1>1, <1>3
<1>5. Motion
  BY <1>1, <1>4 DEF Motion
<1> DEFINE r == EmptyUnloaded(ram, key')
           s == EmptyUnloaded(off, key')
<1>6. Coherent(r) /\ Pair(r, s, taken) /\ (r.restore # None => ram.restore # None)
  BY <1>2, EmptyUnloadedKeeps, EmptyUnloadedPair DEF Keeps, Onward
<1>7. IF error THEN ram' = r /\ UNCHANGED pos ELSE RetractPass(r, ended) \/ SwitchPass(r)
  BY <1>1 DEF Motion_control_run
<1>8. IF error THEN off' = s /\ UNCHANGED posOff
      ELSE Off!RetractPass(s, ended) \/ Off!SwitchPass(s)
  BY <1>1, SameMotor DEF Off!Motion_control_run
<1> HIDE DEF r, s
<1>9. CASE error
  BY <1>2, <1>5, <1>6, <1>7, <1>8, <1>9
<1>10. CASE ~error /\ \E c \in Channels : Retracting(c)
  <2>1. RetractPass(r, ended) /\ Off!RetractPass(s, ended)
    BY <1>3, <1>7, <1>8, <1>10, SameSets DEF SwitchPass, Off!SwitchPass
  <2>2. pos # NoPos
    BY <1>10 DEF Retracting, NoPos
  <2>3. r.restore = None
    BY <1>6, <2>2 DEF ImagesInv, IInv, RetractsTaken
  <2>4. Twins(r, s, taken)
    BY <1>6, <2>3 DEF Pair, Waits
  <2>5. QED
    BY <1>2, <1>5, <2>1, <2>4, RetractBoth DEF Pair
<1>11. CASE ~error /\ ~\E c \in Channels : Retracting(c)
  <2>1. SwitchPass(r) /\ Off!SwitchPass(s)
    BY <1>3, <1>7, <1>8, <1>11, SameSets DEF RetractPass, Off!RetractPass
  <2>2. QED
    BY <1>5, <1>6, <2>1, SwitchBoth
<1>12. QED
  BY <1>9, <1>10, <1>11

LEMMA NextImages == ImagesInv /\ [ImagesNext]_images => ImagesInv'
<1> SUFFICES ASSUME ImagesInv, [ImagesNext]_images PROVE ImagesInv'
  OBVIOUS
<1>0. /\ Coherent(ram) /\ ram.atBoot = TRUE /\ off.atBoot = FALSE
      /\ off.dirty = ram.dirty /\ off.value = ram.value
      /\ Pair(ram, off, taken) /\ posOff = pos /\ taken \in BOOLEAN
  BY PairFacts
<1> SUFFICES [Next]_vars /\ Pair(ram', off', taken') /\ posOff' = pos' /\ taken' \in BOOLEAN
  BY NextIInv DEF ImagesInv
<1>1. CASE BootBoth
  <2> DEFINE l == known["sta"]
             U == {c \in Calibrated : key'[c]}
  <2>1. l \in Loaded
    BY DEF ImagesInv, IInv, TypeOK, Log!TypeOK
  <2>2. ram' = BootChecked(Restored(RamInit(TRUE, l)), U)
    BY <1>0, <1>1 DEF BootBoth, Boot
  <2>3. off' = BootChecked(Restored(RamInit(FALSE, l)), U)
    BY <1>0, <1>1, SameRestore, SameMotor DEF BootBoth, Off!Boot
  <2>4. posOff' = pos' /\ taken' = FALSE
    BY <1>0, <1>1 DEF BootBoth, Boot, Off!Boot
  <2>5. QED
    BY <1>1, <2>1, <2>2, <2>3, <2>4, BootPair DEF BootBoth, Next
<1>2. CASE PowerCutBoth
  <2>1. ram' = RamInit(TRUE, None) /\ off' = RamInit(FALSE, None)
    BY <1>0, <1>2, SameRestore DEF PowerCutBoth, PowerCut, Off!PowerCut
  <2>2. posOff' = pos' /\ taken' = FALSE
    BY <1>2, SameSets DEF PowerCutBoth, PowerCut, Off!PowerCut
  <2>3. QED
    BY <1>2, <2>1, <2>2, InitTwins DEF PowerCutBoth, Next, Pair
<1>3. CASE \E cmd \in Commands, late \in BOOLEAN : CommandBoth(cmd, late)
  <2>1. PICK cmd \in Commands, late \in BOOLEAN : CommandBoth(cmd, late)
    BY <1>3
  <2>2. ram' = set_motion(ram, cmd[1], cmd[2], late)
    BY <2>1 DEF CommandBoth, Command
  <2>3. off' = set_motion(off, cmd[1], cmd[2], late)
    BY <2>1, SameCommand DEF CommandBoth, Off!Command
  <2>4. taken' = (taken \/ (ram.restore # None /\ References(ram.restore, cmd[1], cmd[2])))
    BY <2>1 DEF CommandBoth
  <2>5. Pair(ram', off', taken')
    BY <1>0, <2>1, <2>2, <2>3, <2>4, CommandPair
  <2>6. posOff' = pos'
    BY <1>0, <2>1 DEF CommandBoth, Command, Off!Command
  <2>7. QED
    BY <2>1, <2>4, <2>5, <2>6 DEF CommandBoth, Next
<1>4. CASE UNCHANGED taken /\ ((NoCommand /\ Off!NoCommand) \/ (NoSave /\ Off!NoSave))
  BY <1>0, <1>4 DEF NoCommand, Off!NoCommand, NoSave, Off!NoSave, Next
<1>5. CASE UNCHANGED taken /\ Save /\ Off!Save
  <2>1. CASE ~blank /\ known["sta"] = ram.value
    <3>1. ram' = [ram EXCEPT !.dirty = FALSE] /\ off' = [off EXCEPT !.dirty = FALSE]
      BY <1>0, <1>5, <2>1 DEF Save, Off!Save
    <3>2. Pair(ram', off', taken)
      BY <1>0, <3>1, SavedPair
    <3>3. QED
      BY <1>0, <1>5, <3>2 DEF Save, Off!Save, Next
  <2>2. CASE ~(~blank /\ known["sta"] = ram.value)
    BY <1>0, <1>5, <2>2 DEF Save, Off!Save, Next
  <2>3. QED
    BY <2>1, <2>2
<1>6. CASE UNCHANGED taken /\ MotionBoth
  BY <1>0, <1>6, MotionBothPair DEF Next
<1>7. CASE UNCHANGED taken /\ LogCommit /\ Off!LogCommit
  BY <1>0, <1>7 DEF LogCommit, Off!LogCommit, Next
<1>8. CASE UNCHANGED taken /\ LogAcknowledge /\ Off!LogAcknowledge
  BY <1>0, <1>8 DEF LogAcknowledge, Off!LogAcknowledge, Next
<1>9. CASE UNCHANGED images
  BY <1>0, <1>9 DEF images, vars
<1>10. QED
  BY <1>1, <1>2, <1>3, <1>4, <1>5, <1>6, <1>7, <1>8, <1>9, Zenon DEF ImagesNext

-----------------------------------------------------------------------------
\* Both images agree: on what a power cut would leave at any time, on what the printer is told
\* unless the restore is pending, and on everything once the printer has referenced the
\* restored channel, as test_boot_restore says of option 0.
THEOREM ImagesAlwaysAgree == ImagesSpec => []ImagesAgree
<1>1. ImagesInv => ImagesAgree
  <2> SUFFICES ASSUME ImagesInv PROVE ImagesAgree
    OBVIOUS
  <2>1. Pair(ram, off, taken) /\ posOff = pos
    BY DEF ImagesInv
  <2>2. SameOnceTaken
    <3> SUFFICES ASSUME taken PROVE off = [ram EXCEPT !.atBoot = FALSE]
      BY <2>1 DEF SameOnceTaken
    <3>1. Twins(ram, off, taken)
      BY <2>1 DEF Pair
    <3>2. /\ ram \in RamStates /\ off \in RamStates /\ off.atBoot = FALSE
          /\ off.num = ram.num /\ off.motion = ram.motion /\ off.useFlag = ram.useFlag
          /\ off.held = ram.held /\ off.loaded = ram.loaded
          /\ off.flashPending = ram.flashPending /\ off.dirty = ram.dirty
          /\ off.value = ram.value /\ off.restore = ram.restore
      BY <3>1 DEF Twins, Near, Alike, RamStates
    <3>3. QED
      BY <3>2 DEF RamStates
  <2>3. DifferOnlyWhilePending
    BY <2>1 DEF DifferOnlyWhilePending, Reported, Pair, Twins, Waits, Near, Alike
  <2>4. QED
    BY <2>2, <2>3 DEF ImagesAgree
<1>2. QED
  BY <1>1, InitImages, NextImages, PTL DEF ImagesSpec
=============================================================================
