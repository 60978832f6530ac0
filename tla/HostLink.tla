------------------------------ MODULE HostLink ------------------------------
(***************************************************************************)
(* The link to the host: the heartbeat timeout of bus_link.h on a tick     *)
(* counter that wraps, for both protocols, the choice of the host's        *)
(* protocol and the offline state in main(), and the registration of the   *)
(* unit by the printer's online detect handshake.                          *)
(*                                                                         *)
(* The counter wraps after 2 * Half ticks (2^32 in the code).  What the    *)
(* code keeps is the tick of the last heartbeat; kept here is its distance *)
(* to now, modulo 2 * Half.                                                *)
(***************************************************************************)
EXTENDS Integers

CONSTANTS Half,       \* half the range of the tick counter
          Timeout,    \* ms_to_ticks32(1000u)
          MaxGap      \* bound: ticks between two passes of the main loop

ASSUME LinkAssumption ==
  /\ Half \in Nat /\ Timeout \in Nat \ {0} /\ MaxGap \in Nat \ {0}
  /\ Timeout + MaxGap < Half

Protocols == {"ams", "ahub"}

VARIABLES
  speaks,       \* the protocol the host speaks
  amsAuto,      \* BMCU_AMS_AUTO, which of the two images the unit runs
  silence,      \* ghost: ticks since its last heartbeat reached us, at most Timeout + 1
  gap,          \* ticks since the last pass
  pending, hbAge,   \* bambubus_heartbeat_pending, now - bambubus_heartbeat_ticks
  link,         \* bambubus_link and ahub_link
  linkPrev,     \* bambubus_link_prev
  hbUnreported, \* hb_unreported
  host,         \* bus_host_device_type
  error,        \* what main() hands to the motors: TRUE is -1, stopped
  registered,   \* have_registered
  arrangeWait,  \* auto_arrange_wait
  confirmed,    \* ghost: the printer confirmed us since we were last to be found
  outage        \* ghost: a pass has found the host silent for longer than Timeout

clock == <<speaks, amsAuto, silence, gap>>
reg   == <<registered, arrangeWait, confirmed>>
linkVars  == <<clock, pending, hbAge, link, linkPrev, hbUnreported, host, error, reg, outage>>

Ticked(x) == (x + 1) % (2 * Half)

Signed(x) == IF x < Half THEN x ELSE x - 2 * Half

NewLink == [seen |-> FALSE, lost |-> FALSE, age |-> 0]

----------------------------------------------------------------------------
(* bus_link.h. *)

bus_link_heartbeat(age) == [seen |-> TRUE, lost |-> FALSE, age |-> age]

(* Mutant: a lost link is judged anew at every poll. *)
PollWithoutLatch(l) ==
  [l EXCEPT !.lost = l.seen /\ Signed(l.age) > Timeout]

(* The link after a poll: once found silent for too long it stays lost,    *)
(* whatever the counter says later.                                        *)
bus_link_poll(l) ==
  [l EXCEPT !.lost = l.seen /\ (l.lost \/ Signed(l.age) > Timeout)]

LinkState(l) == IF ~l.seen THEN "not_seen" ELSE IF l.lost THEN "lost" ELSE "alive"

bus_link_went_lost(state) == state = "lost" /\ linkPrev # "lost"

(* Mutant: a loss is not forgotten when heartbeats return. *)
NextPrevSticky(state) == IF linkPrev = "lost" THEN "lost" ELSE state

NextPrev(state) == state

----------------------------------------------------------------------------
LinkInit ==
  /\ speaks \in Protocols /\ amsAuto \in BOOLEAN /\ silence = 0 /\ gap = 0
  /\ pending = FALSE /\ hbAge = 0
  /\ link = [p \in Protocols |-> NewLink]
  /\ linkPrev = "not_seen" /\ hbUnreported = FALSE
  /\ host = "none" /\ error = TRUE
  /\ registered = FALSE /\ arrangeWait = FALSE /\ confirmed = FALSE /\ outage = FALSE

(* Time passes; the main loop comes round within MaxGap. *)
Tick ==
  /\ gap < MaxGap
  /\ gap' = gap + 1
  /\ silence' = IF silence > Timeout THEN silence ELSE silence + 1
  /\ hbAge' = Ticked(hbAge)
  /\ link' = [p \in Protocols |-> [link[p] EXCEPT !.age = Ticked(@)]]
  /\ UNCHANGED <<speaks, amsAuto, pending, linkPrev, hbUnreported, host, error, reg, outage>>

(* bambubus_heartbeat_seen_fast(): any poll of the bus, also between passes. *)
HeartbeatSeen ==
  /\ speaks = "ams"
  /\ pending' = TRUE /\ hbAge' = 0
  /\ silence' = 0
  /\ UNCHANGED <<speaks, amsAuto, gap, link, linkPrev, hbUnreported, host, error, reg, outage>>

(* get_package_online_detect() on the command of a packet, TRUE as good    *)
(* when the identity in it is ours.  A unit whose AMS is offline forgets   *)
(* its registration; only the AUTO image knows the arrange command, after  *)
(* which it hears no other until it restarts.                              *)
IsArrange(cmd) == cmd = "arrange" /\ amsAuto
IsDetect(cmd) == cmd \in {"discover", "confirm", "arrange"} /\ ~IsArrange(cmd)

OnlineDetect(cmd, good, online) ==
  \/ /\ IsArrange(cmd)
     /\ registered' = FALSE /\ arrangeWait' = TRUE
  \/ /\ IsDetect(cmd) /\ ~arrangeWait
     /\ registered' = (online /\ (registered \/ (cmd = "confirm" /\ good)))
     /\ UNCHANGED arrangeWait
  \/ /\ ~IsArrange(cmd)
     /\ IsDetect(cmd) => arrangeWait
     /\ UNCHANGED <<registered, arrangeWait>>

(* The registration after a packet, and after the poll that finds the link *)
(* lost: the fixed image then waits to be found again.                     *)
Registration(cmd, good, online, state) ==
  IF bus_link_went_lost(state) /\ ~amsAuto
  THEN registered' = FALSE /\ UNCHANGED arrangeWait
  ELSE OnlineDetect(cmd, good, online)

(* What should end a registration, told by the silence alone: a new outage *)
(* in the fixed image, the arrange command in the AUTO image.              *)
Outage(packet, good, seen) ==
  LET out  == seen /\ silence > Timeout
      ends == IF amsAuto THEN packet = "arrange" ELSE out /\ ~outage
  IN /\ outage' = out
     /\ confirmed' = (~ends /\ (confirmed \/ (packet = "confirm" /\ good)))

(* main() takes the protocol that answered and stops the motors unless     *)
(* that protocol's link allows them.                                       *)
HostAndError(bambu, ahub) ==
  /\ host' = IF bambu \notin {"none", "error"} THEN "ams"
             ELSE IF ahub \notin {"none", "error"} THEN "ahub"
             ELSE host
  /\ error' = \/ host' = "none"
              \/ host' = "ams" /\ bambu = "error"
              \/ host' = "ahub" /\ ahub = "error"

(* One pass of the main loop for a host that speaks BambuBus: the AHUB     *)
(* link is never seen and says nothing.                                    *)
BambuPass(packet, good, online) ==
  LET l     == bus_link_poll(IF pending THEN bus_link_heartbeat(hbAge) ELSE link["ams"])
      state == LinkState(l)
      unreported == hbUnreported \/ pending
      beats == state = "alive" /\ packet = "none" /\ unreported
  IN /\ speaks = "ams"
     /\ link' = [link EXCEPT !["ams"] = l]
     /\ pending' = FALSE
     /\ hbUnreported' = (unreported /\ ~beats)
     /\ linkPrev' = NextPrev(state)
     /\ Registration(packet, good, online, state)
     /\ Outage(packet, good, l.seen)
     /\ HostAndError(IF state # "alive" THEN "error"
                     ELSE IF beats THEN "heartbeat" ELSE packet, "none")
     /\ gap' = 0
     /\ UNCHANGED <<speaks, amsAuto, silence, hbAge>>

(* One pass for an AHUB host: no BambuBus heartbeat was ever seen.         *)
AhubPass(packet) ==
  LET beat == packet = "heartbeat"
      l    == bus_link_poll(IF beat THEN bus_link_heartbeat(0) ELSE link["ahub"])
  IN /\ speaks = "ahub"
     /\ link' = [link EXCEPT !["ahub"] = l]
     /\ silence' = IF beat THEN 0 ELSE silence
     /\ HostAndError("error", IF LinkState(l) = "lost" THEN "error" ELSE packet)
     /\ gap' = 0
     /\ UNCHANGED <<speaks, amsAuto, pending, hbAge, linkPrev, hbUnreported, reg, outage>>

APass ==
  \/ \E packet \in {"none", "discover", "confirm", "arrange", "other"}, good, online \in BOOLEAN :
       BambuPass(packet, good, online)
  \/ \E packet \in {"none", "heartbeat", "query"} : AhubPass(packet)

LinkNext == Tick \/ HeartbeatSeen \/ APass

LinkSpec == LinkInit /\ [][LinkNext]_linkVars

----------------------------------------------------------------------------
LinkTypeOK ==
  /\ speaks \in Protocols /\ amsAuto \in BOOLEAN
  /\ silence \in 0..(Timeout + 1) /\ gap \in 0..MaxGap
  /\ pending \in BOOLEAN /\ hbAge \in 0..(2 * Half - 1)
  /\ link \in [Protocols -> [seen : BOOLEAN, lost : BOOLEAN, age : 0..(2 * Half - 1)]]
  /\ linkPrev \in {"not_seen", "lost", "alive"} /\ hbUnreported \in BOOLEAN
  /\ host \in Protocols \cup {"none"} /\ error \in BOOLEAN
  /\ registered \in BOOLEAN /\ arrangeWait \in BOOLEAN
  /\ confirmed \in BOOLEAN /\ outage \in BOOLEAN

(* After every pass the motors may run exactly if the printer's last       *)
(* heartbeat is at most Timeout old, however long the silence lasts and    *)
(* the counter wraps.  An AHUB host that has never sent a heartbeat may    *)
(* run them from its first packet on.                                      *)
MotorsFollowTheLink ==
  [][APass => IF speaks = "ams"
              THEN error' = (~link'["ams"].seen \/ silence > Timeout)
              ELSE error' = (host' = "none" \/ (link'["ahub"].seen /\ silence' > Timeout))]_linkVars

(* A unit that counts as found was confirmed since the last outage, or,    *)
(* in the AUTO image, since the last arrange command: otherwise it would   *)
(* ignore the discovery the printer runs.                                  *)
RegisteredInThisLink == registered => confirmed
============================================================================
