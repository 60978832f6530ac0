--------------------------- MODULE SupervisionProofs ---------------------------
(***************************************************************************)
(* What the unit's place at its host rests on, for every value of the      *)
(* constants: the motors follow the host's link, no two units answer one   *)
(* request, no byte of the receive ring is lost or taken too early, and    *)
(* the record of the watchdog's resets is true of one run.                 *)
(***************************************************************************)
EXTENDS HostLink, UnitDiscovery, RingCounter, BlackBox, IntervalLemmas, FiniteSetTheorems, TLAPS

-----------------------------------------------------------------------------
(* The link.  The counter's distance to a heartbeat is the real silence as *)
(* long as it matters: a heartbeat that waits to be read is not older than *)
(* the pass, one that was read and found in time at the last pass is not   *)
(* older than Timeout and the pass together, which is less than half the   *)
(* range, and one that was once found late is latched.                     *)

(* The distance d tells the real silence. *)
Tells(d) == silence = d \/ (silence = Timeout + 1 /\ d > Timeout)

Ams == link["ams"]
Ahub == link["ahub"]

AmsInv ==
  /\ host # "ahub"
  /\ pending => hbAge <= gap /\ Tells(hbAge)
  /\ Ams.lost => Ams.seen
  /\ ~pending /\ Ams.seen /\ ~Ams.lost => Ams.age <= Timeout + gap /\ Tells(Ams.age)
  /\ ~pending /\ Ams.lost => silence > Timeout
  /\ Ams.seen /\ ~hbUnreported => host = "ams"
  /\ (linkPrev = "lost") <=> outage

AhubInv ==
  /\ host # "ams"
  /\ Ahub.lost => Ahub.seen
  /\ Ahub.seen /\ ~Ahub.lost => Ahub.age <= Timeout + gap /\ Tells(Ahub.age)
  /\ Ahub.lost => silence > Timeout

LinkInv ==
  /\ LinkTypeOK
  /\ speaks = "ams" => AmsInv
  /\ speaks = "ahub" => AhubInv
  /\ RegisteredInThisLink

(* A poll of a link whose distance tells the silence is lost exactly when  *)
(* the silence is too long.                                                *)
LEMMA PollTells ==
  ASSUME NEW l \in [seen : BOOLEAN, lost : BOOLEAN, age : 0..(2 * Half - 1)],
         LinkTypeOK, l.seen,
         l.lost => silence > Timeout,
         ~l.lost => l.age <= Timeout + gap /\ Tells(l.age)
  PROVE  /\ bus_link_poll(l).seen
         /\ bus_link_poll(l).age = l.age
         /\ bus_link_poll(l).lost <=> silence > Timeout
<1>1. /\ bus_link_poll(l).seen /\ bus_link_poll(l).age = l.age
      /\ bus_link_poll(l).lost = (l.lost \/ Signed(l.age) > Timeout)
  BY DEF bus_link_poll
<1>2. ~l.lost => Signed(l.age) = l.age
  BY LinkAssumption DEF Signed, LinkTypeOK
<1>3. ~l.lost => (l.age > Timeout <=> silence > Timeout)
  BY LinkAssumption DEF Tells, LinkTypeOK
<1> QED BY <1>1, <1>2, <1>3

LEMMA LinkInitially == LinkInit => LinkInv
<1> SUFFICES ASSUME LinkInit PROVE LinkInv OBVIOUS
<1>1. LinkTypeOK
  <2>1. NewLink \in [seen : BOOLEAN, lost : BOOLEAN, age : 0..(2 * Half - 1)]
    BY LinkAssumption DEF NewLink
  <2>2. link \in [Protocols -> [seen : BOOLEAN, lost : BOOLEAN, age : 0..(2 * Half - 1)]]
    BY <2>1 DEF LinkInit
  <2>3. host \in Protocols \cup {"none"} /\ error \in BOOLEAN
    BY DEF LinkInit
  <2>4. speaks \in Protocols /\ silence \in 0..(Timeout + 1) /\ gap \in 0..MaxGap
        /\ hbAge \in 0..(2 * Half - 1)
    BY LinkAssumption DEF LinkInit
  <2> QED BY <2>2, <2>3, <2>4 DEF LinkInit, LinkTypeOK
<1>2. ~link["ams"].seen /\ ~link["ams"].lost /\ ~link["ahub"].seen /\ ~link["ahub"].lost
  BY DEF LinkInit, NewLink, Protocols
<1> QED BY <1>1, <1>2 DEF LinkInit, LinkInv, AmsInv, AhubInv, Ams, Ahub, RegisteredInThisLink

(* One tick more leaves the counter and the silence in step. *)
LEMMA TickTells ==
  ASSUME LinkTypeOK, Tick, NEW d \in 0..(2 * Half - 1), d <= Timeout + gap, Tells(d)
  PROVE  Ticked(d) <= Timeout + gap' /\ Tells(d)
         /\ (silence' = Ticked(d) \/ (silence' = Timeout + 1 /\ Ticked(d) > Timeout))
         /\ (d <= gap => Ticked(d) <= gap')
<1>1. Ticked(d) = d + 1
  <2> DEFINE m == 2 * Half
  <2>1. m \in Nat /\ d + 1 \in Nat /\ d + 1 < m
    BY LinkAssumption DEF LinkTypeOK, Tick
  <2> HIDE DEF m
  <2>2. (d + 1) % m = d + 1
    BY <2>1
  <2> QED BY <2>2 DEF Ticked, m
<1>2. gap' = gap + 1 /\ gap \in Nat /\ silence \in 0..(Timeout + 1)
      /\ silence' = IF silence > Timeout THEN silence ELSE silence + 1
  BY LinkAssumption DEF Tick, LinkTypeOK
<1> QED BY <1>1, <1>2, LinkAssumption DEF Tells

LEMMA TickKeeps == ASSUME LinkInv, Tick PROVE LinkInv'
<1>1. \A d \in 0..(2 * Half - 1) : Ticked(d) \in 0..(2 * Half - 1)
  BY LinkAssumption DEF Ticked
<1>2. /\ link' \in [Protocols -> [seen : BOOLEAN, lost : BOOLEAN, age : 0..(2 * Half - 1)]]
      /\ \A p \in Protocols : /\ link'[p].seen = link[p].seen /\ link'[p].lost = link[p].lost
                              /\ link'[p].age = Ticked(link[p].age)
  BY <1>1 DEF LinkInv, LinkTypeOK, Tick
<1>3. LinkTypeOK'
  BY <1>1, <1>2, LinkAssumption DEF LinkInv, LinkTypeOK, Tick, reg
<1>4. (speaks = "ams" => AmsInv)'
  <2> SUFFICES ASSUME speaks = "ams" PROVE AmsInv'
    BY DEF Tick
  <2>1. pending => hbAge' <= gap' /\ Tells(hbAge)'
    BY TickTells, LinkAssumption DEF LinkInv, AmsInv, LinkTypeOK, Tick, Tells
  <2>2. ~pending /\ Ams.seen /\ ~Ams.lost => Ticked(Ams.age) <= Timeout + gap'
            /\ (silence' = Ticked(Ams.age) \/ (silence' = Timeout + 1 /\ Ticked(Ams.age) > Timeout))
    BY TickTells DEF LinkInv, AmsInv, LinkTypeOK, Protocols, Ams
  <2>3. Ams.lost /\ ~pending => silence' > Timeout
    BY DEF LinkInv, AmsInv, Tick, LinkTypeOK
  <2>4. Ams'.seen = Ams.seen /\ Ams'.lost = Ams.lost /\ Ams'.age = Ticked(Ams.age)
    BY <1>2 DEF Ams, Protocols
  <2> QED BY <2>1, <2>2, <2>3, <2>4 DEF LinkInv, AmsInv, Tick, Tells
<1>5. (speaks = "ahub" => AhubInv)'
  <2> SUFFICES ASSUME speaks = "ahub" PROVE AhubInv'
    BY DEF Tick
  <2>1. Ahub.seen /\ ~Ahub.lost => Ticked(Ahub.age) <= Timeout + gap'
            /\ (silence' = Ticked(Ahub.age) \/ (silence' = Timeout + 1 /\ Ticked(Ahub.age) > Timeout))
    BY TickTells DEF LinkInv, AhubInv, LinkTypeOK, Protocols, Ahub
  <2>2. Ahub.lost => silence' > Timeout
    BY DEF LinkInv, AhubInv, Tick, LinkTypeOK
  <2>3. Ahub'.seen = Ahub.seen /\ Ahub'.lost = Ahub.lost /\ Ahub'.age = Ticked(Ahub.age)
    BY <1>2 DEF Ahub, Protocols
  <2> QED BY <2>1, <2>2, <2>3 DEF LinkInv, AhubInv, Tick, Tells
<1> QED BY <1>3, <1>4, <1>5 DEF LinkInv, Tick, reg, RegisteredInThisLink

LEMMA HeartbeatKeeps == ASSUME LinkInv, HeartbeatSeen PROVE LinkInv'
<1>1. LinkTypeOK'
  BY LinkAssumption DEF LinkInv, LinkTypeOK, HeartbeatSeen, reg
<1>2. AmsInv'
  BY LinkAssumption DEF LinkInv, AmsInv, HeartbeatSeen, Tells, Ams, LinkTypeOK
<1> QED BY <1>1, <1>2 DEF LinkInv, HeartbeatSeen, reg, RegisteredInThisLink

(* The link a BambuBus pass polls, and what it finds. *)
Fed == IF pending THEN bus_link_heartbeat(hbAge) ELSE link["ams"]

LEMMA FedTells ==
  ASSUME LinkInv, speaks = "ams"
  PROVE  /\ Fed \in [seen : BOOLEAN, lost : BOOLEAN, age : 0..(2 * Half - 1)]
         /\ bus_link_poll(Fed) \in [seen : BOOLEAN, lost : BOOLEAN, age : 0..(2 * Half - 1)]
         /\ bus_link_poll(Fed).seen = (pending \/ Ams.seen)
         /\ bus_link_poll(Fed).age = Fed.age
         /\ bus_link_poll(Fed).lost <=> (bus_link_poll(Fed).seen /\ silence > Timeout)
         /\ bus_link_poll(Fed).seen /\ ~bus_link_poll(Fed).lost =>
              Fed.age <= Timeout + gap /\ Tells(Fed.age)
<1>1. Fed \in [seen : BOOLEAN, lost : BOOLEAN, age : 0..(2 * Half - 1)]
  BY DEF Fed, LinkInv, LinkTypeOK, bus_link_heartbeat, Protocols
<1>2. Fed.seen = (pending \/ Ams.seen)
  BY DEF Fed, bus_link_heartbeat, Ams, LinkInv, LinkTypeOK, Protocols
<1>3. bus_link_poll(Fed) \in [seen : BOOLEAN, lost : BOOLEAN, age : 0..(2 * Half - 1)]
      /\ bus_link_poll(Fed).seen = Fed.seen /\ bus_link_poll(Fed).age = Fed.age
      /\ bus_link_poll(Fed).lost = (Fed.seen /\ (Fed.lost \/ Signed(Fed.age) > Timeout))
  BY <1>1 DEF bus_link_poll
<1>4. Fed.lost => silence > Timeout
  BY DEF Fed, bus_link_heartbeat, LinkInv, AmsInv, Ams
<1>5. Fed.seen /\ ~Fed.lost => Fed.age <= Timeout + gap /\ Tells(Fed.age)
  BY LinkAssumption DEF Fed, bus_link_heartbeat, LinkInv, AmsInv, Ams, LinkTypeOK
<1>6. Fed.seen => (bus_link_poll(Fed).lost <=> silence > Timeout)
  BY <1>1, <1>4, <1>5, PollTells DEF LinkInv
<1> QED BY <1>1, <1>2, <1>3, <1>5, <1>6

(* What a BambuBus pass makes of the link, the host and the motors. *)
LEMMA BambuEffect ==
  ASSUME LinkInv, NEW packet \in {"none", "discover", "confirm", "arrange", "other"},
         NEW good \in BOOLEAN, NEW online \in BOOLEAN, BambuPass(packet, good, online)
  PROVE  /\ speaks = "ams" /\ link' = [link EXCEPT !["ams"] = bus_link_poll(Fed)]
         /\ Ams' = bus_link_poll(Fed)
         /\ ~pending' /\ gap' = 0 /\ UNCHANGED <<speaks, amsAuto, silence, hbAge>>
         /\ hbUnreported' \in BOOLEAN
         /\ linkPrev' = LinkState(bus_link_poll(Fed))
         /\ host' \in {"none", "ams"}
         /\ Ams'.seen /\ ~hbUnreported' => host' = "ams"
         /\ error' = (~Ams'.seen \/ silence > Timeout)
<1> DEFINE l == bus_link_poll(Fed)
<1> DEFINE state == LinkState(l)
<1> DEFINE unreported == hbUnreported \/ pending
<1> DEFINE beats == state = "alive" /\ packet = "none" /\ unreported
<1> DEFINE stu == IF state # "alive" THEN "error" ELSE IF beats THEN "heartbeat" ELSE packet
<1>1. /\ speaks = "ams" /\ link' = [link EXCEPT !["ams"] = l]
      /\ ~pending' /\ gap' = 0 /\ UNCHANGED <<speaks, amsAuto, silence, hbAge>>
      /\ hbUnreported' = (unreported /\ ~beats)
      /\ linkPrev' = state
      /\ HostAndError(stu, "none")
  BY DEF BambuPass, Fed, NextPrev
<1>2. Ams' = l
  BY <1>1 DEF Ams, LinkInv, LinkTypeOK, Protocols
<1>3. /\ l.seen \in BOOLEAN /\ l.lost \in BOOLEAN
      /\ l.seen = (pending \/ Ams.seen) /\ (l.lost <=> (l.seen /\ silence > Timeout))
  BY <1>1, FedTells
<1>4. state = "alive" <=> (l.seen /\ ~(silence > Timeout))
  BY <1>3 DEF LinkState
<1>5. host' = (IF stu \notin {"none", "error"} THEN "ams" ELSE host)
      /\ error' = (host' = "none" \/ (host' = "ams" /\ stu = "error") \/ (host' = "ahub" /\ "none" = "error"))
  BY <1>1 DEF HostAndError
<1>6. host \in {"none", "ams"}
  BY <1>1 DEF LinkInv, AmsInv, LinkTypeOK, Protocols
<1>7. ~unreported /\ l.seen => host = "ams"
  BY <1>1, <1>3 DEF LinkInv, AmsInv
<1>8. state # "alive" => stu = "error" /\ hbUnreported' = unreported
  BY <1>1
<1>9. state = "alive" /\ unreported /\ packet = "none" => stu = "heartbeat"
  OBVIOUS
<1>10. state = "alive" /\ packet # "none" => stu = packet /\ stu \notin {"none", "error"}
  OBVIOUS
<1>11. state = "alive" => host' = "ams" /\ stu # "error"
  BY <1>3, <1>4, <1>5, <1>7, <1>9, <1>10
<1>12. error' = (~l.seen \/ silence > Timeout)
  BY <1>4, <1>5, <1>6, <1>8, <1>11
<1>13. l.seen /\ ~hbUnreported' => host' = "ams"
  BY <1>5, <1>7, <1>8, <1>11
<1>14. hbUnreported' \in BOOLEAN /\ host' \in {"none", "ams"}
  BY <1>1, <1>5, <1>6 DEF LinkInv, LinkTypeOK
<1> QED BY <1>1, <1>2, <1>12, <1>13, <1>14

LEMMA BambuRegistration ==
  ASSUME LinkInv, NEW packet \in {"none", "discover", "confirm", "arrange", "other"},
         NEW good \in BOOLEAN, NEW online \in BOOLEAN, BambuPass(packet, good, online)
  PROVE  /\ registered' \in BOOLEAN /\ arrangeWait' \in BOOLEAN
         /\ confirmed' \in BOOLEAN /\ outage' \in BOOLEAN
         /\ RegisteredInThisLink'
         /\ (linkPrev' = "lost") <=> outage'
<1> DEFINE l == bus_link_poll(Fed)
<1> DEFINE state == LinkState(l)
<1> DEFINE out == l.seen /\ silence > Timeout
<1>1. /\ speaks = "ams" /\ linkPrev' = state
      /\ Registration(packet, good, online, state) /\ Outage(packet, good, l.seen)
  BY DEF BambuPass, Fed, NextPrev
<1>2. /\ l.seen \in BOOLEAN /\ l.lost \in BOOLEAN /\ (l.lost <=> out)
  BY <1>1, FedTells
<1>3. state = "lost" <=> out
  BY <1>2 DEF LinkState
<1>4. linkPrev = "lost" <=> outage
  BY <1>1 DEF LinkInv, AmsInv
<1>5. outage' = out
  BY <1>1 DEF Outage
<1>6. confirmed' = (~(IF amsAuto THEN packet = "arrange" ELSE out /\ ~outage)
                     /\ (confirmed \/ (packet = "confirm" /\ good)))
  BY <1>1 DEF Outage
<1>7. registered => confirmed
  BY DEF LinkInv, RegisteredInThisLink
<1>8. CASE bus_link_went_lost(state) /\ ~amsAuto
  <2>1. registered' = FALSE /\ arrangeWait' = arrangeWait
    BY <1>1, <1>8 DEF Registration
  <2> QED BY <1>1, <1>2, <1>3, <1>5, <1>6, <2>1 DEF RegisteredInThisLink, LinkInv, LinkTypeOK
<1>9. CASE ~(bus_link_went_lost(state) /\ ~amsAuto)
  <2>1. OnlineDetect(packet, good, online)
    BY <1>1, <1>9 DEF Registration
  <2>2. registered' \in BOOLEAN /\ arrangeWait' \in BOOLEAN
    BY <2>1 DEF OnlineDetect, LinkInv, LinkTypeOK
  <2>3. registered' => registered \/ (packet = "confirm" /\ good)
    BY <2>1 DEF OnlineDetect
  <2>4. amsAuto /\ packet = "arrange" => ~registered'
    BY <2>1 DEF OnlineDetect, IsArrange, IsDetect
  <2>5. ~amsAuto => ~(out /\ ~outage)
    BY <1>3, <1>4, <1>9 DEF bus_link_went_lost
  <2>6. registered' => confirmed'
    BY <1>6, <1>7, <2>3, <2>4, <2>5
  <2> QED BY <1>1, <1>2, <1>3, <1>5, <1>6, <2>2, <2>6 DEF RegisteredInThisLink
<1> QED BY <1>8, <1>9

LEMMA BambuKeeps ==
  ASSUME LinkInv, NEW packet \in {"none", "discover", "confirm", "arrange", "other"},
         NEW good \in BOOLEAN, NEW online \in BOOLEAN, BambuPass(packet, good, online)
  PROVE  LinkInv'
<1>1. speaks = "ams" /\ speaks' = "ams" /\ silence' = silence /\ gap' = 0
  BY BambuEffect
<1>2. LinkTypeOK'
  <2>1. link' \in [Protocols -> [seen : BOOLEAN, lost : BOOLEAN, age : 0..(2 * Half - 1)]]
    BY BambuEffect, FedTells DEF LinkInv, LinkTypeOK
  <2>2. linkPrev' \in {"not_seen", "lost", "alive"}
    BY BambuEffect DEF LinkState
  <2>3. error' \in BOOLEAN /\ host' \in Protocols \cup {"none"} /\ pending' \in BOOLEAN
    BY BambuEffect DEF Protocols, BambuPass, HostAndError
  <2>4. hbAge' = hbAge /\ hbUnreported' \in BOOLEAN /\ amsAuto' = amsAuto
    BY BambuEffect
  <2> QED BY <1>1, <2>1, <2>2, <2>3, <2>4, BambuRegistration, LinkAssumption DEF LinkInv, LinkTypeOK
<1>3. AmsInv'
  <2>1. Ams' = bus_link_poll(Fed) /\ ~pending'
    BY BambuEffect
  <2>2. Ams'.lost => Ams'.seen /\ silence' > Timeout
    BY <1>1, <2>1, FedTells
  <2>3. Ams'.seen /\ ~Ams'.lost => Ams'.age <= Timeout + gap' /\ Tells(Ams.age)'
    <3> SUFFICES ASSUME Ams'.seen, ~Ams'.lost
                 PROVE  Ams'.age <= Timeout + gap' /\ Tells(Ams.age)'
      OBVIOUS
    <3>1. Tells(Ams'.age) /\ ~(silence > Timeout) /\ Ams'.age \in Nat
      BY <1>1, <2>1, FedTells
    <3>2. Ams'.age <= Timeout
      BY <3>1, LinkAssumption DEF Tells, LinkInv, LinkTypeOK
    <3> QED BY <1>1, <3>1, <3>2, LinkAssumption DEF Tells
  <2> QED BY <2>1, <2>2, <2>3, BambuEffect, BambuRegistration DEF AmsInv
<1> QED BY <1>1, <1>2, <1>3, BambuRegistration DEF LinkInv

(* The link an AHUB pass polls. *)
FedAhub(packet) == IF packet = "heartbeat" THEN bus_link_heartbeat(0) ELSE link["ahub"]

(* What an AHUB pass makes of the link, the host and the motors. *)
LEMMA AhubEffect ==
  ASSUME LinkInv, NEW packet \in {"none", "heartbeat", "query"}, AhubPass(packet)
  PROVE  /\ speaks = "ahub" /\ gap' = 0 /\ silence' \in 0..(Timeout + 1)
         /\ UNCHANGED <<speaks, amsAuto, pending, hbAge, linkPrev, hbUnreported, reg, outage>>
         /\ link' = [link EXCEPT !["ahub"] = Ahub']
         /\ Ahub' \in [seen : BOOLEAN, lost : BOOLEAN, age : 0..(2 * Half - 1)]
         /\ Ahub'.lost <=> (Ahub'.seen /\ silence' > Timeout)
         /\ Ahub'.seen /\ ~Ahub'.lost => Ahub'.age <= Timeout /\ silence' = Ahub'.age
         /\ host' \in {"none", "ahub"}
         /\ error' = (host' = "none" \/ (Ahub'.seen /\ silence' > Timeout))
<1> DEFINE fed == FedAhub(packet)
<1> DEFINE l == bus_link_poll(fed)
<1> DEFINE stu == IF LinkState(l) = "lost" THEN "error" ELSE packet
<1>1. /\ speaks = "ahub" /\ link' = [link EXCEPT !["ahub"] = l] /\ gap' = 0
      /\ silence' = (IF packet = "heartbeat" THEN 0 ELSE silence)
      /\ HostAndError("error", stu)
      /\ UNCHANGED <<speaks, amsAuto, pending, hbAge, linkPrev, hbUnreported, reg, outage>>
  BY DEF AhubPass, FedAhub
<1>2. Ahub' = l
  BY <1>1 DEF Ahub, LinkInv, LinkTypeOK, Protocols
<1>3. fed \in [seen : BOOLEAN, lost : BOOLEAN, age : 0..(2 * Half - 1)]
  BY LinkAssumption DEF FedAhub, bus_link_heartbeat, LinkInv, LinkTypeOK, Protocols
<1>4. /\ l \in [seen : BOOLEAN, lost : BOOLEAN, age : 0..(2 * Half - 1)]
      /\ l.seen = fed.seen /\ l.age = fed.age
      /\ l.lost = (fed.seen /\ (fed.lost \/ Signed(fed.age) > Timeout))
  BY <1>3 DEF bus_link_poll
<1>5. CASE packet = "heartbeat"
  <2>1. fed.seen /\ ~fed.lost /\ fed.age = 0 /\ silence' = 0
    BY <1>1, <1>5 DEF FedAhub, bus_link_heartbeat
  <2>2. ~l.lost /\ l.seen /\ l.age = 0
    BY <1>4, <2>1, LinkAssumption DEF Signed
  <2>3. stu = packet
    BY <2>2 DEF LinkState
  <2>4. host' = "ahub" /\ error' = FALSE
    BY <1>1, <1>5, <2>3 DEF HostAndError
  <2>5. ~(silence' > Timeout)
    BY <2>1, LinkAssumption
  <2>6. Ahub'.seen /\ ~Ahub'.lost /\ Ahub'.age = 0
    BY <1>2, <2>2
  <2>7. silence' \in 0..(Timeout + 1) /\ 0 <= Timeout
    BY <2>1, LinkAssumption
  <2>8. error' = (host' = "none" \/ (Ahub'.seen /\ silence' > Timeout))
    BY <2>4, <2>5
  <2> QED BY <1>1, <1>2, <1>4, <2>1, <2>4, <2>5, <2>6, <2>7, <2>8
<1>6. CASE packet # "heartbeat"
  <2>1. fed = Ahub /\ silence' = silence
    BY <1>1, <1>6 DEF FedAhub, Ahub
  <2>2. /\ fed.lost => fed.seen /\ silence > Timeout
        /\ fed.seen /\ ~fed.lost => fed.age <= Timeout + gap /\ Tells(fed.age)
    BY <1>1, <2>1 DEF LinkInv, AhubInv
  <2>3. l.lost <=> (l.seen /\ silence > Timeout)
    BY <1>3, <1>4, <2>2, PollTells DEF LinkInv
  <2>4. l.seen /\ ~l.lost => l.age <= Timeout /\ silence' = l.age
    BY <1>4, <2>1, <2>2, <2>3, LinkAssumption DEF Tells, LinkInv, LinkTypeOK
  <2>5. LinkState(l) = "lost" <=> (l.seen /\ silence > Timeout)
    BY <1>4, <2>3 DEF LinkState
  <2>6. host \in {"none", "ahub"}
    BY <1>1 DEF LinkInv, AhubInv, LinkTypeOK, Protocols
  <2>7. /\ host' = (IF stu \notin {"none", "error"} THEN "ahub" ELSE host)
        /\ error' = (host' = "none" \/ (host' = "ams" /\ "error" = "error") \/ (host' = "ahub" /\ stu = "error"))
    BY <1>1 DEF HostAndError
  <2>8. stu = "error" <=> (l.seen /\ silence > Timeout)
    BY <2>5
  <2>9. host' \in {"none", "ahub"}
    BY <2>6, <2>7
  <2>10. l.seen /\ silence > Timeout => host' = "none" \/ stu = "error"
    BY <2>8
  <2>11. error' = (host' = "none" \/ (l.seen /\ silence' > Timeout))
    BY <2>1, <2>7, <2>8, <2>9
  <2>12. silence' \in 0..(Timeout + 1)
    BY <2>1 DEF LinkInv, LinkTypeOK
  <2> QED BY <1>1, <1>2, <1>4, <2>1, <2>3, <2>4, <2>9, <2>11, <2>12
<1> QED BY <1>5, <1>6

LEMMA AhubKeeps ==
  ASSUME LinkInv, NEW packet \in {"none", "heartbeat", "query"}, AhubPass(packet)
  PROVE  LinkInv'
<1>1. LinkTypeOK'
  <2>1. link' \in [Protocols -> [seen : BOOLEAN, lost : BOOLEAN, age : 0..(2 * Half - 1)]]
    BY AhubEffect DEF LinkInv, LinkTypeOK
  <2>2. error' \in BOOLEAN /\ host' \in Protocols \cup {"none"}
    BY AhubEffect DEF Protocols, AhubPass, HostAndError
  <2> QED BY <2>1, <2>2, AhubEffect, LinkAssumption DEF LinkInv, LinkTypeOK, reg
<1>2. AhubInv'
  BY AhubEffect, LinkAssumption DEF AhubInv, Tells
<1>3. speaks' = "ahub" /\ RegisteredInThisLink'
  BY AhubEffect DEF LinkInv, RegisteredInThisLink, reg
<1> QED BY <1>1, <1>2, <1>3 DEF LinkInv

(* The inductive invariant of the link. *)
THEOREM LinkInvariance == LinkSpec => []LinkInv
<1>1. LinkInit => LinkInv
  BY LinkInitially
<1>2. LinkInv /\ [LinkNext]_linkVars => LinkInv'
  <2> SUFFICES ASSUME LinkInv, [LinkNext]_linkVars PROVE LinkInv' OBVIOUS
  <2>1. CASE Tick
    BY <2>1, TickKeeps
  <2>2. CASE HeartbeatSeen
    BY <2>2, HeartbeatKeeps
  <2>3. CASE APass
    BY <2>3, BambuKeeps, AhubKeeps DEF APass
  <2>4. CASE UNCHANGED linkVars
    BY <2>4 DEF linkVars, clock, reg, LinkInv, LinkTypeOK, AmsInv, AhubInv, Tells, Ams, Ahub, RegisteredInThisLink
  <2> QED BY <2>1, <2>2, <2>3, <2>4 DEF LinkNext
<1> QED BY <1>1, <1>2, PTL DEF LinkSpec

(* After every pass of the main loop the motors may run exactly as the     *)
(* host's heartbeats allow, however often the tick counter has wrapped.    *)
THEOREM MotorsStop == LinkSpec => MotorsFollowTheLink
<1>1. LinkInv /\ [LinkNext]_linkVars =>
        [APass => IF speaks = "ams"
                  THEN error' = (~link'["ams"].seen \/ silence > Timeout)
                  ELSE error' = (host' = "none" \/ (link'["ahub"].seen /\ silence' > Timeout))]_linkVars
  <2> SUFFICES ASSUME LinkInv, APass
               PROVE  IF speaks = "ams"
                      THEN error' = (~link'["ams"].seen \/ silence > Timeout)
                      ELSE error' = (host' = "none" \/ (link'["ahub"].seen /\ silence' > Timeout))
    OBVIOUS
  <2>1. CASE \E packet \in {"none", "discover", "confirm", "arrange", "other"}, good, online \in BOOLEAN :
               BambuPass(packet, good, online)
    BY <2>1, BambuEffect DEF Ams
  <2>2. CASE \E packet \in {"none", "heartbeat", "query"} : AhubPass(packet)
    BY <2>2, AhubEffect DEF Ahub
  <2> QED BY <2>1, <2>2 DEF APass
<1> QED BY <1>1, LinkInvariance, PTL DEF LinkSpec, MotorsFollowTheLink

(* A unit that counts as found was confirmed in the link there is. *)
THEOREM NeverStaleRegistration == LinkSpec => []RegisteredInThisLink
<1>1. LinkInv => RegisteredInThisLink
  BY DEF LinkInv
<1> QED BY <1>1, LinkInvariance, PTL

(* Every variable keeps its type for every range of the tick counter. *)
THEOREM LinkTypeCorrect == LinkSpec => []LinkTypeOK
<1>1. LinkInv => LinkTypeOK
  BY DEF LinkInv
<1> QED BY <1>1, LinkInvariance, PTL

-----------------------------------------------------------------------------
(* The units on one bus.  A port keeps its order: whoever has a number     *)
(* when it reads a request got it from a confirm that was sent before it;  *)
(* and unless the unit missed an arrange command, after the last one.  At  *)
(* that moment the printer had given the number to this unit and no other. *)

(* An arrange command among the first n frames that wait. *)
Arranged(u, n) == \E i \in 1..n : inbox[u][i].kind = "arrange"

(* In the AUTO image, for a unit that has missed no arrange command.        *)
\* The number a unit has, or is about to be given, is its own with the printer.
NumberIsGiven(u) ==
  ~unit[u].wait /\ ~Arranged(u, Len(inbox[u])) =>
    /\ unit[u].registered => given[unit[u].num] = u
    /\ \A i \in 1..Len(inbox[u]) : inbox[u][i].kind = "confirm" => given[inbox[u][i].num] = inbox[u][i].id

\* Will u have the number of the request it reads at i?
MayHold(u, i) ==
  LET n == inbox[u][i].num
  IN /\ ~unit[u].wait /\ ~Arranged(u, i)
     /\ \/ unit[u].registered /\ unit[u].num = n
        \/ \E j \in 1..i : inbox[u][j].kind = "confirm" /\ inbox[u][j].num = n /\ inbox[u][j].id = u

Addressed(u, i) == IF AmsAuto THEN u \notin stray /\ MayHold(u, i) ELSE Letter[u] = inbox[u][i].num

LastOf(u, i) == inbox[u][i].kind = "request" /\ inbox[u][i].last

\* The one unit that the last request is for.
For(h) ==
  /\ \A u \in Units : \A i \in 1..Len(inbox[u]) : LastOf(u, i) /\ Addressed(u, i) => u = h
  /\ \A u \in Units : answer[u].kind = "reply" /\ answer[u].last => u = h
  /\ replied \subseteq {h}

UnitInv ==
  /\ TypeOK
  /\ AmsAuto => \A u \in Units \ stray : NumberIsGiven(u)
  /\ ~AmsAuto => \A u \in Units : unit[u].num = Letter[u]
  /\ \E h \in Units \cup {None} : For(h)

-----------------------------------------------------------------------------
(* Frames and answers. *)
LEMMA FrameParts ==
  ASSUME NEW f \in Frames
  PROVE  /\ f.kind \in {"probe", "arrange", "confirm", "request"}
         /\ f.kind = "confirm" => f.num \in Numbers /\ f.prefix \in Prefixes /\ f.id \in Units
         /\ f.kind = "request" => f.num \in Numbers /\ f.last \in BOOLEAN
BY DEF Frames

LEMMA AnswerParts ==
  ASSUME NEW f \in Answers
  PROVE  /\ f.kind \in {"none", "found", "confirmed", "reply"}
         /\ f.kind = "found" => f.prefix \in Prefixes
BY DEF Answers, NoAnswer

\* An older request is the same but for being the last.
LEMMA OlderFrame ==
  ASSUME NEW f \in Frames
  PROVE  /\ Older(f) \in Frames /\ Older(f).kind = f.kind
         /\ f.kind = "confirm" => Older(f) = f
         /\ f.kind = "request" => Older(f).num = f.num /\ Older(f).last = FALSE
<1>1. CASE f.kind = "request"
  <2>1. f \in [kind : {"request"}, num : Numbers, last : BOOLEAN]
    BY <1>1 DEF Frames
  <2>2. Older(f) = [f EXCEPT !.last = FALSE]
    BY <1>1 DEF Older
  <2> QED BY <1>1, <2>1, <2>2 DEF Frames
<1>2. CASE f.kind # "request"
  <2>1. f.kind # "reply"
    BY FrameParts
  <2> QED BY <1>2, <2>1 DEF Older
<1> QED BY <1>1, <1>2

LEMMA OlderAnswer ==
  ASSUME NEW f \in Answers
  PROVE  Older(f) \in Answers /\ Older(f).kind = f.kind /\ (f.kind = "reply" => Older(f).last = FALSE)
<1>1. CASE f.kind = "reply"
  <2>1. f \in [kind : {"reply"}, num : Numbers, last : BOOLEAN]
    BY <1>1 DEF Answers, NoAnswer
  <2>2. Older(f) = [f EXCEPT !.last = FALSE]
    BY <1>1 DEF Older
  <2> QED BY <1>1, <2>1, <2>2 DEF Answers
<1>2. CASE f.kind # "reply"
  <2>1. f.kind # "request"
    BY AnswerParts
  <2> QED BY <1>2, <2>1 DEF Older
<1> QED BY <1>1, <1>2

\* What a frame sent to some units leaves in the ports.
Aged(frame, f) == IF frame.kind = "request" THEN Older(f) ELSE f

LEMMA AgedFrame ==
  ASSUME NEW frame, NEW f \in Frames
  PROVE  /\ Aged(frame, f) \in Frames /\ Aged(frame, f).kind = f.kind
         /\ f.kind = "confirm" => Aged(frame, f) = f
         /\ f.kind = "request" => Aged(frame, f).num = f.num
         /\ frame.kind = "request" /\ f.kind = "request" => ~Aged(frame, f).last
         /\ frame.kind # "request" => Aged(frame, f) = f
BY OlderFrame DEF Aged

LEMMA Sent ==
  ASSUME TypeOK, NEW frame \in Frames, NEW to \in Reached, Broadcast(frame, to)
  PROVE  /\ inbox' \in [Units -> Seq(Frames)] /\ answer' \in [Units -> Answers]
         /\ \A u \in Units :
              /\ Len(inbox'[u]) <= MaxWaiting
              /\ Len(inbox'[u]) = IF u \in to THEN Len(inbox[u]) + 1 ELSE Len(inbox[u])
              /\ \A i \in 1..Len(inbox[u]) : inbox'[u][i] = Aged(frame, inbox[u][i])
              /\ u \in to => inbox'[u][Len(inbox[u]) + 1] = frame
              /\ frame.kind # "request" => answer'[u] = answer[u]
              /\ frame.kind = "request" => answer'[u] = Older(answer[u])
<1> DEFINE old(u) == [i \in 1..Len(inbox[u]) |-> Aged(frame, inbox[u][i])]
           new(u) == IF u \in to THEN Append(old(u), frame) ELSE old(u)
<1>1. inbox' = [u \in Units |-> new(u)]
  BY DEF Broadcast, Aged
<1>2. answer' = [u \in Units |-> Aged(frame, answer[u])]
  BY DEF Broadcast, Aged
<1>3. answer' \in [Units -> Answers]
  BY <1>2, OlderAnswer DEF TypeOK, Aged
<1>4. ASSUME NEW u \in Units
      PROVE  /\ new(u) \in Seq(Frames)
             /\ Len(new(u)) = IF u \in to THEN Len(inbox[u]) + 1 ELSE Len(inbox[u])
             /\ Len(new(u)) <= MaxWaiting
             /\ \A i \in 1..Len(inbox[u]) : new(u)[i] = Aged(frame, inbox[u][i])
             /\ u \in to => new(u)[Len(inbox[u]) + 1] = frame
  <2>1. inbox[u] \in Seq(Frames) /\ Len(inbox[u]) \in Nat /\ Len(inbox[u]) <= MaxWaiting /\ MaxWaiting \in Nat
    BY DiscoveryAssumption DEF TypeOK
  <2>2. \A i \in 1..Len(inbox[u]) : Aged(frame, inbox[u][i]) \in Frames
    BY <2>1, AgedFrame
  <2>3. old(u) \in Seq(Frames) /\ Len(old(u)) = Len(inbox[u])
    BY <2>1, <2>2
  <2>4. \A i \in 1..Len(inbox[u]) : old(u)[i] = Aged(frame, inbox[u][i])
    OBVIOUS
  <2>5. u \in to => Len(inbox[u]) < MaxWaiting
    BY DEF Reached
  <2> HIDE DEF old
  <2>6. CASE u \in to
    BY <2>1, <2>3, <2>4, <2>5, <2>6
  <2>7. CASE u \notin to
    BY <2>1, <2>3, <2>4, <2>7
  <2> QED BY <2>6, <2>7
<1> HIDE DEF new
<1>5. inbox' \in [Units -> Seq(Frames)]
  BY <1>1, <1>4
<1>6. \A u \in Units : /\ frame.kind # "request" => answer'[u] = answer[u]
                       /\ frame.kind = "request" => answer'[u] = Older(answer[u])
  BY <1>2 DEF Aged
<1> QED BY <1>1, <1>3, <1>4, <1>5, <1>6

-----------------------------------------------------------------------------
(* Types. *)
UnitStates == [registered : BOOLEAN, wait : BOOLEAN, num : Numbers, prefix : Prefixes, phase : 0 .. 3]

LEMMA ResetTypes ==
  ASSUME NEW u \in Units, NEW s \in Reset(u)
  PROVE  /\ s \in UnitStates /\ ~s.registered /\ ~s.wait
         /\ ~AmsAuto => s.num = Letter[u]
<1>1. 0 \in Numbers /\ Letter[u] \in Numbers /\ AmsAuto \in BOOLEAN /\ 0 \in 0 .. 3
  BY DiscoveryAssumption
<1>2. CASE AmsAuto
  BY <1>1, <1>2 DEF Reset, UnitStates, Prefixes
<1>3. CASE ~AmsAuto
  BY <1>1, <1>3 DEF Reset, UnitStates, Prefixes
<1> QED BY <1>1, <1>2, <1>3

\* What a unit makes of a frame of the handshake.
LEMMA DetectParts ==
  ASSUME TypeOK, NEW u \in Units, NEW f \in Frames, f.kind # "request"
  PROVE  LET r == get_package_online_detect(u, f)
         IN /\ r.s \in UnitStates /\ r.a \in Answers /\ r.a.kind # "reply"
            /\ Cancels(f) => r.s.wait
            /\ ~AmsAuto => r.s.num = unit[u].num
            /\ f.kind = "probe" =>
                 r.s.wait = unit[u].wait /\ r.s.registered = unit[u].registered /\ r.s.num = unit[u].num
            /\ f.kind = "confirm" =>
                 /\ r.s.wait = unit[u].wait
                 /\ \/ r.s.registered = unit[u].registered /\ r.s.num = unit[u].num
                    \/ r.s.num = f.num /\ f.id = u
            /\ f.kind = "arrange" /\ ~AmsAuto => r.s = unit[u]
<1> DEFINE s == unit[u]
           r == get_package_online_detect(u, f)
<1>1. s \in UnitStates
  BY DEF TypeOK, UnitStates
<1>2. NoAnswer \in Answers /\ NoAnswer.kind = "none"
  BY DEF Answers, NoAnswer
<1>3. CASE f.kind = "arrange"
  <2>1. r = IF AmsAuto THEN [s |-> Rearmed(s), a |-> Cancelled(u)] ELSE [s |-> s, a |-> NoAnswer]
    BY <1>3 DEF get_package_online_detect
  <2>2. Rearmed(s) \in UnitStates /\ Rearmed(s).wait
    <3>1. FALSE \in BOOLEAN /\ TRUE \in BOOLEAN /\ 0 \in Numbers /\ 0 \in 0 .. 3
      BY DiscoveryAssumption
    <3>2. Rearmed(s) \in UnitStates
      BY <1>1, <3>1, Zenon DEF Rearmed, UnitStates
    <3>3. Rearmed(s).wait
      BY <1>1 DEF Rearmed, UnitStates
    <3> QED BY <3>2, <3>3
  <2>3. Cancels(f) <=> AmsAuto
    BY <1>3 DEF Cancels
  <2> HIDE DEF r
  <2> QED BY <1>1, <1>2, <1>3, <2>1, <2>2, <2>3 DEF Cancelled, r
<1>4. CASE f.kind = "probe"
  <2>1. ~Cancels(f)
    BY <1>4 DEF Cancels
  <2>2. CASE s.wait \/ s.registered
    <3>1. r = [s |-> s, a |-> NoAnswer]
      BY <1>4, <2>2 DEF get_package_online_detect
    <3> QED BY <1>1, <1>2, <1>4, <2>1, <3>1
  <2>3. CASE ~(s.wait \/ s.registered)
    <3>1. /\ Probed(s) \in UnitStates /\ Probed(s).wait = s.wait /\ Probed(s).registered = s.registered
          /\ Probed(s).num = s.num
      <4>1. PrefixShown(s) \in Prefixes
        BY <1>1 DEF PrefixShown, Prefixes, UnitStates
      <4> DEFINE k == IF AmsAuto THEN s.phase ELSE IF s.phase = 0 THEN 1 ELSE 2
                 p == PrefixShown(s)
      <4>2. k \in 0 .. 3
        BY <1>1 DEF UnitStates
      <4>3. Probed(s) = [s EXCEPT !.prefix = p, !.phase = k]
        BY DEF Probed
      <4>4. [s EXCEPT !.prefix = p, !.phase = k] \in UnitStates
        <5> HIDE DEF s, k
        <5> QED BY <1>1, <4>1, <4>2, Zenon DEF UnitStates
      <4> HIDE DEF k, p
      <4>5. Probed(s).wait = s.wait /\ Probed(s).registered = s.registered /\ Probed(s).num = s.num
        BY <1>1, <4>3 DEF UnitStates
      <4> QED BY <4>3, <4>4, <4>5
    <3>2. r = [s |-> Probed(s), a |-> [kind |-> "found", num |-> Probed(s).num, prefix |-> Probed(s).prefix]]
      BY <1>4, <2>3 DEF get_package_online_detect
    <3>3. r.a \in Answers /\ r.a.kind = "found"
      BY <3>1, <3>2 DEF Answers, UnitStates
    <3> QED BY <1>1, <1>4, <2>1, <3>1, <3>2, <3>3
  <2> QED BY <2>2, <2>3
<1>5. CASE f.kind = "confirm"
  <2>1. ~Cancels(f) /\ f.num \in Numbers
    BY <1>5, FrameParts DEF Cancels
  <2> DEFINE t == [s EXCEPT !.prefix = IF AmsAuto \/ f.num # s.num THEN @ ELSE Second]
             v == [t EXCEPT !.registered = TRUE, !.phase = 3, !.num = f.num]
  <2>2. /\ t \in UnitStates /\ t.wait = s.wait /\ t.registered = s.registered /\ t.num = s.num
    BY <1>1 DEF UnitStates, Prefixes
  <2>3. CASE s.wait \/ ~Names(u, f)
    <3>1. r = [s |-> IF s.wait THEN s ELSE t, a |-> NoAnswer]
      BY <1>5, <2>3 DEF get_package_online_detect
    <3> HIDE DEF t
    <3> QED BY <1>1, <1>2, <1>5, <2>1, <2>2, <3>1
  <2>4. CASE ~(s.wait \/ ~Names(u, f))
    <3>1. r = [s |-> v, a |-> [kind |-> "confirmed", num |-> f.num, prefix |-> t.prefix]]
      BY <1>5, <2>4 DEF get_package_online_detect
    <3> HIDE DEF t, s
    <3>2. v \in UnitStates /\ v.wait = s.wait /\ v.num = f.num
      <4>1. TRUE \in BOOLEAN /\ 3 \in 0 .. 3
        OBVIOUS
      <4>2. v \in UnitStates
        BY <2>1, <2>2, <4>1, Zenon DEF UnitStates
      <4>3. v.wait = t.wait /\ v.num = f.num
        BY <2>2 DEF UnitStates
      <4> QED BY <2>2, <4>2, <4>3
    <3> HIDE DEF v
    <3>3. r.a \in Answers /\ r.a.kind = "confirmed"
      BY <2>1, <2>2, <3>1 DEF Answers, UnitStates
    <3>4. f.id = u /\ (~AmsAuto => f.num = unit[u].num) /\ ~unit[u].wait
      BY <2>4 DEF Names, s
    <3> QED BY <1>5, <2>1, <3>1, <3>2, <3>3, <3>4 DEF s
  <2> QED BY <2>3, <2>4
<1> QED BY <1>3, <1>4, <1>5, FrameParts

LEMMA RepliedParts ==
  ASSUME TypeOK, NEW u \in Units, NEW f \in Frames, f.kind = "request"
  PROVE  /\ Replied(u, f) \in Answers
         /\ Replied(u, f).kind = "reply" /\ Replied(u, f).last =>
              f.last /\ u \notin stray /\ Admitted(unit[u]) /\ f.num = unit[u].num
<1>1. f.num \in Numbers /\ f.last \in BOOLEAN /\ (f.last /\ u \notin stray) \in BOOLEAN
  BY FrameParts
<1>2. CASE Admitted(unit[u]) /\ f.num = unit[u].num
  BY <1>1, <1>2 DEF Replied, Answers
<1>3. CASE ~(Admitted(unit[u]) /\ f.num = unit[u].num)
  BY <1>3 DEF Replied, NoAnswer, Answers
<1> QED BY <1>2, <1>3

\* A pass takes one frame out of the port of its unit.
LEMMA Passed ==
  ASSUME TypeOK, NEW u \in Units, Pass(u)
  PROVE  LET f == Head(inbox[u])
         IN /\ f \in Frames /\ f = inbox[u][1] /\ inbox[u] # << >>
            /\ inbox' \in [Units -> Seq(Frames)] /\ unit' \in [Units -> UnitStates] /\ answer' \in [Units -> Answers]
            /\ Len(inbox'[u]) = Len(inbox[u]) - 1 /\ Len(inbox[u]) \in Nat \ {0}
            /\ \A i \in 1..Len(inbox'[u]) : inbox'[u][i] = inbox[u][i + 1]
            /\ \A v \in Units \ {u} : inbox'[v] = inbox[v] /\ unit'[v] = unit[v] /\ answer'[v] = answer[v]
            /\ f.kind = "request" => unit'[u] = unit[u] /\ answer'[u] = Replied(u, f)
            /\ f.kind # "request" => unit'[u] = get_package_online_detect(u, f).s /\ answer'[u] = get_package_online_detect(u, f).a
<1> DEFINE f == Head(inbox[u])
           r == IF f.kind = "request" THEN [s |-> unit[u], a |-> Replied(u, f)] ELSE get_package_online_detect(u, f)
<1>1. /\ inbox[u] # << >> /\ inbox[u] \in Seq(Frames)
      /\ unit' = [unit EXCEPT ![u] = r.s] /\ answer' = [answer EXCEPT ![u] = r.a]
      /\ inbox' = [inbox EXCEPT ![u] = Tail(@)]
  BY DEF Pass, TypeOK
<1>2. f \in Frames /\ f = inbox[u][1] /\ Len(inbox[u]) \in Nat \ {0}
  BY <1>1
<1>3. /\ Tail(inbox[u]) \in Seq(Frames) /\ Len(Tail(inbox[u])) = Len(inbox[u]) - 1
      /\ \A i \in 1..Len(Tail(inbox[u])) : Tail(inbox[u])[i] = inbox[u][i + 1]
  BY <1>1, <1>2
<1>4. r.s \in UnitStates /\ r.a \in Answers
  <2>1. CASE f.kind = "request"
    BY <1>2, <2>1, RepliedParts DEF TypeOK, UnitStates
  <2>2. CASE f.kind # "request"
    BY <1>2, <2>2, DetectParts
  <2> QED BY <2>1, <2>2
<1>5. /\ f.kind = "request" => r.s = unit[u] /\ r.a = Replied(u, f)
      /\ f.kind # "request" => r.s = get_package_online_detect(u, f).s /\ r.a = get_package_online_detect(u, f).a
  OBVIOUS
<1> HIDE DEF f, r
<1>6. /\ inbox' \in [Units -> Seq(Frames)] /\ inbox'[u] = Tail(inbox[u])
      /\ \A v \in Units \ {u} : inbox'[v] = inbox[v]
  BY <1>1, <1>3 DEF TypeOK
<1>7. /\ unit' \in [Units -> UnitStates] /\ unit'[u] = r.s
      /\ \A v \in Units \ {u} : unit'[v] = unit[v]
  BY <1>1, <1>4 DEF TypeOK, UnitStates
<1>8. /\ answer' \in [Units -> Answers] /\ answer'[u] = r.a
      /\ \A v \in Units \ {u} : answer'[v] = answer[v]
  BY <1>1, <1>4 DEF TypeOK
<1>9. Len(inbox'[u]) = Len(inbox[u]) - 1 /\ \A i \in 1..Len(inbox'[u]) : inbox'[u][i] = inbox[u][i + 1]
  BY <1>3, <1>6
<1> QED BY <1>1, <1>2, <1>5, <1>6, <1>7, <1>8, <1>9 DEF f

-----------------------------------------------------------------------------
(* A frame that the printer sends. *)

\* Sending an arrange command or any other frame leaves what waits in its order.
LEMMA ArrangedSent ==
  ASSUME TypeOK, NEW frame \in Frames, NEW to \in Reached, Broadcast(frame, to), NEW u \in Units,
         NEW n \in 0..Len(inbox[u])
  PROVE  Arranged(u, n)' <=> Arranged(u, n)
<1>1. /\ inbox[u] \in Seq(Frames)
      /\ \A i \in 1..Len(inbox[u]) : inbox'[u][i] = Aged(frame, inbox[u][i]) /\ inbox[u][i] \in Frames
  BY Sent DEF TypeOK
<1>2. \A i \in 1..n : inbox'[u][i].kind = inbox[u][i].kind
  BY <1>1, AgedFrame
<1> QED BY <1>2 DEF Arranged

\* No arrange command waits after the frame was sent only if none did before.
LEMMA NoneArrangedBefore ==
  ASSUME TypeOK, NEW frame \in Frames, NEW to \in Reached, Broadcast(frame, to), NEW u \in Units,
         ~Arranged(u, Len(inbox[u]))'
  PROVE  ~Arranged(u, Len(inbox[u])) /\ (u \in to => frame.kind # "arrange")
<1>1. /\ Len(inbox[u]) \in Nat /\ inbox[u] \in Seq(Frames)
      /\ Len(inbox'[u]) = IF u \in to THEN Len(inbox[u]) + 1 ELSE Len(inbox[u])
      /\ \A i \in 1..Len(inbox[u]) : inbox'[u][i] = Aged(frame, inbox[u][i]) /\ inbox[u][i] \in Frames
      /\ u \in to => inbox'[u][Len(inbox[u]) + 1] = frame
  BY Sent DEF TypeOK
<1>2. \A i \in 1..Len(inbox[u]) : inbox'[u][i].kind = inbox[u][i].kind
  BY <1>1, AgedFrame
<1>3. \A i \in 1..Len(inbox'[u]) : inbox'[u][i].kind # "arrange"
  BY DEF Arranged
<1> QED BY <1>1, <1>2, <1>3 DEF Arranged

\* A number stays given to the same unit, and a confirm says to whom.
LEMMA NumbersKept ==
  ASSUME TypeOK, NEW frame \in Frames, NEW to \in Reached, Broadcast(frame, to), NEW u \in Units,
         UNCHANGED unit, NumberIsGiven(u), frame.kind # "arrange",
         \A n \in Numbers : given[n] \in Units => given'[n] = given[n],
         frame.kind = "confirm" => given'[frame.num] = frame.id
  PROVE  NumberIsGiven(u)'
<1>1. /\ Len(inbox[u]) \in Nat /\ inbox[u] \in Seq(Frames)
      /\ Len(inbox'[u]) = IF u \in to THEN Len(inbox[u]) + 1 ELSE Len(inbox[u])
      /\ \A i \in 1..Len(inbox[u]) : inbox'[u][i] = Aged(frame, inbox[u][i]) /\ inbox[u][i] \in Frames
      /\ u \in to => inbox'[u][Len(inbox[u]) + 1] = frame
  BY Sent DEF TypeOK
<1>2. unit'[u] = unit[u] /\ unit[u].num \in Numbers
  BY DEF TypeOK
<1>3. SUFFICES ASSUME ~unit[u].wait, ~Arranged(u, Len(inbox[u]))'
               PROVE  /\ unit[u].registered => given'[unit[u].num] = u
                      /\ \A i \in 1..Len(inbox'[u]) : inbox'[u][i].kind = "confirm" =>
                           given'[inbox'[u][i].num] = inbox'[u][i].id
  BY <1>2 DEF NumberIsGiven
<1>4. /\ unit[u].registered => given[unit[u].num] = u
      /\ \A i \in 1..Len(inbox[u]) : inbox[u][i].kind = "confirm" => given[inbox[u][i].num] = inbox[u][i].id
  BY <1>3, NoneArrangedBefore DEF NumberIsGiven
<1>5. ASSUME NEW i \in 1..Len(inbox'[u]), inbox'[u][i].kind = "confirm"
      PROVE  given'[inbox'[u][i].num] = inbox'[u][i].id
  <2>1. CASE i \in 1..Len(inbox[u])
    <3>1. inbox[u][i].kind = "confirm" /\ inbox'[u][i] = inbox[u][i]
      BY <1>1, <1>5, <2>1, AgedFrame
    <3>2. inbox[u][i].num \in Numbers /\ inbox[u][i].id \in Units
      BY <1>1, <2>1, <3>1, FrameParts
    <3> QED BY <1>4, <2>1, <3>1, <3>2
  <2>2. CASE i \notin 1..Len(inbox[u])
    <3>1. inbox'[u][i] = frame
      BY <1>1, <2>2
    <3> QED BY <1>5, <3>1
  <2> QED BY <2>1, <2>2
<1> QED BY <1>2, <1>4, <1>5

\* Who will have the number of a request that waits does not depend on what comes behind it.
LEMMA HoldersSent ==
  ASSUME TypeOK, NEW frame \in Frames, NEW to \in Reached, Broadcast(frame, to), UNCHANGED unit,
         NEW u \in Units, NEW i \in 1..Len(inbox[u]), inbox[u][i].kind = "request", MayHold(u, i)'
  PROVE  MayHold(u, i)
<1>1. /\ Len(inbox[u]) \in Nat /\ inbox[u] \in Seq(Frames)
      /\ \A j \in 1..Len(inbox[u]) : inbox'[u][j] = Aged(frame, inbox[u][j]) /\ inbox[u][j] \in Frames
  BY Sent DEF TypeOK
<1>2. \A j \in 1..i : inbox'[u][j].kind = inbox[u][j].kind /\ (inbox[u][j].kind = "confirm" => inbox'[u][j] = inbox[u][j])
  BY <1>1, AgedFrame
<1>3. inbox'[u][i].num = inbox[u][i].num
  BY <1>1, AgedFrame
<1>4. ~Arranged(u, i)
  BY ArrangedSent DEF MayHold
<1> QED BY <1>2, <1>3, <1>4 DEF MayHold

\* A frame that is no request leaves the one that the last request is for.
LEMMA ForKept ==
  ASSUME TypeOK, NEW frame \in Frames, NEW to \in Reached, Broadcast(frame, to), UNCHANGED <<unit, replied>>,
         frame.kind # "request", stray \subseteq stray', NEW h, For(h)
  PROVE  For(h)'
<1>1. ASSUME NEW u \in Units
      PROVE  /\ Len(inbox[u]) \in Nat
             /\ Len(inbox'[u]) = IF u \in to THEN Len(inbox[u]) + 1 ELSE Len(inbox[u])
             /\ \A i \in 1..Len(inbox[u]) : inbox'[u][i] = inbox[u][i]
             /\ u \in to => inbox'[u][Len(inbox[u]) + 1] = frame
             /\ answer'[u] = answer[u]
  <2>1. inbox[u] \in Seq(Frames) /\ Len(inbox[u]) \in Nat
    BY DEF TypeOK
  <2>2. /\ Len(inbox'[u]) = IF u \in to THEN Len(inbox[u]) + 1 ELSE Len(inbox[u])
        /\ u \in to => inbox'[u][Len(inbox[u]) + 1] = frame
        /\ answer'[u] = answer[u]
    BY Sent
  <2>3. ASSUME NEW i \in 1..Len(inbox[u]) PROVE inbox'[u][i] = inbox[u][i]
    <3>1. inbox[u][i] \in Frames
      BY <2>1
    <3>2. inbox'[u][i] = Aged(frame, inbox[u][i])
      BY Sent
    <3> QED BY <3>1, <3>2, AgedFrame
  <2> QED BY <2>1, <2>2, <2>3
<1>2. ASSUME NEW u \in Units, NEW i \in 1..Len(inbox'[u]), LastOf(u, i)', Addressed(u, i)'
      PROVE  u = h
  <2>1. i \in 1..Len(inbox[u])
    BY <1>1, <1>2 DEF LastOf
  <2>2. LastOf(u, i)
    BY <1>1, <1>2, <2>1 DEF LastOf
  <2>3. Addressed(u, i)
    <3>1. CASE AmsAuto
      BY <1>2, <2>1, <2>2, <3>1, HoldersSent DEF Addressed, LastOf
    <3>2. CASE ~AmsAuto
      BY <1>1, <1>2, <2>1, <3>2 DEF Addressed
    <3> QED BY <3>1, <3>2
  <2> QED BY <2>1, <2>2, <2>3 DEF For
<1>3. \A u \in Units : answer'[u].kind = "reply" /\ answer'[u].last => u = h
  BY <1>1 DEF For
<1>4. replied' \subseteq {h}
  BY DEF For
<1> QED BY <1>2, <1>3, <1>4 DEF For

-----------------------------------------------------------------------------
(* The printer's steps. *)
LEMMA ProbeKeeps ==
  ASSUME UnitInv, Probe
  PROVE  UnitInv'
<1> DEFINE frame == [kind |-> "probe"]
<1>1. PICK to \in Reached : Broadcast(frame, to)
  BY DEF Probe
<1>2. frame \in Frames /\ frame.kind = "probe"
  BY DEF Frames
<1>3. UNCHANGED <<unit, heard, given, replied, stray, used>>
  BY DEF Probe
<1> HIDE DEF frame
<1>4. TypeOK /\ TypeOK'
  BY <1>1, <1>2, <1>3, Sent DEF UnitInv, TypeOK
<1>5. ASSUME AmsAuto, NEW u \in Units \ stray'
      PROVE  NumberIsGiven(u)'
  BY <1>1, <1>2, <1>3, <1>4, <1>5, NumbersKept DEF UnitInv
<1>6. PICK h \in Units \cup {None} : For(h)
  BY DEF UnitInv
<1>7. For(h)'
  BY <1>1, <1>2, <1>3, <1>4, <1>6, ForKept
<1> QED BY <1>3, <1>4, <1>5, <1>7 DEF UnitInv

LEMMA ConfirmKeeps ==
  ASSUME UnitInv, NEW u \in Units, NEW to \in Reached, Confirm(u, to)
  PROVE  UnitInv'
<1>1. PICK n \in Offered(u) : /\ given' = [given EXCEPT ![n] = u]
                              /\ Broadcast([kind |-> "confirm", num |-> n, prefix |-> heard[u], id |-> u], to)
  BY DEF Confirm
<1> DEFINE frame == [kind |-> "confirm", num |-> n, prefix |-> heard[u], id |-> u]
<1>2. n \in Numbers
  BY DiscoveryAssumption DEF Offered
<1>3. heard[u] \in Prefixes
  BY DEF Confirm, UnitInv, TypeOK
<1>4. frame \in Frames /\ frame.kind = "confirm" /\ frame.num = n /\ frame.id = u
  BY <1>2, <1>3 DEF Frames
<1>5. UNCHANGED <<unit, heard, replied, stray, used>> /\ Broadcast(frame, to)
  BY <1>1 DEF Confirm
<1> HIDE DEF frame
<1>6. TypeOK /\ TypeOK'
  <2>1. TypeOK /\ given' \in [Numbers -> Units \cup {None}]
    BY <1>1 DEF UnitInv, TypeOK
  <2> QED BY <1>4, <1>5, <2>1, Sent DEF TypeOK
<1>7. given'[n] = u
  BY <1>1, <1>2, <1>6 DEF TypeOK
<1>8. ASSUME AmsAuto, NEW v \in Units \ stray'
      PROVE  NumberIsGiven(v)'
  <2>1. given[n] \in {u, None}
    BY <1>8, <1>1 DEF Offered
  <2>2. \A m \in Numbers : given[m] \in Units => given'[m] = given[m]
    BY <1>1, <1>2, <1>6, <2>1, DiscoveryAssumption DEF TypeOK
  <2>3. NumberIsGiven(v)
    BY <1>5, <1>8 DEF UnitInv
  <2> QED BY <1>4, <1>5, <1>6, <1>7, <2>2, <2>3, NumbersKept
<1>9. PICK h \in Units \cup {None} : For(h)
  BY DEF UnitInv
<1>10. For(h)'
  BY <1>4, <1>5, <1>6, <1>9, ForKept
<1> QED BY <1>5, <1>6, <1>8, <1>10 DEF UnitInv

\* The one unit that a request sent now is for: the one that has its number with the printer.
Holder(n) ==
  IF AmsAuto THEN given[n]
  ELSE IF \E u \in Units : Letter[u] = n THEN CHOOSE u \in Units : Letter[u] = n ELSE None

LEMMA RequestKeeps ==
  ASSUME UnitInv, Request
  PROVE  UnitInv'
<1>1. PICK to \in Reached, n \in Requested : Broadcast([kind |-> "request", num |-> n, last |-> TRUE], to)
  BY DEF Request
<1> DEFINE frame == [kind |-> "request", num |-> n, last |-> TRUE]
<1>2. n \in Numbers
  BY DiscoveryAssumption
<1>3. frame \in Frames /\ frame.kind = "request" /\ frame.num = n
  BY <1>2 DEF Frames
<1>4. UNCHANGED <<unit, heard, given, stray, used>> /\ replied' = {} /\ Broadcast(frame, to)
  BY <1>1 DEF Request
<1> HIDE DEF frame
<1>5. TypeOK /\ TypeOK'
  BY <1>3, <1>4, Sent DEF UnitInv, TypeOK
<1>6. ASSUME AmsAuto, NEW v \in Units \ stray'
      PROVE  NumberIsGiven(v)'
  BY <1>3, <1>4, <1>5, <1>6, NumbersKept DEF UnitInv
<1> DEFINE h == Holder(n)
<1>7. h \in Units \cup {None}
  BY <1>2, <1>5 DEF Holder, TypeOK
<1>8. ASSUME NEW u \in Units
      PROVE  /\ Len(inbox[u]) \in Nat /\ inbox[u] \in Seq(Frames)
             /\ Len(inbox'[u]) = IF u \in to THEN Len(inbox[u]) + 1 ELSE Len(inbox[u])
             /\ \A i \in 1..Len(inbox[u]) : inbox'[u][i] = Aged(frame, inbox[u][i]) /\ inbox[u][i] \in Frames
             /\ u \in to => inbox'[u][Len(inbox[u]) + 1] = frame
             /\ answer'[u] = Older(answer[u]) /\ answer[u] \in Answers
  <2>1. inbox[u] \in Seq(Frames) /\ answer[u] \in Answers
    BY <1>5 DEF TypeOK
  <2> QED BY <1>3, <1>4, <1>5, <2>1, Sent
<1>9. ASSUME NEW u \in Units, NEW i \in 1..Len(inbox'[u]), LastOf(u, i)', Addressed(u, i)'
      PROVE  u = h
  <2>1. i \notin 1..Len(inbox[u])
    <3>1. SUFFICES ASSUME i \in 1..Len(inbox[u])
                   PROVE  FALSE
      OBVIOUS
    <3>2. inbox[u][i].kind = "request"
      BY <1>8, <1>9, <3>1, AgedFrame DEF LastOf
    <3> QED BY <1>3, <1>8, <1>9, <3>1, <3>2, AgedFrame DEF LastOf
  <2>2. u \in to /\ i = Len(inbox[u]) + 1 /\ inbox'[u][i] = frame
    BY <1>8, <2>1
  <2>3. CASE ~AmsAuto
    <3>1. Letter[u] = n
      BY <1>3, <1>9, <2>2, <2>3 DEF Addressed
    <3>2. \A v \in Units : Letter[v] = n => v = u
      BY <2>3, <3>1, DiscoveryAssumption
    <3> QED BY <2>3, <3>1, <3>2 DEF Holder
  <2>4. CASE AmsAuto
    <3>1. u \notin stray /\ MayHold(u, i)' /\ unit'[u] = unit[u] /\ stray' = stray
      BY <1>4, <1>9, <2>4 DEF Addressed
    <3>2. ~unit[u].wait /\ ~Arranged(u, Len(inbox[u]))
      <4>1. ~unit[u].wait /\ \A j \in 1..i : inbox'[u][j].kind # "arrange"
        BY <3>1 DEF MayHold, Arranged
      <4>2. \A j \in 1..Len(inbox[u]) : inbox[u][j].kind # "arrange"
        BY <1>8, <2>2, <4>1, AgedFrame
      <4> QED BY <4>1, <4>2 DEF Arranged
    <3>3. NumberIsGiven(u)
      BY <2>4, <3>1 DEF UnitInv
    <3>4. /\ unit[u].registered => given[unit[u].num] = u
          /\ \A j \in 1..Len(inbox[u]) : inbox[u][j].kind = "confirm" => given[inbox[u][j].num] = inbox[u][j].id
      BY <3>2, <3>3 DEF NumberIsGiven
    <3>5. CASE unit[u].registered /\ unit[u].num = n
      BY <2>4, <3>4, <3>5 DEF Holder
    <3>6. CASE \E j \in 1..i : inbox'[u][j].kind = "confirm" /\ inbox'[u][j].num = n /\ inbox'[u][j].id = u
      <4>1. PICK j \in 1..i : inbox'[u][j].kind = "confirm" /\ inbox'[u][j].num = n /\ inbox'[u][j].id = u
        BY <3>6
      <4>2. j \in 1..Len(inbox[u])
        BY <1>3, <1>8, <2>2, <4>1
      <4>3. inbox[u][j].kind = "confirm" /\ inbox'[u][j] = inbox[u][j]
        BY <1>8, <4>1, <4>2, AgedFrame
      <4> QED BY <2>4, <3>4, <4>1, <4>2, <4>3 DEF Holder
    <3> QED BY <1>3, <2>2, <3>1, <3>5, <3>6 DEF MayHold
  <2> QED BY <2>3, <2>4
<1>10. ASSUME NEW u \in Units, answer'[u].kind = "reply"
       PROVE  answer'[u].last = FALSE
  <2>1. answer'[u] = Older(answer[u]) /\ answer[u] \in Answers
    BY <1>8
  <2> QED BY <1>10, <2>1, OlderAnswer
<1> HIDE DEF h
<1>11. \A g : g = h => For(g)'
  BY <1>4, <1>9, <1>10 DEF For
<1>12. \E g \in Units \cup {None} : For(g)'
  BY <1>7, <1>11
<1> QED BY <1>4, <1>5, <1>6, <1>12 DEF UnitInv

LEMMA ArrangeKeeps ==
  ASSUME UnitInv, Arrange
  PROVE  UnitInv'
<1> DEFINE frame == [kind |-> "arrange"]
<1>1. PICK to \in Reached : /\ Broadcast(frame, to)
                            /\ stray' = IF AmsAuto THEN stray \cup (Units \ to) ELSE stray
  BY DEF Arrange
<1>2. frame \in Frames /\ frame.kind = "arrange"
  BY DEF Frames
<1>3. /\ heard' = [v \in Units |-> None] /\ given' = [m \in Numbers |-> None] /\ UNCHANGED <<unit, replied>>
      /\ used.arranges < MaxArranges /\ used' = [used EXCEPT !.arranges = @ + 1]
  BY DEF Arrange
<1> HIDE DEF frame
<1>4. TypeOK /\ TypeOK'
  <2>1. used' \in [arranges : 0 .. MaxArranges, restarts : 0 .. MaxRestarts]
    <3>1. used \in [arranges : 0 .. MaxArranges, restarts : 0 .. MaxRestarts] /\ used.arranges + 1 \in 0 .. MaxArranges
      BY <1>3, DiscoveryAssumption DEF UnitInv, TypeOK
    <3> QED BY <1>3, <3>1
  <2>2. stray' \subseteq Units
    BY <1>1 DEF UnitInv, TypeOK
  <2> QED BY <1>1, <1>2, <1>3, <2>1, <2>2, Sent DEF UnitInv, TypeOK
<1>5. ASSUME AmsAuto, NEW u \in Units \ stray'
      PROVE  NumberIsGiven(u)'
  <2>1. u \in to
    BY <1>1, <1>5
  <2>2. Len(inbox[u]) + 1 \in 1..Len(inbox'[u]) /\ inbox'[u][Len(inbox[u]) + 1] = frame
    <3>1. inbox[u] \in Seq(Frames)
      BY <1>4 DEF TypeOK
    <3> QED BY <1>1, <1>2, <1>4, <2>1, <3>1, Sent
  <2> QED BY <1>2, <2>2 DEF NumberIsGiven, Arranged
<1>6. PICK h \in Units \cup {None} : For(h)
  BY DEF UnitInv
<1>7. For(h)'
  BY <1>1, <1>2, <1>3, <1>4, <1>6, ForKept
<1> QED BY <1>3, <1>4, <1>5, <1>7 DEF UnitInv

-----------------------------------------------------------------------------
(* The units' steps. *)

\* What unit u does leaves the other units what they hold.
LEMMA OthersHold ==
  ASSUME NEW u \in Units, UNCHANGED given,
         unit'[u] = unit[u], inbox'[u] = inbox[u]
  PROVE  /\ NumberIsGiven(u) => NumberIsGiven(u)'
         /\ \A i \in 1..Len(inbox'[u]) : MayHold(u, i)' => MayHold(u, i)
BY DEF NumberIsGiven, MayHold, Arranged

\* After a pass a unit has, or will have, no number that it was not about to get.
LEMMA PassHolds ==
  ASSUME UnitInv, NEW u \in Units, Pass(u), AmsAuto, u \notin stray'
  PROVE  /\ NumberIsGiven(u)'
         /\ \A i \in 1..Len(inbox'[u]) :
              inbox'[u][i].kind = "request" /\ MayHold(u, i)' => u \notin stray /\ MayHold(u, i + 1)
<1> DEFINE f == Head(inbox[u])
<1>1. TypeOK
  BY DEF UnitInv
<1>2. /\ f \in Frames /\ f = inbox[u][1] /\ inbox[u] \in Seq(Frames)
      /\ Len(inbox'[u]) = Len(inbox[u]) - 1 /\ Len(inbox[u]) \in Nat \ {0}
      /\ \A i \in 1..Len(inbox'[u]) : inbox'[u][i] = inbox[u][i + 1]
      /\ f.kind = "request" => unit'[u] = unit[u]
      /\ f.kind # "request" => unit'[u] = get_package_online_detect(u, f).s
  <2>1. inbox[u] \in Seq(Frames)
    BY <1>1 DEF TypeOK
  <2> QED BY <1>1, <2>1, Passed
<1>3. given' = given /\ stray' = IF Cancels(f) THEN stray \ {u} ELSE stray
  BY DEF Pass
<1> HIDE DEF f
<1>4. CASE f.kind = "arrange"
  <2>1. unit'[u].wait
    BY <1>1, <1>2, <1>4, DetectParts DEF Cancels
  <2> QED BY <2>1 DEF NumberIsGiven, MayHold
<1>5. CASE f.kind # "arrange"
  <2>1. u \notin stray /\ NumberIsGiven(u)
    BY <1>3, <1>5 DEF Cancels, UnitInv
  <2>2. /\ unit'[u].wait = unit[u].wait
        /\ \/ unit'[u].registered = unit[u].registered /\ unit'[u].num = unit[u].num
           \/ f.kind = "confirm" /\ unit'[u].num = f.num /\ f.id = u
    <3>1. CASE f.kind = "request"
      BY <1>2, <3>1
    <3>2. CASE f.kind = "probe"
      BY <1>1, <1>2, <3>2, DetectParts
    <3>3. CASE f.kind = "confirm"
      BY <1>1, <1>2, <3>3, DetectParts
    <3> QED BY <1>2, <1>5, <3>1, <3>2, <3>3, FrameParts
  <2>3. ASSUME NEW i \in 0..Len(inbox'[u]), ~Arranged(u, i)'
        PROVE  ~Arranged(u, i + 1)
    <3>1. \A j \in 1..i : inbox[u][j + 1].kind # "arrange"
      <4>1. \A j \in 1..i : inbox'[u][j].kind # "arrange"
        BY <2>3 DEF Arranged
      <4>2. ASSUME NEW j \in 1..i PROVE inbox'[u][j] = inbox[u][j + 1]
        <5>1. j \in 1..Len(inbox'[u])
          BY <1>2, <2>3
        <5> QED BY <1>2, <5>1
      <4> QED BY <4>1, <4>2
    <3>2. \A j \in 1..(i + 1) : j = 1 \/ (j - 1 \in 1..i /\ inbox[u][(j - 1) + 1] = inbox[u][j])
      BY <1>2
    <3> QED BY <1>2, <1>5, <3>1, <3>2 DEF Arranged
  <2>4. NumberIsGiven(u)'
    <3>1. SUFFICES ASSUME ~unit'[u].wait, ~Arranged(u, Len(inbox[u]))'
                   PROVE  /\ unit'[u].registered => given[unit'[u].num] = u
                          /\ \A i \in 1..Len(inbox'[u]) : inbox'[u][i].kind = "confirm" =>
                               given[inbox'[u][i].num] = inbox'[u][i].id
      BY <1>3 DEF NumberIsGiven
    <3>2. ~Arranged(u, Len(inbox[u]))
      <4>1. \A k : k = Len(inbox'[u]) => ~Arranged(u, k)'
        BY <3>1 DEF Arranged
      <4> QED BY <1>2, <2>3, <4>1
    <3>3. /\ unit[u].registered => given[unit[u].num] = u
          /\ \A i \in 1..Len(inbox[u]) : inbox[u][i].kind = "confirm" => given[inbox[u][i].num] = inbox[u][i].id
      BY <2>1, <2>2, <3>1, <3>2 DEF NumberIsGiven
    <3>4. \A i \in 1..Len(inbox'[u]) : i + 1 \in 1..Len(inbox[u]) /\ inbox'[u][i] = inbox[u][i + 1]
      BY <1>2
    <3>5. f.kind = "confirm" => given[f.num] = f.id
      BY <1>2, <3>3
    <3> QED BY <2>2, <3>3, <3>4, <3>5
  <2>5. ASSUME NEW i \in 1..Len(inbox'[u]), inbox'[u][i].kind = "request", MayHold(u, i)'
        PROVE  MayHold(u, i + 1)
    <3>1. inbox'[u][i] = inbox[u][i + 1] /\ i \in Nat
      BY <1>2
    <3>2. ~unit[u].wait /\ ~Arranged(u, i + 1)
      BY <1>2, <2>2, <2>3, <2>5 DEF MayHold
    <3> DEFINE n == inbox[u][i + 1].num
    <3>3. CASE unit'[u].registered /\ unit'[u].num = n
      <4>1. CASE unit'[u].registered = unit[u].registered /\ unit'[u].num = unit[u].num
        BY <3>2, <3>3, <4>1 DEF MayHold
      <4>2. CASE f.kind = "confirm" /\ unit'[u].num = f.num /\ f.id = u
        <5>1. 1 \in 1..(i + 1) /\ inbox[u][1].kind = "confirm" /\ inbox[u][1].num = n /\ inbox[u][1].id = u
          BY <1>2, <3>1, <3>3, <4>2
        <5> QED BY <3>2, <5>1 DEF MayHold
      <4> QED BY <2>2, <4>1, <4>2
    <3>4. CASE \E j \in 1..i : inbox'[u][j].kind = "confirm" /\ inbox'[u][j].num = n /\ inbox'[u][j].id = u
      <4>1. PICK j \in 1..i : inbox'[u][j].kind = "confirm" /\ inbox'[u][j].num = n /\ inbox'[u][j].id = u
        BY <3>4
      <4>2. j + 1 \in 1..(i + 1) /\ inbox'[u][j] = inbox[u][j + 1]
        BY <1>2, <3>1
      <4> QED BY <3>2, <4>1, <4>2 DEF MayHold
    <3> QED BY <2>5, <3>1, <3>3, <3>4 DEF MayHold
  <2> QED BY <2>1, <2>4, <2>5
<1> QED BY <1>4, <1>5

LEMMA PassKeeps ==
  ASSUME UnitInv, NEW u \in Units, Pass(u)
  PROVE  UnitInv'
<1> DEFINE f == Head(inbox[u])
<1>1. /\ f \in Frames /\ f = inbox[u][1] /\ inbox[u] \in Seq(Frames)
      /\ inbox' \in [Units -> Seq(Frames)] /\ unit' \in [Units -> UnitStates] /\ answer' \in [Units -> Answers]
      /\ Len(inbox'[u]) = Len(inbox[u]) - 1 /\ Len(inbox[u]) \in Nat \ {0}
      /\ \A i \in 1..Len(inbox'[u]) : inbox'[u][i] = inbox[u][i + 1]
      /\ \A v \in Units \ {u} : inbox'[v] = inbox[v] /\ unit'[v] = unit[v] /\ answer'[v] = answer[v]
      /\ f.kind = "request" => unit'[u] = unit[u] /\ answer'[u] = Replied(u, f)
      /\ f.kind # "request" => unit'[u] = get_package_online_detect(u, f).s /\ answer'[u] = get_package_online_detect(u, f).a
  <2>1. TypeOK /\ inbox[u] \in Seq(Frames)
    BY DEF UnitInv, TypeOK
  <2> QED BY <2>1, Passed
<1>2. UNCHANGED <<heard, given, replied, used>> /\ stray' = IF Cancels(f) THEN stray \ {u} ELSE stray
  BY DEF Pass
<1> HIDE DEF f
<1>3. TypeOK /\ TypeOK'
  <2>1. TypeOK /\ stray' \subseteq Units
    BY <1>2 DEF UnitInv, TypeOK
  <2>2. ASSUME NEW v \in Units
        PROVE  Len(inbox'[v]) <= MaxWaiting
    <3>1. Len(inbox[v]) <= MaxWaiting /\ MaxWaiting \in Nat
      BY <2>1, DiscoveryAssumption DEF TypeOK
    <3>2. Len(inbox[u]) <= MaxWaiting
      BY <2>1 DEF TypeOK
    <3>3. CASE v = u
      BY <1>1, <3>1, <3>2, <3>3
    <3>4. CASE v # u
      BY <1>1, <3>1, <3>4
    <3> QED BY <3>3, <3>4
  <2> QED BY <1>1, <1>2, <2>1, <2>2 DEF TypeOK, UnitStates
<1>4. ASSUME AmsAuto, NEW v \in Units \ stray'
      PROVE  NumberIsGiven(v)'
  <2>1. CASE v = u
    BY <1>4, <2>1, PassHolds
  <2>2. CASE v # u
    BY <1>1, <1>2, <1>4, <2>2, OthersHold DEF UnitInv
  <2> QED BY <2>1, <2>2
<1>5. ASSUME ~AmsAuto, NEW v \in Units
      PROVE  unit'[v].num = Letter[v]
  <2>1. CASE v = u
    <3>1. unit'[u].num = unit[u].num
      BY <1>1, <1>3, <1>5, DetectParts
    <3> QED BY <1>5, <2>1, <3>1 DEF UnitInv
  <2>2. CASE v # u
    BY <1>1, <1>5, <2>2 DEF UnitInv
  <2> QED BY <2>1, <2>2
<1>6. PICK h \in Units \cup {None} : For(h)
  BY DEF UnitInv
<1>7. ASSUME NEW v \in Units, NEW i \in 1..Len(inbox'[v]), LastOf(v, i)', Addressed(v, i)'
      PROVE  v = h
  <2>1. CASE v = u
    <3>1. i + 1 \in 1..Len(inbox[u]) /\ inbox'[u][i] = inbox[u][i + 1]
      BY <1>1, <2>1
    <3>2. LastOf(u, i + 1)
      BY <1>7, <2>1, <3>1 DEF LastOf
    <3>3. Addressed(u, i + 1)
      <4>1. CASE AmsAuto
        BY <1>7, <2>1, <4>1, PassHolds DEF Addressed, LastOf
      <4>2. CASE ~AmsAuto
        BY <1>7, <2>1, <3>1, <4>2 DEF Addressed
      <4> QED BY <4>1, <4>2
    <3> QED BY <1>6, <2>1, <3>1, <3>2, <3>3 DEF For
  <2>2. CASE v # u
    <3>1. inbox'[v] = inbox[v] /\ unit'[v] = unit[v] /\ (v \in stray <=> v \in stray')
      BY <1>1, <1>2, <2>2
    <3>2. LastOf(v, i) /\ i \in 1..Len(inbox[v])
      BY <1>7, <3>1 DEF LastOf
    <3>3. Addressed(v, i)
      BY <1>2, <1>7, <3>1, OthersHold DEF Addressed
    <3> QED BY <1>6, <3>2, <3>3 DEF For
  <2> QED BY <2>1, <2>2
<1>8. ASSUME NEW v \in Units, answer'[v].kind = "reply", answer'[v].last
      PROVE  v = h
  <2>1. CASE v = u
    <3>1. f.kind = "request"
      BY <1>1, <1>3, <1>8, <2>1, DetectParts
    <3>2. f.last /\ u \notin stray /\ Admitted(unit[u]) /\ f.num = unit[u].num
      BY <1>1, <1>3, <1>8, <2>1, <3>1, RepliedParts
    <3>3. 1 \in 1..Len(inbox[u]) /\ LastOf(u, 1)
      BY <1>1, <3>1, <3>2 DEF LastOf
    <3>4. Addressed(u, 1)
      <4>1. CASE AmsAuto
        <5>1. ~Arranged(u, 1)
          BY <1>1, <3>1 DEF Arranged
        <5> QED BY <1>1, <3>2, <4>1, <5>1 DEF Addressed, MayHold, Admitted
      <4>2. CASE ~AmsAuto
        BY <1>1, <3>2, <4>2 DEF Addressed, UnitInv
      <4> QED BY <4>1, <4>2
    <3> QED BY <1>6, <2>1, <3>3, <3>4 DEF For
  <2>2. CASE v # u
    BY <1>1, <1>6, <1>8, <2>2 DEF For
  <2> QED BY <2>1, <2>2
<1>9. replied' \subseteq {h}
  BY <1>2, <1>6 DEF For
<1>10. For(h)'
  BY <1>7, <1>8, <1>9 DEF For
<1> QED BY <1>3, <1>4, <1>5, <1>10 DEF UnitInv

LEMMA SendKeeps ==
  ASSUME UnitInv, NEW u \in Units, NEW hears \in BOOLEAN, Send(u, hears)
  PROVE  UnitInv'
<1>1. /\ answer' = [answer EXCEPT ![u] = NoAnswer]
      /\ heard' = IF hears /\ answer[u].kind = "found" THEN [heard EXCEPT ![u] = answer[u].prefix] ELSE heard
      /\ replied' = IF answer[u].kind = "reply" /\ answer[u].last THEN replied \cup {u} ELSE replied
      /\ UNCHANGED <<unit, inbox, given, stray, used>>
  BY DEF Send
<1>2. TypeOK /\ TypeOK'
  <2>1. TypeOK /\ answer[u] \in Answers /\ NoAnswer \in Answers
    BY DEF UnitInv, TypeOK, Answers
  <2>2. heard' \in [Units -> Prefixes \cup {None}]
    BY <1>1, <2>1, AnswerParts DEF TypeOK
  <2> QED BY <1>1, <2>1, <2>2 DEF TypeOK
<1>3. AmsAuto => \A v \in Units \ stray' : NumberIsGiven(v)'
  BY <1>1 DEF UnitInv, NumberIsGiven, Arranged
<1>4. PICK h \in Units \cup {None} : For(h)
  BY DEF UnitInv
<1>5. For(h)'
  <2>1. \A v \in Units : \A i \in 1..Len(inbox'[v]) : LastOf(v, i)' /\ Addressed(v, i)' => v = h
    BY <1>1, <1>4 DEF For, LastOf, Addressed, MayHold, Arranged
  <2>2. ASSUME NEW v \in Units, answer'[v].kind = "reply", answer'[v].last
        PROVE  v = h
    BY <1>1, <1>2, <1>4, <2>2 DEF For, NoAnswer, TypeOK
  <2>3. replied' \subseteq {h}
    BY <1>1, <1>4 DEF For
  <2> QED BY <2>1, <2>2, <2>3 DEF For
<1> QED BY <1>1, <1>2, <1>3, <1>5 DEF UnitInv

\* A unit whose port is empty, that has no answer and no number, is bound to nothing.
LEMMA Silent ==
  ASSUME NEW u \in Units, inbox'[u] = << >>, ~unit'[u].registered
  PROVE  NumberIsGiven(u)' /\ \A i \in 1..Len(inbox'[u]) : FALSE
BY DEF NumberIsGiven

LEMMA RestartKeeps ==
  ASSUME UnitInv, NEW u \in Units, Restart(u)
  PROVE  UnitInv'
<1>1. PICK s \in Reset(u) : unit' = [unit EXCEPT ![u] = s]
  BY DEF Restart
<1>2. /\ inbox' = [inbox EXCEPT ![u] = << >>] /\ answer' = [answer EXCEPT ![u] = NoAnswer]
      /\ stray' = stray \ {u} /\ UNCHANGED <<heard, given, replied>>
      /\ used.restarts < MaxRestarts /\ used' = [used EXCEPT !.restarts = @ + 1]
  BY DEF Restart
<1>3. TypeOK /\ s \in UnitStates /\ ~s.registered /\ ~s.wait /\ (~AmsAuto => s.num = Letter[u])
  BY ResetTypes DEF UnitInv
<1>4. /\ inbox'[u] = << >> /\ unit'[u] = s /\ answer'[u] = NoAnswer
      /\ \A v \in Units \ {u} : inbox'[v] = inbox[v] /\ unit'[v] = unit[v] /\ answer'[v] = answer[v]
  BY <1>1, <1>2, <1>3 DEF TypeOK
<1>5. TypeOK'
  <2>1. used' \in [arranges : 0 .. MaxArranges, restarts : 0 .. MaxRestarts]
    <3>1. used \in [arranges : 0 .. MaxArranges, restarts : 0 .. MaxRestarts] /\ used.restarts + 1 \in 0 .. MaxRestarts
      BY <1>2, <1>3, DiscoveryAssumption DEF TypeOK
    <3> QED BY <1>2, <3>1
  <2>2. unit' \in [Units -> UnitStates] /\ answer' \in [Units -> Answers]
    BY <1>1, <1>2, <1>3 DEF TypeOK, UnitStates, Answers
  <2>3. inbox' \in [Units -> Seq(Frames)] /\ \A v \in Units : Len(inbox'[v]) <= MaxWaiting
    <3>1. << >> \in Seq(Frames) /\ Len(<< >>) = 0 /\ MaxWaiting \in Nat
      BY DiscoveryAssumption
    <3>2. \A v \in Units : inbox[v] \in Seq(Frames) /\ Len(inbox[v]) <= MaxWaiting
      BY <1>3 DEF TypeOK
    <3>3. \A v \in Units : Len(inbox'[v]) <= MaxWaiting
      <4>1. Len(inbox'[u]) <= MaxWaiting
        BY <1>4, <3>1
      <4> QED BY <1>4, <3>2, <4>1
    <3> QED BY <1>2, <1>3, <3>1, <3>3 DEF TypeOK
  <2> QED BY <1>2, <1>3, <2>1, <2>2, <2>3 DEF TypeOK, UnitStates
<1>6. ASSUME AmsAuto, NEW v \in Units \ stray'
      PROVE  NumberIsGiven(v)'
  <2>1. CASE v = u
    BY <1>3, <1>4, <2>1, Silent
  <2>2. CASE v # u
    BY <1>2, <1>4, <1>6, <2>2, OthersHold DEF UnitInv
  <2> QED BY <2>1, <2>2
<1>7. ~AmsAuto => \A v \in Units : unit'[v].num = Letter[v]
  BY <1>3, <1>4 DEF UnitInv
<1>8. PICK h \in Units \cup {None} : For(h)
  BY DEF UnitInv
<1>9. For(h)'
  <2>1. ASSUME NEW v \in Units, NEW i \in 1..Len(inbox'[v]), LastOf(v, i)', Addressed(v, i)'
        PROVE  v = h
    <3>1. v # u
      BY <1>3, <1>4, <2>1, Silent
    <3>2. inbox'[v] = inbox[v] /\ unit'[v] = unit[v] /\ (v \in stray <=> v \in stray')
      BY <1>2, <1>4, <3>1
    <3>3. LastOf(v, i) /\ i \in 1..Len(inbox[v])
      BY <2>1, <3>2 DEF LastOf
    <3>4. Addressed(v, i)
      BY <1>2, <2>1, <3>2, OthersHold DEF Addressed
    <3> QED BY <1>8, <3>3, <3>4 DEF For
  <2>2. ASSUME NEW v \in Units, answer'[v].kind = "reply", answer'[v].last
        PROVE  v = h
    BY <1>4, <1>8, <2>2 DEF For, NoAnswer
  <2>3. replied' \subseteq {h}
    BY <1>2, <1>8 DEF For
  <2> QED BY <2>1, <2>2, <2>3 DEF For
<1> QED BY <1>5, <1>6, <1>7, <1>8, <1>9 DEF UnitInv

LEMMA LinkLostKeeps ==
  ASSUME UnitInv, NEW u \in Units, LinkLost(u)
  PROVE  UnitInv'
<1> DEFINE s == [unit[u] EXCEPT !.registered = FALSE, !.prefix = First, !.phase = 0]
<1>1. /\ ~AmsAuto /\ unit' = [unit EXCEPT ![u] = s]
      /\ used.restarts < MaxRestarts /\ used' = [used EXCEPT !.restarts = @ + 1]
      /\ UNCHANGED <<inbox, answer, heard, given, replied, stray>>
  BY DEF LinkLost
<1>2. TypeOK /\ unit[u] \in UnitStates
  BY DEF UnitInv, TypeOK, UnitStates
<1>3. s \in UnitStates
  <2>1. First \in Prefixes /\ 0 \in 0 .. 3
    BY <1>1 DEF Prefixes
  <2> QED BY <1>2, <2>1, Zenon DEF UnitStates
<1>4. s.num = unit[u].num
  BY <1>2 DEF UnitStates
<1> HIDE DEF s
<1>5. TypeOK'
  <2>1. used' \in [arranges : 0 .. MaxArranges, restarts : 0 .. MaxRestarts]
    <3>1. used \in [arranges : 0 .. MaxArranges, restarts : 0 .. MaxRestarts] /\ used.restarts + 1 \in 0 .. MaxRestarts
      BY <1>1, <1>2, DiscoveryAssumption DEF TypeOK
    <3> QED BY <1>1, <3>1
  <2>2. unit' \in [Units -> UnitStates]
    BY <1>1, <1>2, <1>3 DEF TypeOK, UnitStates
  <2> QED BY <1>1, <1>2, <2>1, <2>2 DEF TypeOK, UnitStates
<1>6. \A v \in Units : unit'[v].num = Letter[v]
  BY <1>1, <1>2, <1>4 DEF UnitInv, TypeOK
<1>7. PICK h \in Units \cup {None} : For(h)
  BY DEF UnitInv
<1>8. For(h)'
  BY <1>1, <1>7 DEF For, LastOf, Addressed
<1> QED BY <1>1, <1>5, <1>6, <1>7, <1>8 DEF UnitInv

-----------------------------------------------------------------------------
LEMMA UnitInitially == Init => UnitInv
<1> SUFFICES ASSUME Init
             PROVE  UnitInv
  OBVIOUS
<1>1. \A u \in Units : unit[u] \in Reset(u) /\ inbox[u] = << >> /\ answer[u] = NoAnswer
  BY DEF Init
<1>2. \A u \in Units : unit[u] \in UnitStates /\ ~unit[u].registered /\ (~AmsAuto => unit[u].num = Letter[u])
  BY <1>1, ResetTypes
<1>3. unit \in [Units -> UnitStates]
  <2>1. unit \in [Units -> UNION {Reset(u) : u \in Units}]
    BY DEF Init
  <2> QED BY <1>2, <2>1
<1>4. TypeOK
  <2>1. << >> \in Seq(Frames) /\ Len(<< >>) <= MaxWaiting /\ 0 \in 0 .. MaxArranges /\ 0 \in 0 .. MaxRestarts
    BY DiscoveryAssumption
  <2>2. NoAnswer \in Answers
    BY DEF Answers
  <2> QED BY <1>1, <1>3, <2>1, <2>2 DEF Init, TypeOK, UnitStates
<1>5. \A u \in Units : NumberIsGiven(u)
  BY <1>1, <1>2 DEF NumberIsGiven
<1>6. For(None)
  BY <1>1 DEF For, NoAnswer, Init
<1> QED BY <1>2, <1>4, <1>5, <1>6 DEF UnitInv

LEMMA UnitInvKept == UnitInv /\ [Next]_vars => UnitInv'
<1> SUFFICES ASSUME UnitInv, [Next]_vars
             PROVE  UnitInv'
  OBVIOUS
<1>1. CASE Probe
  BY <1>1, ProbeKeeps
<1>2. CASE Request
  BY <1>2, RequestKeeps
<1>3. CASE Arrange
  BY <1>3, ArrangeKeeps
<1>4. ASSUME NEW u \in Units, NEW to \in Reached, Confirm(u, to)
      PROVE  UnitInv'
  BY <1>4, ConfirmKeeps
<1>5. ASSUME NEW u \in Units, Pass(u)
      PROVE  UnitInv'
  BY <1>5, PassKeeps
<1>6. ASSUME NEW u \in Units, Restart(u)
      PROVE  UnitInv'
  BY <1>6, RestartKeeps
<1>7. ASSUME NEW u \in Units, LinkLost(u)
      PROVE  UnitInv'
  BY <1>7, LinkLostKeeps
<1>8. ASSUME NEW u \in Units, NEW hears \in BOOLEAN, Send(u, hears)
      PROVE  UnitInv'
  BY <1>8, SendKeeps
<1>9. CASE UNCHANGED vars
  <2>1. /\ unit' = unit /\ inbox' = inbox /\ answer' = answer /\ heard' = heard /\ given' = given
        /\ replied' = replied /\ stray' = stray /\ used' = used
    BY <1>9 DEF vars, units
  <2>2. TypeOK'
    BY <2>1 DEF UnitInv, TypeOK
  <2>3. \A u \in Units : NumberIsGiven(u)' <=> NumberIsGiven(u)
    BY <2>1 DEF NumberIsGiven, Arranged
  <2>4. \A h : For(h) => For(h)'
    BY <2>1 DEF For, LastOf, Addressed, MayHold, Arranged
  <2> QED BY <2>1, <2>2, <2>3, <2>4 DEF UnitInv
<1> QED BY <1>1, <1>2, <1>3, <1>4, <1>5, <1>6, <1>7, <1>8, <1>9 DEF Next

(* Of the units that missed no arrange command no two answer one request    *)
(* of the printer, for any number of units and numbers, and whatever is     *)
(* lost, late, restarted or given again (get_package_online_detect and the  *)
(* gate of bambubus_run).                                                   *)
THEOREM OneAnswer == Spec => []OneUnitAnswers
<1>1. Spec => []UnitInv
  BY UnitInitially, UnitInvKept, PTL DEF Spec
<1>2. UnitInv => OneUnitAnswers
  <2>1. SUFFICES ASSUME NEW h, replied \subseteq {h}
                 PROVE  Cardinality(replied) <= 1
    BY DEF UnitInv, For, OneUnitAnswers
  <2>2. CASE replied = {}
    <3>1. Cardinality(replied) = 0
      BY <2>2, FS_EmptySet
    <3> QED BY <3>1
  <2>3. CASE replied = {h}
    <3>1. Cardinality(replied) = 1
      BY <2>3, FS_Singleton
    <3> QED BY <3>1
  <2> QED BY <2>1, <2>2, <2>3
<1> QED BY <1>1, <1>2, PTL

-----------------------------------------------------------------------------
(* The ring.  A sample says the truth because counter and flag together    *)
(* always tell where the hardware is, the flag only rises while interrupts *)
(* are off, and a sample is taken only if the flag was the same before and *)
(* after the counter was read.  On a paced line what is unread grows by    *)
(* one byte at most until the drain takes one: a ring not overrun when the *)
(* drain begins is not overrun until it ends.                              *)

(* Where the hardware writes next, by its counter, flag and the rounds. *)
HwPos == (wraps + (IF flag \/ late THEN 1 ELSE 0)) * Size + (IF remaining = 0 THEN 0 ELSE Size - remaining)

LateByte == IF quiet THEN 0 ELSE 1
InSample == Sampling \cup {"sampled"}

(* What was read of the counter is where the hardware was in this sample. *)
ReadIsTrue ==
  \E n \in (unread - since)..unread : Count(read, flag) = (consumed + n) % CountRange

RingInv ==
  /\ RingTypeOK
  /\ late => remaining = 0 /\ ~flag
  /\ (consumed + unread) % CountRange = HwPos % CountRange
  /\ (end - consumed) % CountRange <= unread
  /\ step = "poll" => end = consumed
  /\ step = "take" => end # consumed
  /\ step \in InSample => since <= unread /\ (paced => since <= LateByte)
  /\ step \in {"remaining", "after"} /\ before => flag
  /\ step = "after" /\ ~Torn(before, read, flag) => ReadIsTrue
  /\ paced /\ end # consumed => unread <= Size - 1 + LateByte
  /\ SampleIsTrue

\* A remainder is known by its range.
LEMMA ModIs ==
  ASSUME NEW n \in Nat \ {0}, NEW q \in Int, NEW r \in 0..(n - 1)
  PROVE  (n * q + r) % n = r
<1> DEFINE x == n * q + r
           p == x \div n
           s == x % n
<1>1. x \in Int
  BY SMT
<1>2. x = n * p + s /\ s \in 0..(n - 1) /\ p \in Int
  BY <1>1, SMT
<1> HIDE DEF p, s
<1>3. \A a, b \in Int : a >= b + 1 => n * a >= n * b + n
  <2>1. ASSUME NEW a \in Int, NEW b \in Int, a >= b + 1 PROVE n * a >= n * b + n
    <3>1. n * (a - b - 1) >= 0
      BY <2>1, SMT
    <3>2. n * (a - b - 1) = n * a - n * b - n
      BY SMT
    <3>3. n * a \in Int /\ n * b \in Int
      BY SMT
    <3> QED BY <3>1, <3>2, <3>3
  <2> QED BY <2>1
<1>4. n * p \in Int /\ n * q \in Int
  BY <1>2, SMT
<1>5. p = q
  <2>1. ~(p >= q + 1)
    BY <1>2, <1>3, <1>4
  <2>2. ~(q >= p + 1)
    BY <1>2, <1>3, <1>4
  <2> QED BY <1>2, <2>1, <2>2
<1>6. s = r
  BY <1>2, <1>4, <1>5
<1> QED BY <1>6 DEF s

SmallMod(x, n) ==
  /\ x % n \in 0..(n - 1)
  /\ x \in 0..(n - 1) => x % n = x
  /\ x \in n..(2 * n - 1) => x % n = x - n
  /\ x \in (1 - n)..(-1) => x % n = x + n

\* Remainders of small numbers.
LEMMA ModSmall ==
  ASSUME NEW n \in Nat \ {0}, NEW x \in Int
  PROVE  SmallMod(x, n)
<1>1. x % n \in 0..(n - 1)
  BY ModRange
<1>2. ASSUME x \in 0..(n - 1) PROVE x % n = x
  <2>1. n * 0 + x = x
    BY SMT
  <2> QED BY <1>2, <2>1, ModIs
<1>3. ASSUME x \in n..(2 * n - 1) PROVE x % n = x - n
  <2>1. n * 1 + (x - n) = x /\ x - n \in 0..(n - 1)
    BY <1>3, SMT
  <2> QED BY <2>1, ModIs
<1>4. ASSUME x \in (1 - n)..(-1) PROVE x % n = x + n
  <2>1. n * (-1) + (x + n) = x /\ x + n \in 0..(n - 1)
    BY <1>4, SMT
  <2> QED BY <2>1, ModIs
<1> QED BY <1>1, <1>2, <1>3, <1>4 DEF SmallMod

\* The next number has the next remainder.
LEMMA ModNext ==
  ASSUME NEW n \in Nat, n > 1, NEW x \in 0..(2 * n - 2)
  PROVE  (x + 1) % n = IF x % n = n - 1 THEN 0 ELSE (x % n) + 1
<1>1. n \in Nat \ {0} /\ x \in Int /\ x + 1 \in Int
  OBVIOUS
<1>2. SmallMod(x, n) /\ SmallMod(x + 1, n)
  BY <1>1, ModSmall
<1> QED BY <1>1, <1>2 DEF SmallMod

\* The ring's numbers: what is unread is less than the range, and a round is a part of it.
LEMMA CountFacts ==
  /\ CountRange \in Nat /\ CountRange > 1 /\ Size \in Nat /\ Size > 1 /\ Size < CountRange /\ Ahead \in Nat /\ Ahead < CountRange
  /\ \A w \in 0..(Rounds - 1) : /\ w * Size \in 0..(CountRange - Size)
                                /\ (w + 1) * Size = w * Size + Size
                                /\ (w + 0) * Size = w * Size
                                /\ w + 1 = Rounds => w * Size + Size = CountRange
                                /\ w + 1 # Rounds => w + 1 \in 0..(Rounds - 1)
                                /\ (w + 1) % Rounds = IF w + 1 = Rounds THEN 0 ELSE w + 1
<1>1. Size \in Nat /\ Rounds \in Nat /\ Ahead \in Nat /\ Size > 1 /\ Rounds > 2 /\ Ahead < Size * (Rounds - 1)
  BY RingAssumption
<1>2. CountRange \in Int /\ Size * (Rounds - 1) = CountRange - Size
  <2>1. Size * (Rounds - 1) = Size * Rounds - Size /\ Size * Rounds \in Int
    BY <1>1, SMT
  <2> QED BY <2>1, Zenon DEF CountRange
<1>3. Size * (Rounds - 1) >= Size * 2 /\ Size * 2 = Size + Size
  BY <1>1, SMT
<1>4. CountRange \in Nat /\ CountRange > 1 /\ Size < CountRange /\ Ahead < CountRange
  BY <1>1, <1>2, <1>3
<1>5. ASSUME NEW w \in 0..(Rounds - 1)
      PROVE  /\ w * Size \in 0..(CountRange - Size)
             /\ (w + 1) * Size = w * Size + Size
             /\ (w + 0) * Size = w * Size
             /\ w + 1 = Rounds => w * Size + Size = CountRange
             /\ w + 1 # Rounds => w + 1 \in 0..(Rounds - 1)
             /\ (w + 1) % Rounds = IF w + 1 = Rounds THEN 0 ELSE w + 1
  <2>1. w * Size \in Nat /\ (w + 1) * Size = w * Size + Size
    BY <1>1, SMT
  <2>2. Size * (Rounds - 1 - w) >= 0
    BY <1>1, SMT
  <2>3. Size * (Rounds - 1 - w) = Size * (Rounds - 1) - w * Size
    BY <1>1, SMT
  <2>4. w * Size \in 0..(CountRange - Size)
    BY <1>1, <1>2, <2>1, <2>2, <2>3
  <2>5. w + 1 = Rounds => w * Size + Size = CountRange
    <3>1. CountRange = Rounds * Size
      <4>1. Size * Rounds = Rounds * Size
        BY <1>1, SMT
      <4> QED BY <4>1, Zenon DEF CountRange
    <3> QED BY <2>1, <3>1
  <2>6. (w + 1) % Rounds = IF w + 1 = Rounds THEN 0 ELSE w + 1
    <3>1. w + 1 \in Int /\ Rounds \in Nat \ {0}
      BY <1>1
    <3>2. SmallMod(w + 1, Rounds)
      BY <3>1, ModSmall
    <3> QED BY <1>1, <3>1, <3>2 DEF SmallMod
  <2> QED BY <1>1, <2>1, <2>4, <2>5, <2>6
<1> QED BY <1>1, <1>4, <1>5

\* By how far one position is before another, going round.
LEMMA Ahead2 ==
  ASSUME NEW n \in Nat, n > 1, NEW c \in 0..(n - 1), NEW k \in 0..(n - 1)
  PROVE  /\ (c + k) % n \in 0..(n - 1)
         /\ (((c + k) % n) - c) % n = k
         /\ (c + k) % n = c => k = 0
<1>1. n \in Nat \ {0} /\ c + k \in Int
  OBVIOUS
<1>2. SmallMod(c + k, n)
  BY <1>1, ModSmall
<1> DEFINE p == (c + k) % n
<1>3. p \in 0..(n - 1) /\ (p = c + k \/ p = c + k - n)
  BY <1>2 DEF SmallMod
<1> HIDE DEF p
<1>4. SmallMod(p - c, n)
  BY <1>3, ModSmall
<1>5. (p - c) % n = k /\ (p = c => k = 0)
  BY <1>3, <1>4 DEF SmallMod
<1> QED BY <1>3, <1>5 DEF p

LEMMA HwFacts ==
  ASSUME RingInv
  PROVE  /\ HwPos \in 0..(CountRange + Size - 1) /\ wraps * Size \in 0..(CountRange - Size)
         /\ HwPos = wraps * Size + (IF flag \/ late THEN Size ELSE 0)
                                 + (IF remaining = 0 THEN 0 ELSE Size - remaining)
<1>1. wraps \in 0..(Rounds - 1) /\ remaining \in 0..Size /\ Size \in Nat /\ Size > 1
  BY CountFacts DEF RingInv, RingTypeOK
<1>2. /\ wraps * Size \in 0..(CountRange - Size) /\ (wraps + 1) * Size = wraps * Size + Size
      /\ (wraps + 0) * Size = wraps * Size
  BY <1>1, CountFacts
<1>3. HwPos = wraps * Size + (IF flag \/ late THEN Size ELSE 0)
              + (IF remaining = 0 THEN 0 ELSE Size - remaining)
  BY <1>2 DEF HwPos
<1> DEFINE w == wraps * Size
<1> HIDE DEF w
<1>4. w \in 0..(CountRange - Size) /\ HwPos = w + (IF flag \/ late THEN Size ELSE 0)
              + (IF remaining = 0 THEN 0 ELSE Size - remaining)
  BY <1>2, <1>3 DEF w
<1>5. HwPos \in 0..(CountRange + Size - 1)
  BY <1>1, <1>4, CountFacts
<1> QED BY <1>2, <1>3, <1>5

LEMMA RingInitially == RingInit => RingInv
<1> SUFFICES ASSUME RingInit PROVE RingInv OBVIOUS
<1>1. Size \in Nat /\ Size > 1 /\ Ahead \in Nat /\ CountRange \in Nat /\ CountRange > 1 /\ Rounds \in Nat /\ Rounds > 2
  BY CountFacts, RingAssumption
<1>2. RingTypeOK
  <2>1. /\ Size \in 0..Size /\ 0 \in 0..(Rounds - 1) /\ 0 \in 0..Ahead /\ 0 \in 0..(CountRange - 1)
        /\ 0 \in 0..Size /\ 0 \in 0..3
    BY <1>1
  <2> QED BY <2>1, Zenon DEF RingInit, RingTypeOK
<1>3. HwPos = 0
  <2>1. HwPos = (0 + 0) * Size + (Size - Size)
    BY <1>1 DEF RingInit, HwPos
  <2> QED BY <1>1, <2>1
<1>4. 0 + 0 = 0 /\ 0 - 0 = 0
  OBVIOUS
<1>5. SmallMod(0, CountRange)
  BY <1>1, ModSmall
<1>6. (end - consumed) % CountRange = 0 /\ (consumed + unread) % CountRange = HwPos % CountRange
  BY <1>1, <1>3, <1>4, <1>5 DEF RingInit, SmallMod
<1> QED BY <1>1, <1>2, <1>6 DEF RingInit, RingInv, SampleIsTrue, InSample, Sampling

\* A byte on the line: the counter, its flag and the bytes unread go on together.
LEMMA ByteKeeps ==
  ASSUME RingInv, Byte
  PROVE  RingInv'
<1>1. /\ RingTypeOK /\ remaining > 0 /\ unread < Ahead /\ UNCHANGED <<paced, wraps, loop>>
      /\ remaining' = remaining - 1 /\ unread' = unread + 1 /\ quiet' = FALSE
      /\ remaining = 1 => ~flag
      /\ late' \in IF remaining = 1 THEN BOOLEAN ELSE {FALSE}
      /\ flag' = (flag \/ (remaining = 1 /\ ~late'))
      /\ since' = IF Masked \/ step = "sampled" THEN since + 1 ELSE 0
      /\ paced /\ step # "poll" => quiet
  BY DEF RingInv, Byte
<1>2. /\ consumed' = consumed /\ produced' = produced /\ end' = end /\ step' = step /\ before' = before
      /\ read' = read /\ retry' = retry /\ paced' = paced /\ wraps' = wraps
  BY <1>1 DEF loop
<1>3. ~late /\ late' \in BOOLEAN /\ (late' => remaining' = 0 /\ ~flag')
  <2>1. ~late
    BY <1>1 DEF RingInv
  <2>2. late' \in BOOLEAN /\ (late' => remaining = 1)
    BY <1>1, Zenon
  <2>3. late' => ~flag'
    BY <1>1, <2>2, Zenon
  <2>4. remaining = 1 => remaining' = 0
    BY <1>1
  <2> QED BY <2>1, <2>2, <2>3, <2>4
<1>4. /\ Size \in Nat /\ Size > 1 /\ CountRange \in Nat /\ CountRange > 1 /\ Size < CountRange
      /\ Ahead \in Nat /\ Ahead < CountRange
  BY CountFacts
<1>5. step \in InSample => since <= unread /\ since' = since + 1
  BY <1>1 DEF RingInv, InSample, Masked
<1>6. RingTypeOK'
  <2>1. flag' \in BOOLEAN /\ quiet' \in BOOLEAN
    BY <1>1, Zenon DEF RingTypeOK
  <2>2. remaining' \in 0..Size /\ unread' \in 0..Ahead
    BY <1>1, <1>4 DEF RingTypeOK
  <2>3. since' \in 0..Ahead
    BY <1>1, <1>4, <1>5 DEF RingTypeOK, InSample, Masked
  <2> QED BY <1>1, <1>2, <1>3, <2>1, <2>2, <2>3, Zenon DEF RingTypeOK
<1>7. HwPos' = HwPos + 1
  <2>1. wraps \in 0..(Rounds - 1) /\ remaining \in 1..Size /\ flag \in BOOLEAN
    BY <1>1, <1>4 DEF RingTypeOK
  <2>2. (wraps + 1) * Size = wraps * Size + Size /\ (wraps + 0) * Size = wraps * Size
    BY <2>1, CountFacts
  <2>3. HwPos' = (wraps + (IF flag' \/ late' THEN 1 ELSE 0)) * Size
                 + (IF remaining' = 0 THEN 0 ELSE Size - remaining')
    BY <1>2 DEF HwPos
  <2>4. CASE remaining = 1
    <3>1. (flag' \/ late') /\ remaining' = 0 /\ ~flag
      <4>1. ~flag
        BY <1>1, <2>4
      <4>2. flag' \/ late'
        BY <1>1, <2>4, Zenon
      <4>3. remaining' = 0
        BY <1>1, <2>4
      <4> QED BY <4>1, <4>2, <4>3
    <3>2. HwPos' = wraps * Size + Size
      BY <2>2, <2>3, <3>1, <1>4, HwFacts
    <3>3. HwPos = wraps * Size + 0 + (Size - 1)
      BY <1>3, <2>4, <3>1, HwFacts
    <3> QED BY <1>4, <3>2, <3>3, HwFacts
  <2>5. CASE remaining # 1
    <3>1. flag' = flag /\ ~late' /\ remaining' = remaining - 1 /\ remaining' # 0
      BY <1>1, <2>1, <2>5
    <3>2. HwPos' = wraps * Size + (IF flag THEN Size ELSE 0) + (Size - (remaining - 1))
      BY <2>2, <2>3, <3>1, <1>4, HwFacts
    <3>3. HwPos = wraps * Size + (IF flag THEN Size ELSE 0) + (Size - remaining)
      BY <1>3, <2>1, HwFacts
    <3> QED BY <1>4, <2>1, <3>2, <3>3, HwFacts
  <2> QED BY <2>4, <2>5
<1>8. (consumed' + unread') % CountRange = HwPos' % CountRange
  <2>1. consumed + unread \in 0..(2 * CountRange - 2) /\ HwPos \in 0..(2 * CountRange - 2)
    BY <1>1, <1>4, HwFacts DEF RingTypeOK
  <2>2. consumed' + unread' = (consumed + unread) + 1
    BY <1>1, <1>2 DEF RingTypeOK
  <2>3. (consumed + unread) % CountRange = HwPos % CountRange
    BY DEF RingInv
  <2>4. /\ ((consumed + unread) + 1) % CountRange
             = IF (consumed + unread) % CountRange = CountRange - 1 THEN 0 ELSE ((consumed + unread) % CountRange) + 1
        /\ (HwPos + 1) % CountRange
             = IF HwPos % CountRange = CountRange - 1 THEN 0 ELSE (HwPos % CountRange) + 1
    BY <1>4, <2>1, ModNext
  <2> QED BY <1>7, <2>2, <2>3, <2>4
<1>9. (end' - consumed') % CountRange <= unread'
  <2>1. (end - consumed) % CountRange <= unread /\ (end - consumed) % CountRange \in Int /\ unread \in Int
    BY <1>1, <1>4, ModRange DEF RingInv, RingTypeOK
  <2> QED BY <1>1, <1>2, <2>1
<1>10. step' \in InSample => since' <= unread' /\ (paced' => since' <= LateByte')
  <2>1. step \in InSample => (paced => quiet /\ since <= 0)
    BY <1>1 DEF RingInv, InSample, Sampling, LateByte
  <2> QED BY <1>1, <1>2, <1>5, <2>1 DEF RingTypeOK, LateByte
<1>11. ASSUME NEW p, \E n \in (unread - since)..unread : p = (consumed + n) % CountRange, step \in InSample
       PROVE  \E n \in (unread' - since')..unread' : p = (consumed' + n) % CountRange
  <2>1. PICK n \in (unread - since)..unread : p = (consumed + n) % CountRange
    BY <1>11
  <2>2. n \in (unread' - since')..unread'
    BY <1>1, <1>5, <1>11 DEF RingTypeOK
  <2> QED BY <1>2, <2>1, <2>2
<1>12. step' = "after" /\ ~Torn(before', read', flag') => ReadIsTrue'
  <2> SUFFICES ASSUME step = "after", ~Torn(before, read, flag') PROVE ReadIsTrue'
    BY <1>2
  <2>1. flag' = flag
    BY <1>1 DEF Torn, RingInv, RingTypeOK
  <2>2. ReadIsTrue
    BY <2>1 DEF RingInv
  <2>3. Count(read, flag)' = Count(read, flag)
    BY <1>2, <2>1 DEF Count
  <2> QED BY <1>2, <1>11, <2>1, <2>2, <2>3 DEF ReadIsTrue, InSample, Sampling
<1>13. SampleIsTrue'
  BY <1>2, <1>11 DEF RingInv, SampleIsTrue, InSample
<1>14. paced' /\ end' # consumed' => unread' <= Size - 1 + LateByte'
  <2>1. step = "poll" => end = consumed
    BY DEF RingInv
  <2>2. paced /\ end # consumed => quiet /\ unread <= Size - 1 + 0
    BY <1>1, <2>1 DEF RingInv, LateByte
  <2> QED BY <1>1, <1>2, <1>4, <2>2 DEF LateByte, RingTypeOK
<1>15. step' \in {"remaining", "after"} /\ before' => flag'
  BY <1>1, <1>2 DEF RingInv
<1>16. (step' = "poll" => end' = consumed') /\ (step' = "take" => end' # consumed')
  BY <1>2 DEF RingInv
<1> QED BY <1>3, <1>6, <1>8, <1>9, <1>10, <1>12, <1>13, <1>14, <1>15, <1>16 DEF RingInv

\* The reload of the counter and the interrupt move no position.
LEMMA ReloadKeeps ==
  ASSUME RingInv, Reload
  PROVE  RingInv'
<1>1. /\ RingTypeOK /\ remaining = 0 /\ remaining' = Size /\ flag' = (flag \/ late) /\ late' = FALSE
      /\ paced' = paced /\ wraps' = wraps /\ unread' = unread /\ since' = since /\ quiet' = quiet
      /\ consumed' = consumed /\ produced' = produced /\ end' = end /\ step' = step /\ before' = before
      /\ read' = read /\ retry' = retry
  BY DEF RingInv, Reload, loop
<1>2. Size \in Nat /\ Size > 1
  BY CountFacts
<1>3. flag' \in BOOLEAN /\ (flag => flag')
  BY <1>1, Zenon DEF RingTypeOK
<1>4. RingTypeOK'
  <2>1. remaining' \in 0..Size /\ late' \in BOOLEAN
    <3>1. Size \in 0..Size /\ FALSE \in BOOLEAN
      BY <1>2
    <3> QED BY <1>1, <3>1, Zenon
  <2> QED BY <1>1, <1>3, <2>1, Zenon DEF RingTypeOK
<1>5. HwPos' = HwPos
  <2>1. wraps \in 0..(Rounds - 1) /\ wraps * Size \in Int
    BY <1>1, HwFacts DEF RingTypeOK
  <2>2. (wraps + 1) * Size = wraps * Size + Size /\ (wraps + 0) * Size = wraps * Size
    BY <2>1, CountFacts
  <2>3. HwPos' = (wraps + (IF flag' \/ late' THEN 1 ELSE 0)) * Size
                 + (IF remaining' = 0 THEN 0 ELSE Size - remaining')
    BY <1>1 DEF HwPos
  <2>4. HwPos' = (wraps + (IF flag \/ late THEN 1 ELSE 0)) * Size + 0
    <3>1. (flag' \/ late') <=> (flag \/ late)
      BY <1>1, Zenon
    <3>2. (IF flag' \/ late' THEN 1 ELSE 0) = (IF flag \/ late THEN 1 ELSE 0)
      BY <3>1, Zenon
    <3>3. remaining' # 0 /\ Size - remaining' = 0
      <4>1. remaining' = Size
        BY <1>1, Zenon
      <4> QED BY <1>2, <4>1
    <3> QED BY <2>3, <3>2, <3>3, Zenon
  <2> QED BY <1>1, <2>4 DEF HwPos
<1>6. step' = "after" /\ ~Torn(before', read', flag') => ReadIsTrue'
  <2> SUFFICES ASSUME step = "after", ~Torn(before, read, flag') PROVE ReadIsTrue'
    BY <1>1
  <2>1. flag' = flag
    BY <1>3, Zenon DEF Torn, RingInv, RingTypeOK
  <2>2. ReadIsTrue
    BY <2>1 DEF RingInv
  <2> QED BY <1>1, <2>1, <2>2 DEF ReadIsTrue, Count
<1>7. SampleIsTrue'
  BY <1>1 DEF RingInv, SampleIsTrue
<1> QED BY <1>1, <1>3, <1>4, <1>5, <1>6, <1>7 DEF RingInv, LateByte

LEMMA InterruptKeeps ==
  ASSUME RingInv, DMA1_Channel5_IRQHandler
  PROVE  RingInv'
<1>1. /\ RingTypeOK /\ flag /\ ~Masked /\ flag' = FALSE /\ wraps' = (wraps + 1) % Rounds
      /\ remaining' = remaining /\ late' = late
      /\ paced' = paced /\ unread' = unread /\ since' = since /\ quiet' = quiet
      /\ consumed' = consumed /\ produced' = produced /\ end' = end /\ step' = step /\ before' = before
      /\ read' = read /\ retry' = retry
  BY DEF RingInv, DMA1_Channel5_IRQHandler, loop
<1>2. /\ Size \in Nat /\ Size > 1 /\ CountRange \in Nat /\ CountRange > 1 /\ Size < CountRange
      /\ Rounds \in Nat /\ Rounds > 2
  BY CountFacts, RingAssumption
<1>3. ~late
  BY <1>1 DEF RingInv
<1>4. wraps \in 0..(Rounds - 1) /\ remaining \in 0..Size
  BY <1>1 DEF RingTypeOK
<1>5. /\ wraps * Size \in 0..(CountRange - Size)
      /\ wraps + 1 = Rounds => wraps * Size + Size = CountRange
      /\ wraps + 1 # Rounds => wraps + 1 \in 0..(Rounds - 1)
      /\ (wraps + 1) * Size = wraps * Size + Size
      /\ wraps' = IF wraps + 1 = Rounds THEN 0 ELSE wraps + 1
  BY <1>1, <1>4, CountFacts
<1>6. wraps' \in 0..(Rounds - 1)
  BY <1>2, <1>4, <1>5
<1>7. RingTypeOK'
  BY <1>1, <1>6, Zenon DEF RingTypeOK
<1> DEFINE c == IF remaining = 0 THEN 0 ELSE Size - remaining
<1>8. c \in 0..(Size - 1)
  BY <1>2, <1>4
<1>9. HwPos = wraps * Size + Size + c
  BY <1>1, HwFacts
<1>10. HwPos' = (wraps' + 0) * Size + c
  BY <1>1, <1>3 DEF HwPos
<1> HIDE DEF c
<1>11. HwPos' % CountRange = HwPos % CountRange
  <2>1. CASE wraps + 1 # Rounds
    <3>1. (wraps' + 0) * Size = wraps * Size + Size
      BY <1>5, <2>1, CountFacts
    <3> QED BY <1>9, <1>10, <3>1
  <2>2. CASE wraps + 1 = Rounds
    <3>1. HwPos = CountRange + c /\ HwPos' = c
      <4>1. (0 + 0) * Size = 0
        BY <1>2
      <4> QED BY <1>2, <1>5, <1>8, <1>9, <1>10, <2>2, <4>1
    <3>2. CountRange \in Nat \ {0} /\ CountRange + c \in Int /\ c \in Int
      BY <1>2, <1>8
    <3>3. SmallMod(CountRange + c, CountRange) /\ SmallMod(c, CountRange)
      BY <3>2, ModSmall
    <3>4. c \in 0..(CountRange - 1) /\ CountRange + c \in CountRange..(2 * CountRange - 1)
      BY <1>2, <1>8
    <3>5. (CountRange + c) % CountRange = c /\ c % CountRange = c
      <4>1. (CountRange + c) % CountRange = (CountRange + c) - CountRange /\ c % CountRange = c
        BY <3>3, <3>4, Zenon DEF SmallMod
      <4> QED BY <1>2, <1>8, <4>1
    <3> QED BY <3>1, <3>5
  <2> QED BY <2>1, <2>2
<1>12. SampleIsTrue'
  BY <1>1 DEF RingInv, SampleIsTrue
<1>13. step' \notin {"remaining", "after"}
  BY <1>1 DEF Masked, Sampling
<1> QED BY <1>1, <1>3, <1>7, <1>11, <1>12, <1>13 DEF RingInv, LateByte

\* While the program reads, nothing it reads moves of itself.
LEMMA PositionStands ==
  ASSUME RingInv, UNCHANGED <<hw, wraps, unread, consumed>>
  PROVE  /\ remaining' = remaining /\ flag' = flag /\ late' = late /\ paced' = paced /\ wraps' = wraps
         /\ unread' = unread /\ consumed' = consumed
         /\ late' => remaining' = 0 /\ ~flag'
         /\ (consumed' + unread') % CountRange = HwPos' % CountRange
<1>1. /\ remaining' = remaining /\ flag' = flag /\ late' = late /\ paced' = paced /\ wraps' = wraps
      /\ unread' = unread /\ consumed' = consumed
  BY DEF hw
<1> QED BY <1>1 DEF RingInv, HwPos

LEMMA SampleBegins ==
  ASSUME RingInv, Poll \/ Look
  PROVE  RingInv'
<1>1. /\ UNCHANGED <<hw, wraps, unread, consumed>> /\ produced' = produced /\ before' = before /\ read' = read
      /\ step' = "before" /\ retry' = 0 /\ since' = 0
      /\ (quiet' = TRUE /\ end' = consumed) \/ (quiet' = quiet /\ end' = end)
  BY DEF Poll, Look, rx_produced
<1>2. /\ CountRange \in Nat /\ CountRange > 1 /\ Ahead \in Nat /\ Size \in Nat
  BY CountFacts
<1>3. RingTypeOK /\ unread \in 0..Ahead /\ consumed \in 0..(CountRange - 1)
  BY DEF RingInv, RingTypeOK
<1>4. RingTypeOK'
  <2>1. 0 \in 0..3 /\ 0 \in 0..Ahead /\ "before" \in Sampling \cup {"poll", "sampled", "drain", "take"}
    BY <1>2 DEF Sampling
  <2>2. end' \in 0..(CountRange - 1) /\ quiet' \in BOOLEAN
    BY <1>1, <1>3, Zenon DEF RingTypeOK
  <2> QED BY <1>1, <1>3, <2>1, <2>2, PositionStands, Zenon DEF RingTypeOK
<1>5. (end' - consumed') % CountRange <= unread'
  <2>1. CASE end' = consumed
    <3>1. consumed - consumed = 0 /\ SmallMod(0, CountRange)
      BY <1>2, <1>3, ModSmall
    <3>2. (consumed - consumed) % CountRange = 0
      BY <1>2, <3>1 DEF SmallMod
    <3> QED BY <1>1, <1>3, <2>1, <3>2, PositionStands
  <2>2. CASE end' = end
    BY <1>1, <2>2, PositionStands DEF RingInv
  <2> QED BY <1>1, <2>1, <2>2
<1>6. paced' /\ end' # consumed' => unread' <= Size - 1 + LateByte'
  <2>1. CASE end' = end /\ quiet' = quiet
    <3>1. LateByte' = LateByte
      BY <2>1 DEF LateByte
    <3>2. paced /\ end # consumed => unread <= Size - 1 + LateByte
      BY DEF RingInv
    <3> QED BY <2>1, <3>1, <3>2, PositionStands, <1>1
  <2>2. CASE end' = consumed
    BY <1>1, <2>2, PositionStands
  <2> QED BY <1>1, <2>1, <2>2
<1>7. since' <= unread' /\ since' <= LateByte'
  BY <1>1, <1>3, PositionStands DEF LateByte
<1> QED BY <1>1, <1>4, <1>5, <1>6, <1>7, PositionStands DEF RingInv, SampleIsTrue

LEMMA ReadBeforeKeeps ==
  ASSUME RingInv, ReadBefore
  PROVE  RingInv'
<1>1. /\ UNCHANGED <<hw, wraps, unread, consumed>> /\ produced' = produced /\ end' = end /\ read' = read
      /\ retry' = retry /\ since' = since /\ quiet' = quiet /\ before' = flag
      /\ step = "before" /\ step' = "remaining"
  BY DEF ReadBefore
<1>2. RingTypeOK'
  BY <1>1, PositionStands, Zenon DEF RingInv, RingTypeOK, Sampling
<1>3. since <= unread /\ (paced => since <= LateByte) /\ LateByte' = LateByte
  BY <1>1 DEF RingInv, InSample, Sampling, LateByte
<1>4. (end' - consumed') % CountRange <= unread' /\ (paced' /\ end' # consumed' => unread' <= Size - 1 + LateByte')
  BY <1>1, <1>3, PositionStands DEF RingInv
<1>5. before' => flag'
  BY <1>1, PositionStands, Zenon
<1> QED BY <1>1, <1>2, <1>3, <1>4, <1>5, PositionStands DEF RingInv, SampleIsTrue

LEMMA ReadRemainingKeeps ==
  ASSUME RingInv, ReadRemaining
  PROVE  RingInv'
<1>1. /\ UNCHANGED <<hw, wraps, unread, consumed>> /\ produced' = produced /\ end' = end /\ before' = before
      /\ retry' = retry /\ since' = since /\ quiet' = quiet /\ read' = remaining
      /\ step = "remaining" /\ step' = "after"
  BY DEF ReadRemaining
<1>2. RingTypeOK'
  BY <1>1, PositionStands, Zenon DEF RingInv, RingTypeOK, Sampling
<1>3. since <= unread /\ (paced => since <= LateByte) /\ LateByte' = LateByte
  BY <1>1 DEF RingInv, InSample, Sampling, LateByte
<1>4. (end' - consumed') % CountRange <= unread' /\ (paced' /\ end' # consumed' => unread' <= Size - 1 + LateByte')
  BY <1>1, <1>3, PositionStands DEF RingInv
<1>5. before' => flag'
  BY <1>1, PositionStands, Zenon DEF RingInv
<1>6. ASSUME ~Torn(before', read', flag') PROVE ReadIsTrue'
  <2>1. remaining # 0 /\ ~late
    BY <1>1, <1>6 DEF Torn, RingInv
  <2>2. remaining \in Int /\ unread \in 0..Ahead /\ since \in 0..Ahead /\ flag \in BOOLEAN
    BY DEF RingInv, RingTypeOK
  <2>3. HwPos = (wraps + (IF flag THEN 1 ELSE 0)) * Size + Size - remaining
    <3>1. HwPos = (wraps + (IF flag THEN 1 ELSE 0)) * Size + (Size - remaining)
      BY <2>1 DEF HwPos
    <3>2. (wraps + (IF flag THEN 1 ELSE 0)) * Size \in Int
      <4>1. wraps \in Int /\ Size \in Int
        BY CountFacts DEF RingInv, RingTypeOK
      <4> QED BY <4>1
    <3> QED BY <2>2, <3>1, <3>2, CountFacts
  <2>4. Count(read, flag)' = (consumed + unread) % CountRange
    BY <1>1, <2>3, PositionStands DEF Count, RingInv
  <2>5. unread \in (unread - since)..unread
    BY <2>2
  <2> QED BY <1>1, <2>4, <2>5, PositionStands DEF ReadIsTrue
<1> QED BY <1>1, <1>2, <1>3, <1>4, <1>5, <1>6, PositionStands DEF RingInv, SampleIsTrue

LEMMA ReadAfterKeeps ==
  ASSUME RingInv, ReadAfter
  PROVE  RingInv'
<1>1. /\ UNCHANGED <<hw, wraps, unread, consumed>> /\ end' = end /\ before' = before /\ read' = read
      /\ since' = since /\ quiet' = quiet /\ step = "after"
      /\ \/ ~Torn(before, read, flag) /\ produced' = Count(read, flag) /\ step' = "sampled" /\ retry' = retry
         \/ retry < 3 /\ retry' = retry + 1 /\ step' = "before" /\ produced' = produced
         \/ produced' = consumed /\ step' = "sampled" /\ retry' = retry
  BY DEF ReadAfter
<1>2. since <= unread /\ (paced => since <= LateByte) /\ LateByte' = LateByte
  BY <1>1 DEF RingInv, InSample, Sampling, LateByte
<1>3. (end' - consumed') % CountRange <= unread' /\ (paced' /\ end' # consumed' => unread' <= Size - 1 + LateByte')
  BY <1>1, <1>2, PositionStands DEF RingInv
<1>4. RingTypeOK'
  <2>1. produced' \in 0..(CountRange - 1)
    <3>1. Count(read, flag) \in 0..(CountRange - 1)
      <4> DEFINE x == (wraps + (IF flag THEN 1 ELSE 0)) * Size + Size - read
      <4>1. x \in Int
        <5>1. wraps \in Int /\ read \in Int /\ Size \in Int
          BY CountFacts DEF RingInv, RingTypeOK
        <5> QED BY <5>1
      <4>2. Count(read, flag) = x % CountRange
        BY DEF Count
      <4> HIDE DEF x
      <4>3. CountRange \in Nat \ {0}
        BY CountFacts
      <4> QED BY <4>1, <4>2, <4>3, ModRange
    <3> QED BY <1>1, <3>1 DEF RingInv, RingTypeOK
  <2>2. retry' \in 0..3
    BY <1>1 DEF RingInv, RingTypeOK
  <2> QED BY <1>1, <2>1, <2>2, PositionStands, Zenon DEF RingInv, RingTypeOK, Sampling
<1>5. SampleIsTrue'
  <2>1. CASE ~Torn(before, read, flag) /\ produced' = Count(read, flag)
    <3>1. ReadIsTrue
      BY <1>1, <2>1 DEF RingInv
    <3> QED BY <1>1, <2>1, <3>1, PositionStands DEF SampleIsTrue, ReadIsTrue
  <2>2. CASE step' = "before" \/ produced' = consumed
    BY <2>2, PositionStands, <1>1 DEF SampleIsTrue
  <2> QED BY <1>1, <2>1, <2>2
<1>6. step' \in {"before", "sampled"}
  BY <1>1
<1> QED BY <1>1, <1>2, <1>3, <1>4, <1>5, <1>6, PositionStands DEF RingInv

LEMMA DrainedKeeps ==
  ASSUME RingInv, Drained
  PROVE  RingInv'
<1>1. /\ UNCHANGED <<hw, wraps, unread, consumed>> /\ produced' = produced /\ end' = end /\ before' = before
      /\ read' = read /\ retry' = retry /\ since' = since /\ quiet' = quiet
      /\ consumed = end /\ step' = "poll"
  BY DEF Drained
<1>2. RingTypeOK'
  BY <1>1, PositionStands, Zenon DEF RingInv, RingTypeOK
<1>3. (end' - consumed') % CountRange <= unread' /\ end' = consumed'
  BY <1>1, PositionStands DEF RingInv
<1> QED BY <1>1, <1>2, <1>3, PositionStands DEF RingInv, SampleIsTrue, InSample, Sampling

\* A byte is taken of those that wait, and of a paced line's no more wait than the ring holds.
LEMMA TakeByteKeeps ==
  ASSUME RingInv, Take
  PROVE  RingInv' /\ TakesWhatIsThere
<1>1. /\ step' = "drain" /\ quiet' = TRUE /\ consumed' = (consumed + 1) % CountRange /\ unread' = unread - 1
      /\ remaining' = remaining /\ flag' = flag /\ late' = late /\ paced' = paced /\ wraps' = wraps
      /\ produced' = produced /\ end' = end /\ before' = before /\ read' = read /\ retry' = retry
      /\ since' = since
  BY DEF Take, hw
<1>2. end # consumed
  BY DEF RingInv, Take
<1>3. /\ unread \in 0..Ahead /\ consumed \in 0..(CountRange - 1) /\ end \in 0..(CountRange - 1)
      /\ CountRange \in Nat /\ CountRange > 1 /\ Ahead \in Nat /\ Ahead < CountRange /\ Size \in Nat
  BY CountFacts DEF RingInv, RingTypeOK
<1> DEFINE d == (end - consumed) % CountRange
           e == (end - consumed') % CountRange
<1>4. consumed' = (IF consumed = CountRange - 1 THEN 0 ELSE consumed + 1)
  <2>1. SmallMod(consumed + 1, CountRange)
    BY <1>3, ModSmall
  <2> QED BY <1>1, <1>3, <2>1 DEF SmallMod
<1>5. d \in 1..(CountRange - 1) /\ e = d - 1
  <2>1. SmallMod(end - consumed, CountRange) /\ SmallMod(end - consumed', CountRange)
    BY <1>3, <1>4, ModSmall
  <2> QED BY <1>2, <1>3, <1>4, <2>1 DEF SmallMod
<1>6. d <= unread
  BY DEF RingInv
<1> HIDE DEF d, e
<1>7. unread \in 1..Ahead /\ e <= unread - 1
  BY <1>3, <1>5, <1>6
<1>8. TakesWhatIsThere
  <2>1. paced => unread <= Size - 1 + LateByte
    BY <1>2 DEF RingInv
  <2>2. LateByte \in 0..1
    BY DEF LateByte
  <2> QED BY <1>3, <1>7, <2>1, <2>2 DEF TakesWhatIsThere
<1>9. RingTypeOK'
  <2>1. consumed' \in 0..(CountRange - 1) /\ unread' \in 0..Ahead /\ quiet' \in BOOLEAN
    BY <1>1, <1>3, <1>4, <1>7
  <2> QED BY <1>1, <2>1, Zenon DEF RingInv, RingTypeOK
<1>10. (consumed' + unread') % CountRange = (consumed + unread) % CountRange
  <2>1. CASE consumed # CountRange - 1
    <3>1. consumed' + unread' = consumed + unread
      BY <1>1, <1>3, <1>4, <1>7, <2>1
    <3> QED BY <3>1
  <2>2. CASE consumed = CountRange - 1
    <3>1. consumed' + unread' = unread - 1 /\ consumed + unread = CountRange + (unread - 1)
      BY <1>1, <1>3, <1>4, <1>7, <2>2
    <3>2. SmallMod(unread - 1, CountRange) /\ SmallMod(CountRange + (unread - 1), CountRange)
      BY <1>3, ModSmall
    <3>3. (unread - 1) % CountRange = unread - 1 /\ (CountRange + (unread - 1)) % CountRange = unread - 1
      BY <1>3, <1>7, <3>2 DEF SmallMod
    <3> QED BY <3>1, <3>3
  <2> QED BY <2>1, <2>2
<1>11. HwPos' = HwPos
  BY <1>1 DEF HwPos
<1>12. (end' - consumed') % CountRange <= unread'
  BY <1>1, <1>7 DEF e
<1>13. paced' /\ end' # consumed' => unread' <= Size - 1 + LateByte'
  <2>1. paced => unread <= Size - 1 + LateByte
    BY <1>2 DEF RingInv
  <2>2. LateByte \in 0..1 /\ LateByte' = 0
    BY <1>1 DEF LateByte
  <2> QED BY <1>1, <1>3, <1>7, <2>1, <2>2
<1>14. (late' => remaining' = 0 /\ ~flag') /\ (consumed' + unread') % CountRange = HwPos' % CountRange
  BY <1>1, <1>10, <1>11 DEF RingInv
<1> QED BY <1>1, <1>8, <1>9, <1>12, <1>13, <1>14 DEF RingInv, SampleIsTrue, InSample, Sampling

\* A sample of a ring that was overrun restarts it; else the drain ends where the sample says.
LEMMA SampledKeeps ==
  ASSUME RingInv, Sampled
  PROVE  RingInv'
<1>1. /\ step = "sampled" /\ paced' = paced /\ before' = before /\ read' = read /\ retry' = retry
      /\ quiet' = quiet /\ since' = 0
  BY DEF Sampled
<1>2. /\ unread \in 0..Ahead /\ consumed \in 0..(CountRange - 1) /\ produced \in 0..(CountRange - 1)
      /\ since \in 0..Ahead /\ since <= unread /\ paced \in BOOLEAN /\ quiet \in BOOLEAN
      /\ before \in BOOLEAN /\ read \in 0..Size /\ retry \in 0..3
      /\ CountRange \in Nat /\ CountRange > 1 /\ Ahead \in Nat /\ Ahead < CountRange /\ Size \in Nat /\ Size > 1
      /\ Rounds \in Nat /\ Rounds > 2
  BY <1>1, CountFacts, RingAssumption DEF RingInv, RingTypeOK, InSample
<1>3. CASE Overrun((produced - consumed) % CountRange)
  <2>1. /\ step' = "poll" /\ remaining' = Size /\ flag' = FALSE /\ late' = FALSE
        /\ wraps' = 0 /\ consumed' = 0 /\ produced' = 0 /\ end' = 0 /\ unread' = 0
    BY <1>3 DEF Sampled
  <2>2. RingTypeOK'
    <3>1. /\ Size \in 0..Size /\ 0 \in 0..(Rounds - 1) /\ 0 \in 0..Ahead /\ 0 \in 0..(CountRange - 1)
      BY <1>2
    <3> QED BY <1>1, <1>2, <2>1, <3>1, Zenon DEF RingTypeOK
  <2>3. HwPos' = 0
    <3>1. HwPos' = (0 + 0) * Size + (Size - Size)
      BY <1>2, <2>1 DEF HwPos
    <3> QED BY <1>2, <3>1
  <2>4. 0 + 0 = 0 /\ 0 - 0 = 0 /\ SmallMod(0, CountRange)
    BY <1>2, ModSmall
  <2>5. (end' - consumed') % CountRange = 0 /\ (consumed' + unread') % CountRange = HwPos' % CountRange
    BY <1>2, <2>1, <2>3, <2>4 DEF SmallMod
  <2> QED BY <1>1, <2>1, <2>2, <2>5 DEF RingInv, SampleIsTrue, InSample, Sampling
<1>4. CASE ~Overrun((produced - consumed) % CountRange)
  <2>1. /\ UNCHANGED <<hw, wraps, unread, consumed>> /\ produced' = produced
        /\ \/ end = consumed /\ step' = "drain" /\ end' = produced
           \/ end # consumed /\ step' = "take" /\ end' = end
    BY <1>4 DEF Sampled
  <2>2. RingTypeOK'
    <3>1. end' \in 0..(CountRange - 1) /\ 0 \in 0..Ahead
      BY <1>2, <2>1 DEF RingInv, RingTypeOK
    <3>2. step' \in {"drain", "take"}
      BY <2>1
    <3> QED BY <1>1, <1>2, <2>1, <3>1, <3>2, PositionStands, Zenon DEF RingInv, RingTypeOK
  <2>3. (end' - consumed') % CountRange <= unread' /\ (paced' /\ end' # consumed' => unread' <= Size - 1 + LateByte')
    <3>1. CASE end' = end
      BY <1>1, <3>1, PositionStands, <2>1 DEF RingInv, LateByte
    <3>2. CASE end' = produced
      <4>1. PICK n \in 0..unread : /\ produced = (consumed + n) % CountRange
                                   /\ produced = consumed \/ n >= unread - since
        <5>1. CASE produced = consumed
          <6>1. consumed + 0 = consumed /\ SmallMod(consumed, CountRange)
            BY <1>2, ModSmall
          <6>2. consumed % CountRange = consumed
            BY <1>2, <6>1 DEF SmallMod
          <6> QED BY <1>2, <5>1, <6>1, <6>2
        <5>2. CASE produced # consumed
          <6>1. PICK n \in (unread - since)..unread : produced = (consumed + n) % CountRange
            BY <1>1, <5>2 DEF RingInv, SampleIsTrue
          <6>2. n \in 0..unread /\ n >= unread - since
            BY <1>2, <6>1
          <6> QED BY <6>1, <6>2
        <5> QED BY <5>1, <5>2
      <4>2. n \in 0..(CountRange - 1)
        BY <1>2, <4>1
      <4>3. (produced - consumed) % CountRange = n
        BY <1>2, <4>1, <4>2, Ahead2
      <4>4. n < Size
        BY <1>2, <1>4, <4>2, <4>3 DEF Overrun
      <4>5. paced => since <= LateByte
        BY <1>1 DEF RingInv, InSample
      <4>6. LateByte \in 0..1 /\ LateByte' = LateByte
        BY <1>1 DEF LateByte
      <4>7. (end' - consumed') % CountRange = n
        BY <2>1, <3>2, <4>3, PositionStands
      <4>8. paced /\ produced # consumed => unread <= Size - 1 + LateByte
        BY <1>2, <4>1, <4>2, <4>4, <4>5, <4>6
      <4>9. n <= unread
        BY <1>2, <4>1
      <4> QED BY <2>1, <3>2, <4>6, <4>7, <4>8, <4>9, PositionStands
    <3> QED BY <2>1, <3>1, <3>2
  <2> QED BY <1>1, <2>1, <2>2, <2>3, PositionStands DEF RingInv, SampleIsTrue, InSample, Sampling
<1> QED BY <1>3, <1>4

LEMMA RingStep == RingInv /\ [RingNext]_ringVars => RingInv' /\ TakesWhatIsThere
<1> SUFFICES ASSUME RingInv, [RingNext]_ringVars PROVE RingInv' /\ TakesWhatIsThere OBVIOUS
<1>1. CASE Take
  BY <1>1, TakeByteKeeps
<1>2. CASE ~Take /\ RingNext
  <2>1. RingInv'
    BY <1>2, ByteKeeps, ReloadKeeps, InterruptKeeps, SampleBegins, ReadBeforeKeeps, ReadRemainingKeeps,
       ReadAfterKeeps, SampledKeeps, DrainedKeeps DEF RingNext
  <2> QED BY <1>2, <2>1 DEF TakesWhatIsThere
<1>3. CASE ~Take /\ UNCHANGED ringVars
  <2>1. /\ UNCHANGED <<hw, wraps, unread, consumed>> /\ produced' = produced /\ end' = end /\ before' = before
        /\ read' = read /\ retry' = retry /\ since' = since /\ quiet' = quiet /\ step' = step
    BY <1>3 DEF ringVars, loop
  <2>2. RingTypeOK'
    BY <2>1, PositionStands, Zenon DEF RingInv, RingTypeOK
  <2>3. SampleIsTrue' /\ (step' = "after" /\ ~Torn(before', read', flag') => ReadIsTrue')
    <3>1. ReadIsTrue' <=> ReadIsTrue
      BY <2>1, PositionStands DEF ReadIsTrue, Count
    <3>2. SampleIsTrue'
      BY <2>1, PositionStands DEF RingInv, SampleIsTrue
    <3> QED BY <2>1, <3>1, <3>2, PositionStands DEF RingInv
  <2>4. LateByte' = LateByte
    BY <2>1 DEF LateByte
  <2>5. RingInv'
    BY <2>1, <2>2, <2>3, <2>4, PositionStands DEF RingInv
  <2> QED BY <1>3, <2>5 DEF TakesWhatIsThere
<1> QED BY <1>1, <1>2, <1>3

\* Every byte that is taken from the ring is one the line has sent and, on a line slower than the
\* drain, was not yet written over; a sample of the DMA's progress was true while it was taken:
\* for every size and range of the ring and however often the drain looks again (rx_produced and
\* bus_rx_poll, _bus_hardware.cpp).
THEOREM RingAlwaysTrue == RingSpec => RingIsTrue
<1>1. RingInv /\ [RingNext]_ringVars => [SampleIsTrue' /\ TakesWhatIsThere]_ringVars
  BY RingStep DEF RingInv
<1>2. RingInv /\ [RingNext]_ringVars => RingInv'
  BY RingStep
<1> QED BY <1>1, <1>2, RingInitially, PTL DEF RingSpec, RingIsTrue

-----------------------------------------------------------------------------
(* The record.  What the registers say is true of the run they are of at   *)
(* every moment, as they say nothing while the magic is cleared: the boot  *)
(* writes its words under a cleared magic, so that all of them are of one  *)
(* boot when it is set; a trap is stored once in a run, over a check that  *)
(* no words match; and the high half of a longest pass is never past that  *)
(* of the pass being marked.                                               *)

AnyCause == Causes \cup {NoCause}
Headers == [set : SUBSET Flags, n : 0..ResetsMax]
Passes == 0..(HalfRange * HalfRange - 1)

Registers == [magic : BOOLEAN, reset : Headers, check : Headers, phase : AllPhases,
              lo : Halves, hi : Halves, pcLo : Halves, pcHi : Halves, cause : AnyCause,
              trapCheck : {NoTrapCheck} \cup (Halves \X Halves \X AnyCause)]

CpuStates == [at : {"take", "boot", "store", "run", "lo", "hi", "trap", "hung"},
              k : 0..BOOT_STORES, clocked : BOOLEAN, iwdg : BOOLEAN, rst : SUBSET Flags,
              next : Registers, flash : {"none", "trap", "watchdog"}, max : Passes,
              pc : Halves \X Halves, cause : AnyCause]

Runs == [known : BOOLEAN, flags : SUBSET Flags, phase : AllPhases, longest : Passes,
         trapped : BOOLEAN, pc : Halves \X Halves, cause : AnyCause]

BoxStateOK ==
  /\ bkp \in Registers /\ flags \subseteq Flags /\ earlier \in BOOLEAN
  /\ cpu \in CpuStates /\ own \in Runs

Matches(w) == w.trapCheck = <<w.pcLo, w.pcHi, w.cause>>

(* The record w says of the run r what is so. *)
TrueOf(w, r) ==
  /\ w.check = w.reset
  /\ r.flags = w.reset.set /\ r.phase = w.phase
  /\ r.trapped <=> Matches(w)
  /\ r.trapped => r.pc = <<w.pcLo, w.pcHi>> /\ r.cause = w.cause
  /\ w.lo + HalfRange * w.hi <= r.longest

(* The words a boot stores. *)
FirstWords(w) ==
  /\ w.magic /\ w.check = w.reset /\ w.phase = "boot" /\ w.lo = 0 /\ w.hi = 0
  /\ w.trapCheck = NoTrapCheck

(* The first k stores of the boot are done. *)
Storing(w, c) ==
  /\ FirstWords(c.next) /\ c.next.reset.set = c.rst /\ c.max = 0 /\ c.clocked
  /\ c.k < BOOT_STORES
  /\ c.k > 0 => ~w.magic
  /\ \A j \in 2..Len(Words) : j <= c.k => w[Words[j]] = c.next[Words[j]]

(* The main loop runs: it has not trapped, and its longest pass is marked, *)
(* or being marked.                                                        *)
Running(w, c, r) ==
  /\ w.magic /\ c.clocked /\ w.trapCheck = NoTrapCheck /\ r.longest = c.max
  /\ w.hi <= c.max \div HalfRange
  /\ c.at \in {"run", "hi"} => w.lo = c.max % HalfRange
  /\ c.at = "run" => w.hi = c.max \div HalfRange

(* The words of the trap, of which k are stored. *)
Trapping(w, c) ==
  c.clocked => /\ w.magic
               /\ c.k < 4 => w.trapCheck = NoTrapCheck
               /\ c.k > 0 => w.pcLo = c.pc[1]
               /\ c.k > 1 => w.pcHi = c.pc[2]
               /\ c.k > 2 => w.cause = c.cause

BoxInv ==
  /\ BoxStateOK
  /\ own.known = bkp.magic
  /\ bkp.magic => TrueOf(bkp, own)
  /\ cpu.at \in {"take", "boot"} => ~cpu.clocked /\ cpu.max = 0
  /\ cpu.at = "store" => Storing(bkp, cpu)
  /\ cpu.at \in {"run", "lo", "hi"} => Running(bkp, cpu, own)
  /\ cpu.at = "trap" => Trapping(bkp, cpu)
  /\ cpu.at \in {"store", "run", "lo", "hi"} => (cpu.flash = "trap" <=> "iwdg" \in cpu.rst /\ earlier)

LEMMA Halved ==
  ASSUME NEW h \in Nat \ {0}, NEW d \in 0..(h * h - 1)
  PROVE  /\ d % h \in 0..(h - 1) /\ d \div h \in 0..(h - 1)
         /\ d = (d % h) + h * (d \div h)
<1>1. d \div h \in 0..(h - 1)
  BY SlotPage
<1>2. d = h * (d \div h) + (d % h) /\ d % h \in 0..(h - 1)
  BY SMT
<1> QED BY <1>1, <1>2

\* A longer pass has no smaller high half; with a smaller one it reads as a shorter pass.
LEMMA HalvesInOrder ==
  ASSUME NEW h \in Nat \ {0}, NEW c \in Nat, NEW d \in Nat, NEW e \in Nat
  PROVE  /\ c <= d => c \div h <= d \div h
         /\ e <= d \div h => (d % h) + h * e <= d
<1>1. /\ d = h * (d \div h) + (d % h) /\ d % h \in 0..(h - 1) /\ d \div h \in Int
      /\ c = h * (c \div h) + (c % h) /\ c % h \in 0..(h - 1) /\ c \div h \in Int
  BY SMT
<1>2. ASSUME c <= d PROVE c \div h <= d \div h
  <2>1. CASE c \div h >= d \div h + 1
    <3>1. \A x, y \in Int : x >= y => h * x >= h * y
      BY SMT
    <3>2. h * (c \div h) >= h * (d \div h + 1)
      BY <1>1, <2>1, <3>1
    <3>3. h * (d \div h + 1) = h * (d \div h) + h
      BY <1>1, SMT
    <3> QED BY <1>1, <1>2, <3>2, <3>3
  <2> QED BY <1>1, <2>1
<1>3. ASSUME e <= d \div h PROVE (d % h) + h * e <= d
  <2>1. \A x, y \in Int : x >= y => h * x >= h * y
    BY SMT
  <2>2. h * (d \div h) >= h * e
    BY <1>1, <1>3, <2>1
  <2>3. h * e \in Nat /\ h * (d \div h) \in Int
    BY <1>1, SMT
  <2> QED BY <1>1, <2>2, <2>3
<1> QED BY <1>2, <1>3

LEMMA ColdTyped == Cold \in Registers /\ Reset0.next \in Registers /\ 0 \in Halves /\ 0 \in Passes
<1>1. 0 \in Halves /\ 0 \in Passes /\ ResetsMax \in Nat
  <2>1. HalfRange * HalfRange \in Nat \ {0}
    BY BlackBoxAssumption, ProductPositive
  <2> QED BY <2>1, BlackBoxAssumption DEF Halves, Passes
<1>2. NoWord \in Headers /\ Ones \in Headers
  BY <1>1 DEF NoWord, Ones, Headers, Flags
<1> HIDE DEF Headers, NoWord, Ones
<1>3. Cold \in Registers
  BY <1>1, <1>2 DEF Cold, Registers, AllPhases, AnyCause
<1> QED BY <1>1, <1>3 DEF Reset0

\* A reset leaves a processor that holds nothing.
LEMMA ResetTyped == Reset0 \in CpuStates
<1>1. BOOT_STORES = 11
  BY DEF BOOT_STORES, Words
<1> QED BY <1>1, ColdTyped DEF Reset0, AnyCause, CpuStates

LEMMA NoRunTyped == NoRun \in Runs
  BY ColdTyped DEF NoRun, AllPhases, AnyCause, Runs

LEMMA BoxInitially == BoxInit => BoxInv
<1> SUFFICES ASSUME BoxInit PROVE BoxInv OBVIOUS
<1>2. BoxStateOK
  BY ColdTyped, ResetTyped, NoRunTyped DEF BoxInit, BoxStateOK, Flags
<1>3. own.known = FALSE /\ bkp.magic = FALSE
  BY DEF BoxInit, NoRun, Cold
<1>4. cpu.at = "take" /\ cpu.clocked = FALSE /\ cpu.max = 0
  BY DEF BoxInit, Reset0
<1> QED BY <1>2, <1>3, <1>4 DEF BoxInv

\* A reset, of whatever kind, leaves the record as it is.
LEMMA ResetKeeps ==
  ASSUME BoxInv, cpu' = Reset0, flags' \subseteq Flags, UNCHANGED <<bkp, own, earlier>>
  PROVE  BoxInv'
<1>1. BoxStateOK'
  BY ResetTyped DEF BoxInv, BoxStateOK
<1>2. cpu'.at = "take" /\ cpu'.clocked = FALSE /\ cpu'.max = 0
  BY DEF Reset0
<1>3. own'.known = bkp'.magic /\ (bkp'.magic => TrueOf(bkp', own'))
  BY DEF BoxInv
<1> QED BY <1>1, <1>2, <1>3 DEF BoxInv

LEMMA ResetsKeep ==
  ASSUME BoxInv, IwdgReset \/ PinReset \/ PowerReset
  PROVE  BoxInv'
<1>1. flags' \subseteq Flags /\ cpu' = Reset0 /\ UNCHANGED earlier
  BY DEF IwdgReset, PinReset, PowerReset, BoxInv, BoxStateOK, Flags
<1>2. CASE UNCHANGED <<bkp, own>>
  BY <1>1, <1>2, ResetKeeps
<1>3. CASE bkp' = Cold /\ own' = NoRun
  <2>1. BoxStateOK'
    BY <1>1, <1>3, ColdTyped, ResetTyped, NoRunTyped DEF BoxInv, BoxStateOK
  <2>2. cpu'.at = "take" /\ cpu'.clocked = FALSE /\ cpu'.max = 0
    BY <1>1 DEF Reset0
  <2>3. own'.known = FALSE /\ bkp'.magic = FALSE
    BY <1>3 DEF NoRun, Cold
  <2> QED BY <2>1, <2>2, <2>3 DEF BoxInv
<1> QED BY <1>1, <1>2, <1>3 DEF IwdgReset, PinReset, PowerReset

\* What changes neither the record nor what is known of its run.
LEMMA RecordStands ==
  ASSUME BoxInv, UNCHANGED <<bkp, own>>
  PROVE  own'.known = bkp'.magic /\ (bkp'.magic => TrueOf(bkp', own'))
  BY DEF BoxInv

LEMMA TakeKeeps ==
  ASSUME BoxInv, watchdog_reset_flags_take
  PROVE  BoxInv'
<1>1. cpu \in CpuStates /\ cpu.at = "take" /\ ~cpu.clocked /\ cpu.max = 0
  BY DEF BoxInv, BoxStateOK, watchdog_reset_flags_take
<1>2. cpu' \in CpuStates /\ cpu'.at = "boot" /\ ~cpu'.clocked /\ cpu'.max = 0
  BY <1>1 DEF watchdog_reset_flags_take, CpuStates, BoxInv, BoxStateOK
<1>3. BoxStateOK'
  BY <1>2 DEF BoxInv, BoxStateOK, watchdog_reset_flags_take
<1> QED BY <1>2, <1>3, RecordStands DEF BoxInv, watchdog_reset_flags_take

\* The words of a boot: typed, and those of a run that has done nothing yet.
LEMMA BootWords ==
  ASSUME NEW w \in Registers, NEW rst \in SUBSET Flags
  PROVE  LET next == blackbox_boot_words(blackbox_decode(w), rst)
         IN next \in Registers /\ FirstWords(next) /\ next.reset.set = rst
<1> DEFINE last == blackbox_decode(w)
           n == ResetsNext(last, rst)
           h == [set |-> rst, n |-> n]
<1>1. n \in 0..ResetsMax
  <2>1. last.resets = w.reset.n
    BY DEF blackbox_decode
  <2>2. w.reset \in Headers
    BY DEF Registers
  <2>3. last.resets \in 0..ResetsMax
    BY <2>1, <2>2 DEF Headers
  <2> QED BY <2>3, BlackBoxAssumption DEF ResetsNext
<1>2. h \in Headers /\ h.set = rst
  BY <1>1 DEF Headers
<1> HIDE DEF h
<1>3. blackbox_boot_words(last, rst) = [Cold EXCEPT !.magic = TRUE, !.reset = h, !.check = h, !.phase = "boot"]
  BY DEF blackbox_boot_words, h
<1> HIDE DEF last
<1>4. blackbox_boot_words(last, rst) \in Registers
  BY <1>2, <1>3, ColdTyped DEF Registers, AllPhases
<1>5. FirstWords(blackbox_boot_words(last, rst)) /\ blackbox_boot_words(last, rst).reset = h
  BY <1>3 DEF FirstWords, Cold
<1> QED BY <1>2, <1>4, <1>5 DEF last

LEMMA BootReadKeeps ==
  ASSUME BoxInv, BootRead
  PROVE  BoxInv'
<1> DEFINE last == blackbox_decode(bkp)
           next == blackbox_boot_words(last, cpu.rst)
<1>1. /\ cpu \in CpuStates /\ cpu.at = "boot" /\ ~cpu.clocked /\ cpu.max = 0 /\ bkp \in Registers
      /\ cpu.rst \in SUBSET Flags
  BY DEF BoxInv, BoxStateOK, BootRead, CpuStates
<1>2. next \in Registers /\ FirstWords(next) /\ next.reset.set = cpu.rst
  BY <1>1, BootWords
<1>3. last.trapped = (own.known /\ own.trapped)
  <2>1. last.trapped = (bkp.magic /\ bkp.check = bkp.reset /\ Matches(bkp))
    BY DEF blackbox_decode, Matches
  <2>2. own.known = bkp.magic /\ own.trapped \in BOOLEAN /\ own.known \in BOOLEAN
    BY DEF BoxInv, BoxStateOK, Runs
  <2>3. bkp.magic => bkp.check = bkp.reset /\ (own.trapped <=> Matches(bkp))
    BY DEF BoxInv, TrueOf
  <2> QED BY <2>1, <2>2, <2>3
<1>4. /\ blackbox_boot_flash(last, cpu.rst) \in {"none", "trap", "watchdog"}
      /\ blackbox_boot_flash(last, cpu.rst) = "trap" <=> ("iwdg" \in cpu.rst /\ own.known /\ own.trapped)
  BY <1>3 DEF blackbox_boot_flash
<1>5. cpu' = [cpu EXCEPT !.at = "store", !.k = 0, !.clocked = TRUE, !.next = next,
                         !.flash = blackbox_boot_flash(last, cpu.rst)]
  BY DEF BootRead
<1> DEFINE shown == blackbox_boot_flash(last, cpu.rst)
<1> HIDE DEF next, last, shown
<1>6. BOOT_STORES = 11
  BY DEF BOOT_STORES, Words
<1>7. /\ cpu' \in CpuStates /\ cpu'.at = "store" /\ cpu'.k = 0 /\ cpu'.max = 0 /\ cpu'.next = next
      /\ cpu'.clocked = TRUE
      /\ cpu'.rst = cpu.rst /\ cpu'.flash = shown
  <2>1. 0 \in 0..BOOT_STORES /\ shown \in {"none", "trap", "watchdog"}
    BY <1>4, <1>6 DEF shown
  <2>2. cpu' = [cpu EXCEPT !.at = "store", !.k = 0, !.clocked = TRUE, !.next = next, !.flash = shown]
    BY <1>5 DEF shown
  <2>3. cpu' \in CpuStates
    BY <1>1, <1>2, <2>1, <2>2, Zenon DEF CpuStates
  <2>4. cpu'.at = "store" /\ cpu'.k = 0 /\ cpu'.next = next /\ cpu'.flash = shown /\ cpu'.clocked = TRUE
    BY <1>1, <2>2, Zenon DEF CpuStates
  <2>5. cpu'.max = 0 /\ cpu'.rst = cpu.rst
    BY <1>1, <2>2, Zenon DEF CpuStates
  <2> QED BY <2>3, <2>4, <2>5
<1>8. BoxStateOK'
  <2>1. earlier' \in BOOLEAN
    BY DEF BootRead, BoxInv, BoxStateOK
  <2> QED BY <2>1, <1>7 DEF BoxInv, BoxStateOK, BootRead
<1>9. Storing(bkp', cpu')
  BY <1>2, <1>6, <1>7 DEF Storing
<1>10. cpu'.flash = "trap" <=> ("iwdg" \in cpu'.rst /\ earlier')
  BY <1>4, <1>7 DEF BootRead, shown
<1>11. own'.known = bkp'.magic /\ (bkp'.magic => TrueOf(bkp', own'))
  BY RecordStands DEF BootRead
<1> QED BY <1>7, <1>8, <1>9, <1>10, <1>11 DEF BoxInv

LEMMA TrapKeeps ==
  ASSUME BoxInv, Trap
  PROVE  BoxInv'
<1>1. cpu \in CpuStates /\ cpu.at \in Code /\ UNCHANGED <<bkp, flags, own, earlier>>
  BY DEF BoxInv, BoxStateOK, Trap
<1>2. PICK pc \in Places, cause \in Causes :
        cpu' = [cpu EXCEPT !.iwdg = TRUE, !.at = "trap", !.k = 0, !.pc = pc, !.cause = cause]
  BY <1>1, Zenon DEF Trap, FailsafeArms, CpuStates
<1>3. cpu' \in CpuStates
  <2>1. 0 \in 0..BOOT_STORES
    BY DEF BOOT_STORES, Words
  <2>2. pc \in Halves \X Halves /\ cause \in AnyCause
    BY BlackBoxAssumption DEF Halves, AnyCause
  <2> QED BY <1>1, <1>2, <2>1, <2>2, Zenon DEF CpuStates
<1>4. cpu'.at = "trap" /\ cpu'.k = 0 /\ cpu'.clocked = cpu.clocked
  BY <1>1, <1>2, Zenon DEF CpuStates
<1>5. BoxStateOK'
  BY <1>1, <1>3 DEF BoxInv, BoxStateOK
<1>6. cpu.clocked => bkp.magic /\ bkp.trapCheck = NoTrapCheck
  BY <1>1 DEF BoxInv, Code, Running
<1>7. Trapping(bkp', cpu')
  BY <1>1, <1>4, <1>6 DEF Trapping
<1> QED BY <1>1, <1>4, <1>5, <1>7, RecordStands DEF BoxInv

LEMMA HangKeeps ==
  ASSUME BoxInv, Hang
  PROVE  BoxInv'
<1>1. cpu \in CpuStates /\ cpu' = [cpu EXCEPT !.at = "hung"] /\ UNCHANGED <<bkp, flags, own, earlier>>
  BY DEF BoxInv, BoxStateOK, Hang
<1>2. cpu' \in CpuStates /\ cpu'.at = "hung"
  BY <1>1, Zenon DEF CpuStates
<1>3. BoxStateOK'
  BY <1>1, <1>2 DEF BoxInv, BoxStateOK
<1> QED BY <1>1, <1>2, <1>3, RecordStands DEF BoxInv

LEMMA StartKeeps ==
  ASSUME BoxInv, watchdog_start
  PROVE  BoxInv'
<1>1. cpu \in CpuStates /\ cpu' = [cpu EXCEPT !.iwdg = TRUE] /\ UNCHANGED <<bkp, flags, own, earlier>>
      /\ cpu.at = "run"
  BY DEF BoxInv, BoxStateOK, watchdog_start
<1>2. /\ cpu' \in CpuStates /\ cpu'.at = "run" /\ cpu'.max = cpu.max /\ cpu'.clocked = cpu.clocked
      /\ cpu'.rst = cpu.rst /\ cpu'.flash = cpu.flash
  BY <1>1, Zenon DEF CpuStates
<1>3. BoxStateOK'
  BY <1>1, <1>2 DEF BoxInv, BoxStateOK
<1>4. Running(bkp', cpu', own')
  BY <1>1, <1>2 DEF BoxInv, Running
<1> QED BY <1>1, <1>2, <1>3, <1>4, RecordStands DEF BoxInv

LEMMA PhaseKeeps ==
  ASSUME BoxInv, Phase
  PROVE  BoxInv'
<1>1. /\ bkp \in Registers /\ own \in Runs /\ cpu.at = "run" /\ UNCHANGED <<flags, cpu, earlier>>
      /\ Running(bkp, cpu, own) /\ TrueOf(bkp, own) /\ own.known = bkp.magic
  BY DEF BoxInv, BoxStateOK, Phase, Running
<1>2. PICK p \in Phases : bkp' = [bkp EXCEPT !.phase = p] /\ own' = [own EXCEPT !.phase = p]
  BY DEF Phase
<1>3. bkp' \in Registers /\ own' \in Runs
  <2>1. p \in AllPhases
    BY DEF AllPhases
  <2> QED BY <1>1, <1>2, <2>1, Zenon DEF Registers, Runs
<1>4. /\ bkp'.phase = p /\ bkp'.magic = bkp.magic /\ bkp'.reset = bkp.reset /\ bkp'.check = bkp.check
      /\ bkp'.lo = bkp.lo /\ bkp'.hi = bkp.hi /\ bkp'.pcLo = bkp.pcLo /\ bkp'.pcHi = bkp.pcHi
      /\ bkp'.cause = bkp.cause /\ bkp'.trapCheck = bkp.trapCheck
  BY <1>1, <1>2, Zenon DEF Registers
<1>5. /\ own'.phase = p /\ own'.known = own.known /\ own'.flags = own.flags /\ own'.longest = own.longest
      /\ own'.trapped = own.trapped /\ own'.pc = own.pc /\ own'.cause = own.cause
  BY <1>1, <1>2, Zenon DEF Runs
<1>6. BoxStateOK'
  BY <1>1, <1>3 DEF BoxInv, BoxStateOK
<1>7. Running(bkp', cpu', own')
  BY <1>1, <1>4, <1>5 DEF Running
<1>8. TrueOf(bkp', own')
  BY <1>1, <1>4, <1>5 DEF TrueOf, Matches
<1> QED BY <1>1, <1>4, <1>5, <1>6, <1>7, <1>8 DEF BoxInv

LEMMA PassEndsKeeps ==
  ASSUME BoxInv, PassEnds
  PROVE  BoxInv'
<1>1. /\ cpu \in CpuStates /\ own \in Runs /\ bkp \in Registers /\ cpu.at = "run"
      /\ UNCHANGED <<bkp, flags, earlier>>
      /\ Running(bkp, cpu, own) /\ TrueOf(bkp, own) /\ own.known = bkp.magic
  BY DEF BoxInv, BoxStateOK, PassEnds, Running
<1>2. PICK dt \in (cpu.max + 1)..(HalfRange * HalfRange - 1) :
        /\ cpu' = [cpu EXCEPT !.at = "lo", !.max = dt]
        /\ own' = [own EXCEPT !.longest = dt]
  BY DEF PassEnds
<1>3. cpu.max \in Nat /\ dt \in Passes /\ dt \in Nat /\ cpu.max <= dt
  <2>1. cpu.max \in Passes /\ HalfRange * HalfRange \in Nat
    BY <1>1, BlackBoxAssumption, ProductPositive DEF CpuStates
  <2> QED BY <1>2, <2>1 DEF Passes
<1>4. cpu' \in CpuStates /\ own' \in Runs
  BY <1>1, <1>2, <1>3, Zenon DEF CpuStates, Runs
<1>5. /\ cpu'.at = "lo" /\ cpu'.max = dt /\ cpu'.clocked = cpu.clocked /\ cpu'.rst = cpu.rst
      /\ cpu'.flash = cpu.flash
  BY <1>1, <1>2, Zenon DEF CpuStates
<1>6. /\ own'.longest = dt /\ own'.known = own.known /\ own'.flags = own.flags /\ own'.phase = own.phase
      /\ own'.trapped = own.trapped /\ own'.pc = own.pc /\ own'.cause = own.cause
  BY <1>1, <1>2, Zenon DEF Runs
<1>7. BoxStateOK'
  BY <1>1, <1>4 DEF BoxInv, BoxStateOK
<1>8. Running(bkp', cpu', own')
  <2>1. cpu.max \div HalfRange <= dt \div HalfRange
    BY <1>3, BlackBoxAssumption, HalvesInOrder
  <2>2. bkp.hi = cpu.max \div HalfRange
    BY <1>1 DEF Running
  <2> QED BY <1>1, <1>5, <1>6, <2>1, <2>2 DEF Running
<1>9. TrueOf(bkp', own')
  <2>1. bkp.lo + HalfRange * bkp.hi <= cpu.max /\ bkp.lo + HalfRange * bkp.hi \in Int
    <3>1. bkp.lo \in Int /\ bkp.hi \in Int /\ HalfRange \in Int
      BY <1>1, BlackBoxAssumption DEF Registers, Halves
    <3>2. HalfRange * bkp.hi \in Int
      BY <3>1
    <3> QED BY <1>1, <3>1, <3>2 DEF Running, TrueOf
  <2>2. bkp.lo + HalfRange * bkp.hi <= dt
    BY <1>3, <2>1
  <2> QED BY <1>1, <1>6, <2>2 DEF TrueOf
<1> QED BY <1>1, <1>5, <1>6, <1>7, <1>8, <1>9 DEF BoxInv

LEMMA PassMarkKeeps ==
  ASSUME BoxInv, PassMark
  PROVE  BoxInv'
<1>1. /\ cpu \in CpuStates /\ own \in Runs /\ bkp \in Registers /\ cpu.at \in {"lo", "hi"}
      /\ UNCHANGED <<flags, own, earlier>>
      /\ Running(bkp, cpu, own) /\ TrueOf(bkp, own) /\ own.known = bkp.magic
  BY DEF BoxInv, BoxStateOK, PassMark, Running
<1> DEFINE lo == cpu.max % HalfRange
           hi == cpu.max \div HalfRange
<1>2. /\ lo \in Halves /\ hi \in Halves /\ cpu.max = lo + HalfRange * hi
  BY <1>1, BlackBoxAssumption, Halved DEF CpuStates, Passes, Halves
<1>3. ASSUME NEW w \in {bkp.hi, hi}, NEW at \in {"hi", "run"}, at = "run" => w = hi,
             bkp' = [bkp EXCEPT !.lo = lo, !.hi = w], cpu' = [cpu EXCEPT !.at = at]
      PROVE  BoxInv'
  <2>1. bkp.hi \in Halves /\ bkp.hi <= hi /\ own.longest = cpu.max
    BY <1>1 DEF Registers, Running
  <2>2. w \in Halves /\ w <= hi
    BY <1>2, <1>3, <2>1 DEF Halves
  <2>3. bkp' \in Registers /\ cpu' \in CpuStates
    BY <1>1, <1>2, <1>3, <2>2, Zenon DEF Registers, CpuStates
  <2>4. /\ bkp'.phase = bkp.phase /\ bkp'.magic = bkp.magic /\ bkp'.reset = bkp.reset
        /\ bkp'.check = bkp.check /\ bkp'.lo = lo /\ bkp'.hi = w /\ bkp'.pcLo = bkp.pcLo
        /\ bkp'.pcHi = bkp.pcHi /\ bkp'.cause = bkp.cause /\ bkp'.trapCheck = bkp.trapCheck
    BY <1>1, <1>3, Zenon DEF Registers
  <2>5. /\ cpu'.at = at /\ cpu'.max = cpu.max /\ cpu'.clocked = cpu.clocked /\ cpu'.rst = cpu.rst
        /\ cpu'.flash = cpu.flash
    BY <1>1, <1>3, Zenon DEF CpuStates
  <2>6. BoxStateOK'
    BY <1>1, <2>3 DEF BoxInv, BoxStateOK
  <2>7. Running(bkp', cpu', own')
    BY <1>1, <1>3, <2>2, <2>4, <2>5 DEF Running
  <2>8. lo + HalfRange * w <= cpu.max
    <3>1. cpu.max \in Nat /\ w \in Nat /\ HalfRange \in Nat \ {0}
      <4>1. HalfRange * HalfRange \in Nat
        BY BlackBoxAssumption, ProductPositive
      <4> QED BY <1>1, <2>2, <4>1, BlackBoxAssumption DEF CpuStates, Passes, Halves
    <3> QED BY <2>2, <3>1, HalvesInOrder
  <2>9. TrueOf(bkp', own')
    BY <1>1, <2>1, <2>4, <2>8 DEF TrueOf, Matches
  <2> QED BY <1>1, <1>3, <2>4, <2>5, <2>6, <2>7, <2>9 DEF BoxInv
<1>4. CASE cpu.at = "lo"
  <2>1. bkp' = [bkp EXCEPT !.lo = lo] /\ cpu' = [cpu EXCEPT !.at = "hi"]
    BY <1>4 DEF PassMark, MarkFirst
  <2>2. bkp' = [bkp EXCEPT !.lo = lo, !.hi = bkp.hi]
    BY <1>1, <2>1, Zenon DEF Registers
  <2> HIDE DEF lo, hi
  <2>3. bkp.hi \in {bkp.hi, hi} /\ "hi" \in {"hi", "run"} /\ ("hi" = "run" => bkp.hi = hi)
    OBVIOUS
  <2> QED BY <1>3, <2>1, <2>2, <2>3, Zenon
<1>5. CASE cpu.at = "hi"
  <2>1. bkp' = [bkp EXCEPT !.lo = lo, !.hi = hi] /\ cpu' = [cpu EXCEPT !.at = "run"]
    BY <1>5 DEF PassMark
  <2> HIDE DEF lo, hi
  <2>2. hi \in {bkp.hi, hi} /\ "run" \in {"hi", "run"}
    OBVIOUS
  <2> QED BY <1>3, <2>1, <2>2, Zenon
<1> QED BY <1>1, <1>4, <1>5

(* The words of the boot after the magic, one by one. *)
LEMMA TheWords ==
  /\ Len(Words) = 10 /\ BOOT_STORES = 11
  /\ Words[2] = "reset" /\ Words[3] = "check" /\ Words[4] = "phase" /\ Words[5] = "lo" /\ Words[6] = "hi"
  /\ Words[7] = "pcLo" /\ Words[8] = "pcHi" /\ Words[9] = "cause" /\ Words[10] = "trapCheck"
  BY DEF Words, BOOT_STORES

(* Of the words w the word j is that of next, in v. *)
Stored(v, w, next, j) ==
  /\ v \in Registers /\ v.magic = w.magic /\ v[Words[j]] = next[Words[j]]
  /\ \A i \in 2..Len(Words) : i # j => v[Words[i]] = w[Words[i]]

\* A store of the boot past the first changes one word, to the one the boot has for it.
LEMMA StoreWord ==
  ASSUME NEW w \in Registers, NEW next \in Registers, NEW j \in 2..Len(Words)
  PROVE  Stored([w EXCEPT ![Words[j]] = next[Words[j]]], w, next, j)
<1>1. j \in {2, 3, 4, 5, 6, 7, 8, 9, 10} /\ 2..Len(Words) = {2, 3, 4, 5, 6, 7, 8, 9, 10}
  BY TheWords
<1>2. CASE j = 2
  BY <1>1, <1>2, TheWords DEF Registers, Stored
<1>3. CASE j = 3
  BY <1>1, <1>3, TheWords DEF Registers, Stored
<1>4. CASE j = 4
  BY <1>1, <1>4, TheWords DEF Registers, Stored
<1>5. CASE j = 5
  BY <1>1, <1>5, TheWords DEF Registers, Stored
<1>6. CASE j = 6
  BY <1>1, <1>6, TheWords DEF Registers, Stored
<1>7. CASE j = 7
  BY <1>1, <1>7, TheWords DEF Registers, Stored
<1>8. CASE j = 8
  BY <1>1, <1>8, TheWords DEF Registers, Stored
<1>9. CASE j = 9
  BY <1>1, <1>9, TheWords DEF Registers, Stored
<1>10. CASE j = 10
  BY <1>1, <1>10, TheWords DEF Registers, Stored
<1> QED BY <1>1, <1>2, <1>3, <1>4, <1>5, <1>6, <1>7, <1>8, <1>9, <1>10

LEMMA BootStoreKeeps ==
  ASSUME BoxInv, BootStore
  PROVE  BoxInv'
<1>1. /\ cpu \in CpuStates /\ own \in Runs /\ bkp \in Registers /\ cpu.at = "store"
      /\ UNCHANGED <<flags, earlier>> /\ Storing(bkp, cpu)
      /\ cpu.flash = "trap" <=> ("iwdg" \in cpu.rst /\ earlier)
  BY DEF BoxInv, BoxStateOK, BootStore
<1> DEFINE k == cpu.k
           next == cpu.next
           at == IF k + 1 = BOOT_STORES THEN "run" ELSE "store"
<1>2. /\ k \in 0..10 /\ next \in Registers /\ BOOT_STORES = 11 /\ Len(Words) = 10 /\ FirstWords(next)
      /\ next.reset.set = cpu.rst /\ cpu.max = 0 /\ cpu.clocked
  BY <1>1, TheWords DEF CpuStates, Storing
<1>3. cpu' = [cpu EXCEPT !.k = k + 1, !.at = at]
  BY <1>1, Zenon DEF BootStore, CpuStates
<1>4. bkp' = blackbox_boot_store(bkp, next, k)
  BY DEF BootStore
<1>5. own' = IF k + 1 = BOOT_STORES THEN [NoRun EXCEPT !.known = TRUE, !.flags = cpu.rst, !.phase = "boot"]
             ELSE NoRun
  BY DEF BootStore
<1>6. k + 1 \in 0..BOOT_STORES /\ at \in {"run", "store"}
  BY <1>2
<1> HIDE DEF at
<1>7. cpu' \in CpuStates
  BY <1>1, <1>3, <1>6, Zenon DEF CpuStates
<1>8. /\ cpu'.k = k + 1 /\ cpu'.at = at /\ cpu'.next = next /\ cpu'.rst = cpu.rst
      /\ cpu'.flash = cpu.flash /\ cpu'.max = cpu.max /\ cpu'.clocked = cpu.clocked
  BY <1>1, <1>3, Zenon DEF CpuStates
<1> HIDE DEF k, next
<1>9. CASE k = 0
  <2>1. bkp' = [bkp EXCEPT !.magic = FALSE] /\ own' = NoRun /\ at = "store"
    BY <1>2, <1>4, <1>5, <1>9 DEF blackbox_boot_store, at
  <2>2. bkp' \in Registers /\ bkp'.magic = FALSE
    BY <1>1, <2>1 DEF Registers
  <2>3. BoxStateOK'
    BY <1>1, <1>7, <2>1, <2>2, NoRunTyped DEF BoxInv, BoxStateOK
  <2>4. Storing(bkp', cpu')
    BY <1>2, <1>8, <1>9, <2>2 DEF Storing
  <2>5. own'.known = FALSE
    BY <2>1 DEF NoRun
  <2> QED BY <1>1, <1>8, <2>1, <2>2, <2>3, <2>4, <2>5 DEF BoxInv
<1>10. CASE k \in 1..9
  <2>1. bkp' = [bkp EXCEPT ![Words[k + 1]] = next[Words[k + 1]]] /\ own' = NoRun /\ at = "store"
    BY <1>2, <1>4, <1>5, <1>10 DEF blackbox_boot_store, at
  <2>2. k + 1 \in 2..Len(Words)
    BY <1>2, <1>10
  <2>3. /\ bkp' \in Registers /\ bkp'.magic = bkp.magic /\ bkp'[Words[k + 1]] = next[Words[k + 1]]
        /\ \A i \in 2..Len(Words) : i # k + 1 => bkp'[Words[i]] = bkp[Words[i]]
    <3>1. Stored([bkp EXCEPT ![Words[k + 1]] = next[Words[k + 1]]], bkp, next, k + 1)
      BY <1>1, <1>2, <2>2, StoreWord
    <3> QED BY <2>1, <3>1, Zenon DEF Stored
  <2>4. BoxStateOK'
    BY <1>1, <1>7, <2>1, <2>3, NoRunTyped DEF BoxInv, BoxStateOK
  <2>5. ~bkp.magic /\ \A i \in 2..Len(Words) : i <= k => bkp[Words[i]] = next[Words[i]]
    BY <1>1, <1>10 DEF Storing, k, next
  <2>6. Storing(bkp', cpu')
    <3>1. ASSUME NEW i \in 2..Len(Words), i <= cpu'.k PROVE bkp'[Words[i]] = next[Words[i]]
      <4>1. i <= k + 1 /\ i \in Int
        BY <1>8, <3>1
      <4>2. CASE i = k + 1
        BY <2>3, <4>2
      <4>3. CASE i # k + 1
        <5>1. i <= k
          BY <1>2, <4>1, <4>3
        <5> QED BY <2>3, <2>5, <4>3, <5>1
      <4> QED BY <4>2, <4>3
    <3>2. cpu'.k < BOOT_STORES /\ ~bkp'.magic /\ cpu'.max = 0
      BY <1>2, <1>8, <1>10, <2>3, <2>5
    <3> QED BY <1>2, <1>8, <3>1, <3>2 DEF Storing
  <2>7. own'.known = FALSE /\ bkp'.magic = FALSE
    BY <1>1, <2>1, <2>3, <2>5 DEF NoRun, Registers
  <2> QED BY <1>1, <1>8, <2>1, <2>4, <2>6, <2>7 DEF BoxInv
<1>11. CASE k = 10
  <2>1. /\ bkp' = [bkp EXCEPT !.magic = next.magic] /\ at = "run"
        /\ own' = [NoRun EXCEPT !.known = TRUE, !.flags = cpu.rst, !.phase = "boot"]
    BY <1>2, <1>4, <1>5, <1>11 DEF blackbox_boot_store, at
  <2>2. own' \in Runs
    BY <1>1, <2>1, NoRunTyped DEF Runs, AllPhases, CpuStates
  <2>3. /\ own'.known = TRUE /\ own'.flags = cpu.rst /\ own'.phase = "boot" /\ own'.longest = 0
        /\ own'.trapped = FALSE
    BY <2>1 DEF NoRun
  <2>4. bkp' \in Registers /\ bkp'.magic = TRUE
    BY <1>1, <1>2, <2>1 DEF Registers, FirstWords
  <2>5. /\ bkp'.reset = bkp.reset /\ bkp'.check = bkp.check /\ bkp'.phase = bkp.phase /\ bkp'.lo = bkp.lo
        /\ bkp'.hi = bkp.hi /\ bkp'.trapCheck = bkp.trapCheck
    BY <1>1, <2>1 DEF Registers
  <2>6. /\ bkp["reset"] = next["reset"] /\ bkp["check"] = next["check"] /\ bkp["phase"] = next["phase"]
        /\ bkp["lo"] = next["lo"] /\ bkp["hi"] = next["hi"] /\ bkp["trapCheck"] = next["trapCheck"]
    <3>1. \A i \in 2..10 : bkp[Words[i]] = next[Words[i]]
      BY <1>1, <1>2, <1>11 DEF Storing, k, next
    <3> QED BY <3>1, TheWords
  <2>7. /\ bkp'.reset = next.reset /\ bkp'.check = next.check /\ bkp'.phase = next.phase
        /\ bkp'.lo = next.lo /\ bkp'.hi = next.hi /\ bkp'.trapCheck = next.trapCheck
    BY <2>5, <2>6
  <2>8. BoxStateOK'
    BY <1>1, <1>7, <2>2, <2>4 DEF BoxInv, BoxStateOK
  <2>9. TrueOf(bkp', own')
    <3>1. ~Matches(bkp')
      BY <1>2, <2>7 DEF Matches, FirstWords, NoTrapCheck
    <3>2. bkp'.lo + HalfRange * bkp'.hi = 0
      BY <1>2, <2>7, BlackBoxAssumption DEF FirstWords
    <3>3. bkp'.check = bkp'.reset /\ own'.flags = bkp'.reset.set /\ own'.phase = bkp'.phase
      BY <1>2, <2>3, <2>7 DEF FirstWords
    <3> QED BY <2>3, <3>1, <3>2, <3>3 DEF TrueOf
  <2>10. Running(bkp', cpu', own')
    <3>1. 0 % HalfRange = 0 /\ 0 \div HalfRange = 0
      BY BlackBoxAssumption
    <3>2. cpu.clocked
      BY <1>1 DEF Storing
    <3> QED BY <1>2, <1>8, <2>1, <2>3, <2>4, <2>7, <3>1, <3>2 DEF Running, FirstWords
  <2> QED BY <1>1, <1>8, <2>1, <2>3, <2>4, <2>8, <2>9, <2>10 DEF BoxInv
<1> QED BY <1>2, <1>9, <1>10, <1>11

LEMMA TrapStoreKeeps ==
  ASSUME BoxInv, TrapStore
  PROVE  BoxInv'
<1>1. /\ cpu \in CpuStates /\ own \in Runs /\ bkp \in Registers /\ cpu.at = "trap" /\ cpu.clocked
      /\ cpu.k < 4 /\ UNCHANGED <<flags, earlier>> /\ own.known = bkp.magic /\ Trapping(bkp, cpu)
      /\ bkp.magic /\ TrueOf(bkp, own) /\ bkp.trapCheck = NoTrapCheck
  BY DEF BoxInv, BoxStateOK, TrapStore, Trapping
<1> DEFINE k == cpu.k
           pc == cpu.pc
           cause == cpu.cause
<1>2. k \in 0..3 /\ pc \in Halves \X Halves /\ cause \in AnyCause
  BY <1>1 DEF CpuStates
<1>3. cpu' = [cpu EXCEPT !.k = k + 1]
  BY <1>1, Zenon DEF TrapStore, CpuStates
<1>4. k + 1 \in 0..BOOT_STORES
  BY <1>2, TheWords
<1>5. cpu' \in CpuStates
  BY <1>1, <1>3, <1>4, Zenon DEF CpuStates
<1>6. cpu'.k = k + 1 /\ cpu'.at = "trap" /\ cpu'.clocked /\ cpu'.pc = pc /\ cpu'.cause = cause
  BY <1>1, <1>3, Zenon DEF CpuStates
<1>7. bkp' = TrapStored(bkp, k)
  BY DEF TrapStore
<1>8. own' = IF k = 3 THEN [own EXCEPT !.trapped = TRUE, !.pc = pc, !.cause = cause] ELSE own
  BY DEF TrapStore
<1>9. ~own.trapped
  BY <1>1 DEF TrueOf, Matches, NoTrapCheck
<1>10. (k > 0 => bkp.pcLo = pc[1]) /\ (k > 1 => bkp.pcHi = pc[2]) /\ (k > 2 => bkp.cause = cause)
  BY <1>1 DEF Trapping
<1>11. pc[1] \in Halves /\ pc[2] \in Halves /\ pc = <<pc[1], pc[2]>>
  BY <1>2
<1>12. TrapStored(bkp, k) =
         CASE k = 0 -> [bkp EXCEPT !.pcLo = pc[1]]
           [] k = 1 -> [bkp EXCEPT !.pcHi = pc[2]]
           [] k = 2 -> [bkp EXCEPT !.cause = cause]
           [] k = 3 -> [bkp EXCEPT !.trapCheck = <<pc[1], pc[2], cause>>]
  BY DEF TrapStored
<1> HIDE DEF k, pc, cause
<1>13. /\ bkp' \in Registers /\ bkp'.magic = bkp.magic /\ bkp'.reset = bkp.reset /\ bkp'.check = bkp.check
       /\ bkp'.phase = bkp.phase /\ bkp'.lo = bkp.lo /\ bkp'.hi = bkp.hi
       /\ bkp'.pcLo = (IF k = 0 THEN pc[1] ELSE bkp.pcLo)
       /\ bkp'.pcHi = (IF k = 1 THEN pc[2] ELSE bkp.pcHi)
       /\ bkp'.cause = (IF k = 2 THEN cause ELSE bkp.cause)
       /\ bkp'.trapCheck = (IF k = 3 THEN <<pc[1], pc[2], cause>> ELSE NoTrapCheck)
  <2>1. CASE k = 0
    <3>1. bkp' = [bkp EXCEPT !.pcLo = pc[1]]
      BY <1>7, <1>12, <2>1
    <3>2. bkp' \in Registers
      BY <1>1, <1>11, <3>1, Zenon DEF Registers
    <3>3. /\ bkp'.magic = bkp.magic /\ bkp'.reset = bkp.reset /\ bkp'.check = bkp.check /\ bkp'.phase = bkp.phase
          /\ bkp'.lo = bkp.lo /\ bkp'.hi = bkp.hi /\ bkp'.pcLo = pc[1] /\ bkp'.pcHi = bkp.pcHi
          /\ bkp'.cause = bkp.cause /\ bkp'.trapCheck = bkp.trapCheck
      BY <1>1, <3>1, Zenon DEF Registers
    <3> QED BY <1>1, <2>1, <3>2, <3>3
  <2>2. CASE k = 1
    <3>1. bkp' = [bkp EXCEPT !.pcHi = pc[2]]
      BY <1>7, <1>12, <2>2
    <3>2. bkp' \in Registers
      BY <1>1, <1>11, <3>1, Zenon DEF Registers
    <3>3. /\ bkp'.magic = bkp.magic /\ bkp'.reset = bkp.reset /\ bkp'.check = bkp.check /\ bkp'.phase = bkp.phase
          /\ bkp'.lo = bkp.lo /\ bkp'.hi = bkp.hi /\ bkp'.pcLo = bkp.pcLo /\ bkp'.pcHi = pc[2]
          /\ bkp'.cause = bkp.cause /\ bkp'.trapCheck = bkp.trapCheck
      BY <1>1, <3>1, Zenon DEF Registers
    <3> QED BY <1>1, <2>2, <3>2, <3>3
  <2>3. CASE k = 2
    <3>1. bkp' = [bkp EXCEPT !.cause = cause]
      BY <1>7, <1>12, <2>3
    <3>2. bkp' \in Registers
      BY <1>1, <1>2, <3>1, Zenon DEF Registers
    <3>3. /\ bkp'.magic = bkp.magic /\ bkp'.reset = bkp.reset /\ bkp'.check = bkp.check /\ bkp'.phase = bkp.phase
          /\ bkp'.lo = bkp.lo /\ bkp'.hi = bkp.hi /\ bkp'.pcLo = bkp.pcLo /\ bkp'.pcHi = bkp.pcHi
          /\ bkp'.cause = cause /\ bkp'.trapCheck = bkp.trapCheck
      BY <1>1, <3>1, Zenon DEF Registers
    <3> QED BY <1>1, <2>3, <3>2, <3>3
  <2>4. CASE k = 3
    <3>1. bkp' = [bkp EXCEPT !.trapCheck = <<pc[1], pc[2], cause>>]
      BY <1>7, <1>12, <2>4
    <3>2. <<pc[1], pc[2], cause>> \in Halves \X Halves \X AnyCause
      BY <1>2, <1>11
    <3>3. bkp' \in Registers
      BY <1>1, <3>1, <3>2, Zenon DEF Registers
    <3>4. /\ bkp'.magic = bkp.magic /\ bkp'.reset = bkp.reset /\ bkp'.check = bkp.check /\ bkp'.phase = bkp.phase
          /\ bkp'.lo = bkp.lo /\ bkp'.hi = bkp.hi /\ bkp'.pcLo = bkp.pcLo /\ bkp'.pcHi = bkp.pcHi
          /\ bkp'.cause = bkp.cause /\ bkp'.trapCheck = <<pc[1], pc[2], cause>>
      BY <1>1, <3>1, Zenon DEF Registers
    <3> QED BY <1>1, <2>4, <3>3, <3>4
  <2> QED BY <1>2, <2>1, <2>2, <2>3, <2>4
<1>14. /\ own' \in Runs /\ own'.known = own.known /\ own'.flags = own.flags /\ own'.phase = own.phase
       /\ own'.longest = own.longest /\ own'.trapped = (k = 3)
       /\ k = 3 => own'.pc = pc /\ own'.cause = cause
  <2>1. CASE k = 3
    <3>1. own' = [own EXCEPT !.trapped = TRUE, !.pc = pc, !.cause = cause]
      BY <1>8, <2>1
    <3>2. own' \in Runs
      BY <1>1, <1>2, <3>1, Zenon DEF Runs
    <3> QED BY <1>1, <2>1, <3>1, <3>2 DEF Runs
  <2>2. CASE k # 3
    BY <1>1, <1>8, <1>9, <2>2 DEF Runs
  <2> QED BY <2>1, <2>2
<1>15. BoxStateOK'
  BY <1>1, <1>5, <1>13, <1>14 DEF BoxInv, BoxStateOK
<1>16. Trapping(bkp', cpu')
  BY <1>1, <1>2, <1>6, <1>10, <1>13 DEF Trapping
<1>17. TrueOf(bkp', own')
  <2>1. CASE k = 3
    <3>1. bkp'.pcLo = pc[1] /\ bkp'.pcHi = pc[2] /\ bkp'.cause = cause
      BY <1>10, <1>13, <2>1
    <3>2. Matches(bkp')
      BY <1>13, <2>1, <3>1 DEF Matches
    <3> QED BY <1>1, <1>11, <1>13, <1>14, <2>1, <3>1, <3>2 DEF TrueOf
  <2>2. CASE k # 3
    <3>1. ~Matches(bkp')
      BY <1>13, <2>2 DEF Matches, NoTrapCheck
    <3> QED BY <1>1, <1>13, <1>14, <2>2, <3>1 DEF TrueOf
  <2> QED BY <2>1, <2>2
<1> QED BY <1>1, <1>6, <1>13, <1>14, <1>15, <1>16, <1>17 DEF BoxInv

LEMMA BoxInvariant == BoxSpec => []BoxInv
<1>1. BoxInv /\ [BoxNext]_boxVars => BoxInv'
  <2> SUFFICES ASSUME BoxInv, [BoxNext]_boxVars PROVE BoxInv' OBVIOUS
  <2>1. CASE BoxNext
    BY <2>1, TakeKeeps, BootReadKeeps, BootStoreKeeps, PhaseKeeps, StartKeeps, PassEndsKeeps, PassMarkKeeps,
       TrapKeeps, TrapStoreKeeps, HangKeeps, ResetsKeep DEF BoxNext
  <2>2. CASE UNCHANGED boxVars
    <3>1. bkp' = bkp /\ flags' = flags /\ cpu' = cpu /\ own' = own /\ earlier' = earlier
      BY <2>2 DEF boxVars
    <3>2. BoxStateOK'
      BY <3>1 DEF BoxInv, BoxStateOK
    <3> QED BY <3>1, <3>2 DEF BoxInv
  <2> QED BY <2>1, <2>2
<1> QED BY <1>1, BoxInitially, PTL DEF BoxSpec

LEMMA BoxInvTells == BoxInv => RecordIsTrue
<1> SUFFICES ASSUME BoxInv PROVE RecordIsTrue OBVIOUS
<1> DEFINE r == blackbox_decode(bkp)
<1>1. bkp \in Registers /\ cpu \in CpuStates /\ own \in Runs /\ flags \subseteq Flags
      /\ own.known = bkp.magic /\ (bkp.magic => TrueOf(bkp, own))
  BY DEF BoxInv, BoxStateOK
<1>2. /\ r.valid = (bkp.magic /\ bkp.check = bkp.reset) /\ r.flags = bkp.reset.set /\ r.phase = bkp.phase
      /\ r.pass = bkp.lo + HalfRange * bkp.hi /\ r.pc = <<bkp.pcLo, bkp.pcHi>> /\ r.cause = bkp.cause
      /\ r.trapped = (bkp.magic /\ bkp.check = bkp.reset /\ Matches(bkp))
  BY DEF blackbox_decode, Matches, Number
<1> HIDE DEF r
<1>3. BoxTypeOK
  <2>1. bkp.reset \in Headers /\ bkp.lo \in Halves /\ bkp.hi \in Halves /\ bkp.phase \in AllPhases
    BY <1>1 DEF Registers
  <2>2. bkp.reset.set \subseteq Flags /\ bkp.reset.n \in 0..ResetsMax
    BY <2>1 DEF Headers
  <2>3. bkp.magic => bkp.check = bkp.reset
    BY <1>1 DEF TrueOf
  <2>4. cpu.k \in 0..BOOT_STORES /\ cpu.at \in {"take", "boot", "store", "run", "lo", "hi", "trap", "hung"}
    BY <1>1 DEF CpuStates
  <2> QED BY <1>1, <2>1, <2>2, <2>3, <2>4 DEF BoxTypeOK
<1>4. RecordIsOfOneRun
  BY <1>1, <1>2 DEF RecordIsOfOneRun, TrueOf, r
<1>5. PassNeverOverstated
  BY <1>1, <1>2 DEF PassNeverOverstated, TrueOf, r
<1>6. BootFlashIsTrue
  BY DEF BoxInv, BootFlashIsTrue
<1> QED BY <1>3, <1>4, <1>5, <1>6 DEF RecordIsTrue

\* What the next boot reads of the watchdog's record is true of one run: its flags, its phase, its
\* trap and its longest pass, whatever reset came between which stores, for every range of the
\* registers, of the phases and of the places and causes of a trap (blackbox.h, watchdog.cpp).
THEOREM RecordAlwaysTrue == BoxSpec => []RecordIsTrue
  BY BoxInvariant, BoxInvTells, PTL
=============================================================================
