------------------------------- MODULE AhubHost -------------------------------
(***************************************************************************)
(* The unit at an AHUB host (ahub_bus.cpp): the host's packets, the reply  *)
(* that waits for the line, and the end of the boot restore at the first   *)
(* heartbeat (main.cpp), around the loop of LoadedChannel.  The host sets  *)
(* the motions and the active channel itself: set_motion never runs.       *)
(*                                                                         *)
(* The fixed image: every address below ams_max_number is a record in RAM, *)
(* and only the local one has motors.                                      *)
(***************************************************************************)
EXTENDS LoadedChannel, Sequences, SequencesExt

CONSTANTS Lists     \* bound: what the all_filament_stu set packets the host sends may list

\* ours: the entry is for the local AMS.  A num that is neither is a channel that does not exist.
ASSUME ListsAssumption ==
  \A l \in Lists : \A i \in DOMAIN l :
    l[i].ours \in BOOLEAN /\ \A c \in Channels : l[i].motion[c] \in Motions \cup {"unknown"}

\* A packet whose type, address or length its handler does not take is "refused", one with a bad
\* checksum or header "broken".
Plain(kind) == [kind |-> kind, list |-> << >>]
NoPacket == Plain("none")
\* Its list is that of an all_filament_stu set packet; what sets filaments is FilamentInfo's.
Packets == {Plain(k) : k \in {"heartbeat", "query", "refused", "broken"}}
             \cup {[kind |-> "set", list |-> l] : l \in Lists}

VARIABLES
  packet,    \* the oldest packet of the port
  reply,     \* send_data_len > 0
  idle,      \* the port does not send
  heard,     \* ahub_link.seen
  lost,      \* ahub_link.lost
  host       \* bus_host_device_type is set

port == <<packet, reply, idle, heard, lost, host>>
allVars == <<vars, port>>

\* The unit comes from a printer, which may have left a channel loaded (its log has a record).
AhubInit ==
  /\ \E atBoot \in BOOLEAN : ram = RamInit(atBoot, None)
  /\ pos = NoPos /\ key = [c \in Channels |-> FALSE]
  /\ pass = "off" /\ blank = FALSE
  /\ stored \in {StaReg(l) : l \in Loaded} /\ known = stored
  /\ pending = NoPending /\ stuck = FALSE
  /\ packet = NoPacket /\ reply = FALSE /\ idle = TRUE
  /\ heard = FALSE /\ lost = FALSE /\ host = FALSE

-----------------------------------------------------------------------------
\* A packet is complete.
Receive ==
  /\ pass # "off" /\ packet = NoPacket
  /\ packet' \in Packets
  /\ UNCHANGED <<vars, reply, idle, heard, lost, host>>

\* The DMA has sent the reply.
SendEnds == ~idle /\ idle' = TRUE /\ UNCHANGED <<vars, packet, reply, heard, lost, host>>

\* The host is silent for longer than the timeout of its link (HostLink).
Silence == heard /\ ~lost /\ lost' = TRUE /\ UNCHANGED <<vars, packet, reply, idle, heard, host>>

Exists(e) == e.num \in Channels \cup {None}

\* Variant for mutation: an entry is judged when it is its turn.
SetEntriesInTurn(r, p) ==
  FoldLeft(LAMBDA s, e : IF e.ours /\ Exists(e) THEN [s EXCEPT !.num = e.num, !.motion = e.motion]
                         ELSE s, r, p)

\* ahubus_slave_get_package_set, of all channels: every entry is judged before the first is taken.
SetEntries(r, p) ==
  IF \E i \in DOMAIN p : ~Exists(p[i]) THEN r
  ELSE FoldLeft(LAMBDA s, e : IF e.ours THEN [s EXCEPT !.num = e.num, !.motion = e.motion] ELSE s,
                r, p)

\* Its answer is built wherever the handler does not return.
Answered(p) == /\ p.kind \in {"heartbeat", "query", "set"}
               /\ \A i \in DOMAIN p.list : Exists(p.list[i])

\* ahubus_run takes no packet while an earlier reply waits for the line.
Taken == packet # NoPacket /\ ~reply

\* Variant for mutation: main leaves the restore to the printer.
RestoreKept(r, p) == r

\* main: the AHUB host sets the channel states itself (boot_restore_drop).
RestoreDropped(r, p) == IF p.kind = "heartbeat" THEN [r EXCEPT !.restore = None] ELSE r

\* Variant for mutation: a packet that is not answered is not released either.
ReleasedIfAnswered == Taken /\ Answered(packet)

Released == Taken

\* A pass of the main loop up to the saves: ahubus_run, send_package, the host's protocol.
AhubPass ==
  /\ pass = "bus" /\ pass' = "nvm"
  /\ packet' = IF Released THEN NoPacket ELSE packet
  /\ ram' = IF ~Taken THEN ram
            ELSE RestoreDropped(SetEntries(ram, packet.list), packet)
  /\ LET waits == reply \/ (Taken /\ Answered(packet))
     IN  reply' = (waits /\ ~idle) /\ idle' = (idle /\ ~waits)
  /\ LET beat == Taken /\ packet.kind = "heartbeat"
     IN  heard' = (heard \/ beat) /\ lost' = (lost /\ ~beat)
  /\ host' = (host \/ (Taken /\ packet.kind # "broken"))
  /\ UNCHANGED <<pos, key, blank, log>>

\* The motors stop while no host is known or its link is lost.
AhubMotion ==
  /\ \E ended \in SUBSET {c \in Channels : Retracting(c)} :
       Motion_control_run(~host \/ lost, ended)
  /\ UNCHANGED port

AhubPowerCut ==
  /\ PowerCut
  /\ packet' = NoPacket /\ reply' = FALSE /\ idle' = TRUE
  /\ heard' = FALSE /\ lost' = FALSE /\ host' = FALSE

AhubNext ==
  \/ Receive \/ SendEnds \/ Silence
  \/ AhubPass \/ AhubMotion \/ AhubPowerCut
  \/ (Boot \/ NoSave \/ Save \/ LogCommit \/ LogAcknowledge \/ LogStick) /\ UNCHANGED port

AhubSpec == AhubInit /\ [][AhubNext]_allVars

-----------------------------------------------------------------------------

TakesSet == pass = "bus" /\ pass' = "nvm" /\ Taken /\ packet.kind = "set"

\* Once the host has been heard, what it set stands: nothing the unit knows from before its
\* boot changes the active channel or a motion any more, not even the runout of the channel
\* that was restored.  Only the end of a channel's own pull back makes it idle.
HostStatesStand ==
  [][heard /\ pass' # "off" /\ ~TakesSet =>
       /\ ram'.num = ram.num
       /\ \A c \in Channels :
            ram'.motion[c] # ram.motion[c] =>
              ram'.motion[c] = "idle" /\ (Retracting(c) \/ ram.motion[c] = "pull_back")]_allVars

\* The entries for the local AMS, and whether the pass has built an answer.
Ours(l)     == {i \in DOMAIN l : l[i].ours}
AnswerBuilt == reply' \/ (idle /\ ~idle')

\* A set packet is taken whole or not at all, and the answer tells which: with one, the last
\* entry for us is what the motors see; without one nothing has changed, so the host may
\* send it again.
AnswerTellsTheTruth ==
  [][TakesSet =>
       IF AnswerBuilt /\ Ours(packet.list) # {}
       THEN LET last == packet.list[Max(Ours(packet.list))]
            IN  ram'.num = last.num /\ ram'.motion = last.motion
       ELSE ram'.num = ram.num /\ ram'.motion = ram.motion]_allVars

AhubFairness ==
  /\ WF_allVars(Boot /\ UNCHANGED port) /\ WF_allVars(AhubPass)
  /\ WF_allVars((NoSave \/ Save) /\ UNCHANGED port) /\ WF_allVars(AhubMotion)
  /\ WF_allVars(SendEnds)

AhubFairSpec == AhubSpec /\ AhubFairness

\* Whatever the host sends, a packet waits only until the line has taken the reply before it:
\* broken and refused packets do not close the port.
PacketsGo == packet # NoPacket ~> packet = NoPacket
==============================================================================
