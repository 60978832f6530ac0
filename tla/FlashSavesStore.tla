--------------------------- MODULE FlashSavesStore ---------------------------
(***************************************************************************)
(* FlashSaves implements NvStore: a power cut at any moment leaves the old *)
(* or the new value of the record being written, and every other record    *)
(* untouched.                                                              *)
(***************************************************************************)
EXTENDS FlashSaves

CONSTANT NoPending

ASSUME NoPendingAssumption ==
  /\ NoPending \notin Channels \X (Infos \cup {NoInfo})
  /\ NoPending \notin {"sta"} \X Loaded

\* What a boot that starts now would restore for channel c: the scratch copy wins.
FilStored(c) ==
  IF ScratchValid(flash) /\ Rescued.channel = c THEN Rescued.info ELSE FilScanLast(flash, c)

\* The channel a boot that starts now would find in the loaded-channel log.
StaStored ==
  IF StaValid(flash) = {} THEN NoneLoaded
  ELSE flash[StaAddr(CHOOSE s \in StaNewest(flash) : TRUE)].channel

Running == mode = "run"

FilContents == [c \in Channels |-> FilStored(c)]

\* Until the boot is over nothing is known but what is stored.
FilKnown == [c \in Channels |-> IF Running THEN filLast[c] ELSE FilStored(c)]
StaKnown == IF Running THEN sta.loaded ELSE StaStored

FilPending ==
  IF Running /\ job.kind \in {1, 3, 4} THEN <<job.channel, job.rec.info>> ELSE NoPending
StaPending == IF Running /\ job.kind = 2 THEN <<"sta", job.channel>> ELSE NoPending

Fil == INSTANCE NvStore WITH
         Regs <- Channels, Vals <- Infos \cup {NoInfo},
         stored <- FilContents, known <- FilKnown,
         pending <- FilPending, stuck <- Running /\ fault

Sta == INSTANCE NvStore WITH
         Regs <- {"sta"}, Vals <- Loaded,
         stored <- [r \in {"sta"} |-> StaStored], known <- [r \in {"sta"} |-> StaKnown],
         pending <- StaPending, stuck <- Running /\ fault

\* A filament record survives a power cut at any step of its write, of a rollover and
\* of the recovery of a rollover: the boot finds the old or the new one, and the write
\* answers true only for what is stored (Flash_saves.h, "They return true only when
\* flash already holds that value").
FilamentDurable == Fil!Spec

\* The same for the loaded channel, over the wrap of the log and of its sequence numbers.
LoadedDurable == Sta!Spec

-----------------------------------------------------------------------------
(* Why it holds: the inductive invariant, part by part.                    *)

FilSlotsAbove(c, s) == {t \in 0 .. FilSlots - 1 : t > s}

\* The caches of channel c are what a scan of its page gives.
PageScanned(c) ==
  filLast[c] = FilScanLast(flash, c) /\ filCursor[c] = FilScanCursor(flash, c)

\* Nothing above slot s of channel c's page was ever used since its erase.
ErasedAbove(c, s) == \A t \in FilSlotsAbove(c, s) : flash[FilAddr(c, t)] = Erased

\* The operation just finished was the last halfword of the record.
Written == job.phase = 2 /\ hw = "ok" /\ LastHalfword

\* What the slot being programmed holds at each point of the job.
TargetCell ==
  IF Written THEN job.rec
  ELSE IF job.index = 0 /\ ~(job.phase = 2 /\ hw = "ok") THEN Erased ELSE Torn

\* Phase, controller and job agree.
JobShape ==
  /\ mode # "run" => job = NoJob /\ hw = "idle" /\ ~fault
  /\ job.kind = 0 => job = NoJob /\ hw = "idle"
  /\ hw = "idle" <=> job.phase = 0
  /\ job.phase # 0 => (job.phase = 1 <=> job.erase)
  /\ job.phase = 0 /\ job.kind # 0 => ~fault
  /\ job.kind # 0 => IF job.kind = 4 THEN job.erase /\ job.halfwords = 0 /\ job.index = 0
                     ELSE job.index < job.halfwords /\ job.halfwords > 1
  /\ job.erase => job.index = 0
  /\ job.kind \in {1, 3, 4} =>
       /\ job.channel \in Channels
       /\ job.rec = IF job.kind = 3 THEN ScratchRecord(job.channel, job.rec.info)
                    ELSE FilRecord(job.rec.info)
       /\ job.rec.info \in Infos

\* fil_scratch_recover: the record is safe in the scratch page until its own page has it.
RecoverySafe ==
  mode \in {"erase", "program", "retire"} =>
    /\ ScratchValid(flash)
    /\ \A c \in Channels : filLast[c] = FilStored(c)
    /\ \A c \in Channels : c # Rescued.channel \/ mode = "retire"
                           => filCursor[c] = FilScanCursor(flash, c)
    /\ mode = "program" =>
         \A s \in 0 .. FilSlots - 1 : flash[FilAddr(Rescued.channel, s)] = Erased
    /\ mode = "retire" => FilScanLast(flash, Rescued.channel) = Rescued.info

\* Channels no filament job is writing.
OthersScanned ==
  mode = "run" /\ (~fault \/ job.kind # 0) /\ hw # "failed" =>
    \A c \in Channels : job.kind \in {0, 2} \/ c # job.channel => PageScanned(c)

NoStrayScratch ==
  mode = "run" /\ (~fault \/ job.kind # 0) /\ hw # "failed" =>
    (job.kind \in {0, 2} \/ (job.kind = 1 /\ ~job.rollover) => ~ScratchValid(flash))

\* A record appended to its page: kind 1, no rollover.
AppendSafe ==
  job.kind = 1 /\ ~job.rollover /\ hw # "failed" =>
    \E s \in 0 .. FilSlots - 1 :
      /\ job.addr = FilAddr(job.channel, s)
      /\ ~job.erase
      /\ filCursor[job.channel] = s + 1
      /\ flash[FilAddr(job.channel, s)] = TargetCell
      /\ ErasedAbove(job.channel, s)
      /\ ~Written => filLast[job.channel] = FilScanLast(flash, job.channel)

\* The copy into the scratch page: kind 3.  The page still has the old record.
CopySafe ==
  job.kind = 3 /\ hw # "failed" =>
    /\ job.addr = ScratchAddr /\ job.rollover
    /\ filCursor[job.channel] = 1
    /\ filLast[job.channel] = FilScanLast(flash, job.channel)
    /\ IF job.erase THEN ~ScratchValid(flash) /\ (hw = "ok" => flash[ScratchAddr] = Erased)
       ELSE flash[ScratchAddr] = TargetCell

\* The page erased and rewritten: kind 1 of a rollover.  The scratch page has the record.
RewriteSafe ==
  job.kind = 1 /\ job.rollover =>
    /\ job.addr = FilAddr(job.channel, 0)
    /\ filCursor[job.channel] = 1
    /\ flash[ScratchAddr] = ScratchRecord(job.channel, job.rec.info)
    /\ hw # "failed" /\ (job.erase => hw = "ok") =>
         /\ flash[FilAddr(job.channel, 0)] = TargetCell
         /\ ErasedAbove(job.channel, 0)

\* The scratch page erased: kind 4.  The page has the record.
RetireSafe ==
  job.kind = 4 =>
    /\ job.addr = ScratchAddr
    /\ filCursor[job.channel] = 1
    /\ flash[FilAddr(job.channel, 0)] = FilRecord(job.rec.info)
    /\ ErasedAbove(job.channel, 0)
    /\ ScratchValid(flash) => flash[ScratchAddr] = ScratchRecord(job.channel, job.rec.info)
    /\ hw = "ok" => ~ScratchValid(flash)

\* The log: the record last acknowledged is intact and no job touches it.
LogSafe ==
  /\ job.kind = 2 =>
       /\ job.addr = StaAddr(job.slot)
       /\ job.rec = StaRecord(sta.seq, job.channel)
       /\ hw # "failed" /\ (job.erase => hw = "ok") => flash[job.addr] = TargetCell
  /\ sta.have =>
       /\ flash[StaAddr(sta.savedSlot)] \in StaRecords
       /\ flash[StaAddr(sta.savedSlot)].channel = sta.loaded
       /\ job.kind = 2 => /\ job.addr # StaAddr(sta.savedSlot)
                          /\ job.erase => job.addr[1] # StaPageOf(sta.savedSlot)

IInv ==
  /\ TypeOK /\ JobShape /\ RecoverySafe /\ OthersScanned /\ NoStrayScratch
  /\ AppendSafe /\ CopySafe /\ RewriteSafe /\ RetireSafe /\ LogSafe

-----------------------------------------------------------------------------
\* nvm_sta_scan, slot by slot as its loop goes; -1 where it has no record yet.
StaScanLoop(f) ==
  LET valid == StaValid(f)
      best[n \in 0 .. StaPages * StaSlotsPerPage] ==
        IF n = 0 THEN -1
        ELSE LET s == n - 1
                 b == best[n - 1]
             IN  IF s \in valid /\ (b = -1 \/ SeqNewer(f[StaAddr(s)].seq, f[StaAddr(b)].seq))
                 THEN s ELSE b
  IN  best[StaPages * StaSlotsPerPage]

\* The write under way ends: with the record stored, dropped by a fault, or cut by power.
JobEnds == job.kind # 0 ~> job.kind = 0

\* The flash operation ends and the main loop goes on.  bus_background_ready() is true
\* again and again while the bus is quiet, so a job between two operations goes on too.
Fairness ==
  /\ WF_vars(FlashDone)
  /\ WF_vars(BackgroundFail) /\ WF_vars(BackgroundNext) /\ WF_vars(BackgroundStart)
  /\ WF_vars(BackgroundRollPage) /\ WF_vars(BackgroundRollScratch)
  /\ WF_vars(BackgroundFilamentDone) /\ WF_vars(BackgroundStateDone)

FairSpec == Spec /\ Fairness
==============================================================================
