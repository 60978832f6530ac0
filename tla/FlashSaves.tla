----------------------------- MODULE FlashSaves -----------------------------
(***************************************************************************)
(* The journals of the NVM sector (Flash_saves.cpp, nvm_records.h,         *)
(* nvm_journal.h): four filament pages with their rollover scratch page,   *)
(* the loaded-channel log, the background job that writes them one flash   *)
(* operation at a time, and the recovery at boot.                          *)
(*                                                                         *)
(* A flash address is <<page, record slot>>, with the page numbers of      *)
(* Flash_saves.h.  A record slot is Erased, holds a complete record whose  *)
(* CRC and magic check, or is Torn: programmed, but no record.             *)
(***************************************************************************)
EXTENDS Integers, FiniteSets, FiniteSetsExt

CONSTANTS
  NumChannels,       \* 4 in the firmware
  FilSlots,          \* NVM_FIL_SLOTS_PER_PAGE, 6
  FilHalfwords,      \* 2 * NVM_FIL_SLOT_WORDS, 20
  StaPages,          \* NVM_STA_LOG_PAGES, 8
  StaSlotsPerPage,   \* NVM_STA_SLOTS_PER_PAGE, 32
  StaHalfwords,      \* 2 * NVM_STA_SLOT_WORDS, 4
  SeqMod,            \* 2^16, the range of a log sequence number
  Infos,             \* the filament records (Flash_FilamentInfo)
  NoInfo,            \* g_fil_have = 0
  NoneLoaded,        \* channel 0xFF
  FilWrites,         \* the records the firmware writes
  StaWrites,         \* the loaded channels it writes
  Erased, Torn,
  MaxStaTears        \* bound: erases of a log page that are cut short or fail

Channels == 0 .. NumChannels - 1
Loaded   == Channels \cup {NoneLoaded}

FilRecords     == [magic : {"FIL1"}, info : Infos]
ScratchRecords == [magic : {"R2C@"}, channel : Channels, info : Infos]
StaRecords     == [magic : {"STA1"}, seq : 0 .. SeqMod - 1, channel : Loaded]
Records        == FilRecords \cup ScratchRecords \cup StaRecords
Cells          == Records \cup {Erased, Torn}

ASSUME GeometryAssumption ==
  /\ NumChannels \in 1 .. 4
  /\ StaPages \in 2 .. 8
  /\ FilSlots \in Nat \ {0} /\ StaSlotsPerPage \in Nat \ {0}
  /\ FilHalfwords \in Nat \ {0, 1} /\ StaHalfwords \in Nat \ {0, 1}
  /\ SeqMod \in Nat \ {0}
  /\ MaxStaTears \in Nat

ASSUME ValueAssumption ==
  /\ NoInfo \notin Infos
  /\ NoneLoaded \notin Channels
  /\ FilWrites \subseteq Infos /\ StaWrites \subseteq Loaded
  /\ Erased # Torn
  /\ Erased \notin Records /\ Torn \notin Records

-----------------------------------------------------------------------------
(* The layout of the sector.                                               *)

FilPage(c)  == 2 + c
ScratchPage == 14
StaSlots    == 0 .. StaPages * StaSlotsPerPage - 1
StaPageOf(s) == 6 + s \div StaSlotsPerPage
StaAddr(s)  == <<StaPageOf(s), s % StaSlotsPerPage>>
FilAddr(c, s) == <<FilPage(c), s>>
ScratchAddr == <<ScratchPage, 0>>

Addrs == {FilAddr(c, s) : c \in Channels, s \in 0 .. FilSlots - 1}
           \cup {StaAddr(s) : s \in StaSlots} \cup {ScratchAddr}

OnPage(p) == {a \in Addrs : a[1] = p}

VARIABLES
  flash,      \* the sector: [Addrs -> Cells]
  mode,       \* "off", the step fil_scratch_recover is at, or "run" (main loop)
  fault,      \* g_flash_fault
  job,        \* g_flash_job
  hw,         \* the flash controller: "idle", "busy" (BSY), "ok" or "failed"
  filLast,    \* g_fil_last, NoInfo where g_fil_have is 0
  filCursor,  \* g_fil_first_empty
  sta,        \* g_sta_seq, g_sta_slot, g_sta_have_saved, g_sta_saved_slot, g_sta_saved_loaded
  staTears    \* erases of a log page so far that were cut short or failed

vars == <<flash, mode, fault, job, hw, filLast, filCursor, sta, staTears>>

-----------------------------------------------------------------------------
(* What a scan finds (nvm_records.h) and where the log writes next         *)
(* (nvm_journal.h).                                                        *)

FilUsed(f, c)  == {s \in 0 .. FilSlots - 1 : f[FilAddr(c, s)] # Erased}
FilValid(f, c) == {s \in 0 .. FilSlots - 1 : f[FilAddr(c, s)] \in FilRecords}

FilScanCursorAfterValid(f, c) == IF FilValid(f, c) = {} THEN 0 ELSE Max(FilValid(f, c)) + 1

\* nvm_fil_scan_page: the first erased slot after the last used one ...
FilScanCursor(f, c) == IF FilUsed(f, c) = {} THEN 0 ELSE Max(FilUsed(f, c)) + 1

\* ... and the record in the highest valid slot.
FilScanLast(f, c) ==
  IF FilValid(f, c) = {} THEN NoInfo ELSE f[FilAddr(c, Max(FilValid(f, c)))].info

ScratchValid(f) == f[ScratchAddr] \in ScratchRecords

StaValid(f) == {s \in StaSlots : f[StaAddr(s)] \in StaRecords}

\* nvm_sta_seq_newer: (int16_t)(a - b) > 0, at the width SeqMod.
SeqNewer(a, b) == (a - b) % SeqMod \in 1 .. (SeqMod - 1) \div 2

\* nvm_sta_scan: the slot no other valid slot beats; the lower one when not ordered.
StaNewest(f) ==
  {s \in StaValid(f) : \A t \in StaValid(f) \ {s} :
     /\ ~SeqNewer(f[StaAddr(t)].seq, f[StaAddr(s)].seq)
     /\ t < s => SeqNewer(f[StaAddr(s)].seq, f[StaAddr(t)].seq)}

StaAfter(s) == (s + 1) % (StaPages * StaSlotsPerPage)

StaEmpty == [seq |-> 0, slot |-> 0, have |-> FALSE, savedSlot |-> 0, loaded |-> NoneLoaded]

\* Variant for mutation: the boot goes on with the sequence number it found.
StaScanSameSeq(f) ==
  IF StaValid(f) = {} THEN {StaEmpty}
  ELSE {[seq |-> f[StaAddr(s)].seq, slot |-> StaAfter(s), have |-> TRUE,
         savedSlot |-> s, loaded |-> f[StaAddr(s)].channel] : s \in StaNewest(f)}

\* What Flash_AMS_state_read may leave in the caches.
StaScan(f) ==
  IF StaValid(f) = {} THEN {StaEmpty}
  ELSE {[seq |-> (f[StaAddr(s)].seq + 1) % SeqMod, slot |-> StaAfter(s), have |-> TRUE,
         savedSlot |-> s, loaded |-> f[StaAddr(s)].channel] : s \in StaNewest(f)}

\* nvm_sta_find_slot: slots ahead of the cursor, round the whole log.
Ahead(k) == (sta.slot + k) % (StaPages * StaSlotsPerPage)
StaFree  == {k \in StaSlots : flash[StaAddr(Ahead(k))] = Erased}

\* No slot free: the page of the cursor, or the next one if it holds the newest record.
StaVictim ==
  LET page == sta.slot \div StaSlotsPerPage
  IN  IF sta.have /\ page = sta.savedSlot \div StaSlotsPerPage
      THEN (page + 1) % StaPages ELSE page

StaFindSlot ==
  IF StaFree # {} THEN [slot |-> Ahead(Min(StaFree)), erase |-> FALSE]
  ELSE [slot |-> StaVictim * StaSlotsPerPage, erase |-> TRUE]

-----------------------------------------------------------------------------
(* The background job (struct Flash_job).  kind: 1 a filament record, 2 a  *)
(* loaded-channel record, 3 the scratch copy before a rollover, 4 the      *)
(* scratch erase after it.  phase: 1 erasing, 2 programming.               *)

NoJob == [kind |-> 0, channel |-> NoneLoaded, addr |-> ScratchAddr, slot |-> 0, rec |-> Torn,
          erase |-> FALSE, rollover |-> FALSE, halfwords |-> 0, index |-> 0, phase |-> 0]

Idle == job.kind = 0 /\ hw # "busy"     \* Flash_background_idle

FilRecord(i)        == [magic |-> "FIL1", info |-> i]
ScratchRecord(c, i) == [magic |-> "R2C@", channel |-> c, info |-> i]
StaRecord(q, l)     == [magic |-> "STA1", seq |-> q, channel |-> l]

\* Variant for mutation: a full page is erased and rewritten with no scratch copy.
FilamentWriteInPlace(c, i) ==
  LET full == filCursor[c] >= FilSlots
      slot == IF full THEN 0 ELSE filCursor[c]
  IN  /\ mode = "run" /\ ~fault /\ Idle
      /\ filLast[c] # i
      /\ job' = [kind |-> 1, channel |-> c, addr |-> FilAddr(c, slot), slot |-> 0,
                 rec |-> FilRecord(i), erase |-> full, rollover |-> FALSE,
                 halfwords |-> FilHalfwords, index |-> 0, phase |-> 0]
      /\ filCursor' = [filCursor EXCEPT ![c] = slot + 1]
      /\ UNCHANGED <<flash, mode, fault, hw, filLast, sta, staTears>>

\* ... and otherwise queues a job: the next slot, or a rollover through the scratch page.
Flash_AMS_filament_write(c, i) ==
  LET full == filCursor[c] >= FilSlots
      slot == IF full THEN 0 ELSE filCursor[c]
  IN  /\ mode = "run" /\ ~fault /\ Idle
      /\ filLast[c] # i
      /\ job' = [kind |-> IF full THEN 3 ELSE 1, channel |-> c,
                 addr |-> IF full THEN ScratchAddr ELSE FilAddr(c, slot), slot |-> 0,
                 rec |-> IF full THEN ScratchRecord(c, i) ELSE FilRecord(i),
                 erase |-> full, rollover |-> full, halfwords |-> FilHalfwords,
                 index |-> 0, phase |-> 0]
      /\ filCursor' = [filCursor EXCEPT ![c] = slot + 1]
      /\ UNCHANGED <<flash, mode, fault, hw, filLast, sta, staTears>>

Flash_AMS_state_write(l) ==
  LET found == StaFindSlot
  IN  /\ mode = "run" /\ ~fault /\ Idle
      /\ ~(sta.have /\ sta.loaded = l)
      /\ job' = [kind |-> 2, channel |-> l, addr |-> StaAddr(found.slot), slot |-> found.slot,
                 rec |-> StaRecord(sta.seq, l), erase |-> found.erase, rollover |-> FALSE,
                 halfwords |-> StaHalfwords, index |-> 0, phase |-> 0]
      /\ sta' = [sta EXCEPT !.slot = StaAfter(found.slot)]
      /\ UNCHANGED <<flash, mode, fault, hw, filLast, filCursor, staTears>>

-----------------------------------------------------------------------------
(* The flash itself.  A page erase or a halfword program takes time and    *)
(* may be cut short; a halfword can only be programmed in an erased slot   *)
(* or in the one this job has begun.                                       *)

ErasedPage(f, p) == [a \in Addrs |-> IF a[1] = p THEN Erased ELSE f[a]]

\* An erase that is cut short leaves each slot of the page as it was, erased or garbage.
TornErase(p) ==
  \E kept, blank \in SUBSET OnPage(p) :
    flash' = [a \in Addrs |-> IF a[1] # p \/ a \in kept THEN flash[a]
                              ELSE IF a \in blank THEN Erased ELSE Torn]

LastHalfword == job.index + 1 = job.halfwords
Programmable == job.index = 0 => flash[job.addr] = Erased

\* A program that is cut short may have happened or not, or not quite.
TornProgram(a, rec, last) ==
  \E cell \in {flash[a], Torn} \cup (IF last THEN {rec} ELSE {}) :
    flash' = [flash EXCEPT ![a] = cell]

\* What the operation under way leaves when it does not run to its end.
TornOperation ==
  \/ /\ job.phase = 1 /\ job.kind # 2
     /\ TornErase(job.addr[1])
     /\ UNCHANGED staTears
  \/ /\ job.phase = 1 /\ job.kind = 2
     /\ staTears < MaxStaTears /\ staTears' = staTears + 1
     /\ TornErase(job.addr[1])
  \/ /\ job.phase = 2
     /\ TornProgram(job.addr, job.rec, LastHalfword /\ Programmable)
     /\ UNCHANGED staTears

FlashDone ==
  /\ hw = "busy"
  /\ \/ /\ hw' = "ok"
        /\ \/ /\ job.phase = 1
              /\ flash' = ErasedPage(flash, job.addr[1])
           \/ /\ job.phase = 2 /\ Programmable
              /\ flash' = [flash EXCEPT ![job.addr] = IF LastHalfword THEN job.rec ELSE Torn]
        /\ UNCHANGED staTears
     \/ /\ hw' = "failed"
        /\ TornOperation
  /\ UNCHANGED <<mode, fault, job, filLast, filCursor, sta>>

-----------------------------------------------------------------------------
(* Flash_background_run, called once per pass of the main loop.            *)

\* The job with the finished operation ticked off.
Ticked == [job EXCEPT !.phase = 0,
                      !.erase = FALSE,
                      !.index = IF job.phase = 2 THEN job.index + 1 ELSE job.index]

Start(j) ==
  /\ job' = [j EXCEPT !.phase = IF j.erase THEN 1 ELSE 2]
  /\ hw' = "busy"

OperationOk   == job.phase # 0 /\ hw = "ok" /\ ~fault
OperationsDone == OperationOk /\ Ticked.index = Ticked.halfwords

\* Still busy past the timeout: the fault is noted, the job stays until BSY clears.
BackgroundTimeout ==
  /\ mode = "run" /\ job.kind # 0 /\ hw = "busy"
  /\ fault' = TRUE
  /\ UNCHANGED <<flash, mode, job, hw, filLast, filCursor, sta, staTears>>

\* The read-back differs, or a fault was noted meanwhile: the job is dropped.
BackgroundFail ==
  /\ mode = "run" /\ job.kind # 0 /\ job.phase # 0 /\ hw # "busy"
  /\ ~OperationOk
  /\ fault' = TRUE
  /\ job' = NoJob /\ hw' = "idle"
  /\ UNCHANGED <<flash, mode, filLast, filCursor, sta, staTears>>

\* Between operations; the next one starts in the same call if the bus leaves time for it.
BackgroundNext ==
  /\ mode = "run" /\ job.kind # 0
  /\ OperationOk /\ ~OperationsDone
  /\ \/ Start(Ticked)
     \/ job' = Ticked /\ hw' = "idle"
  /\ UNCHANGED <<flash, mode, fault, filLast, filCursor, sta, staTears>>

BackgroundStart ==
  /\ mode = "run" /\ job.kind # 0 /\ job.phase = 0
  /\ ~fault
  /\ Start(job)
  /\ UNCHANGED <<flash, mode, fault, filLast, filCursor, sta, staTears>>

\* The scratch copy is complete: erase the page and write the record into slot 0.
BackgroundRollPage ==
  /\ mode = "run" /\ job.kind = 3
  /\ OperationsDone
  /\ job' = [Ticked EXCEPT !.kind = 1, !.addr = FilAddr(job.channel, 0),
                           !.rec = FilRecord(job.rec.info), !.index = 0, !.erase = TRUE]
  /\ hw' = "idle"
  /\ UNCHANGED <<flash, mode, fault, filLast, filCursor, sta, staTears>>

\* The page is rewritten: erase the scratch copy.
BackgroundRollScratch ==
  /\ mode = "run" /\ job.kind = 1 /\ job.rollover
  /\ OperationsDone
  /\ job' = [Ticked EXCEPT !.kind = 4, !.addr = ScratchAddr, !.index = 0, !.halfwords = 0,
                           !.erase = TRUE]
  /\ hw' = "idle"
  /\ UNCHANGED <<flash, mode, fault, filLast, filCursor, sta, staTears>>

BackgroundFilamentDone ==
  /\ mode = "run"
  /\ job.kind = 4 \/ (job.kind = 1 /\ ~job.rollover)
  /\ OperationsDone
  /\ filLast' = [filLast EXCEPT ![job.channel] = job.rec.info]
  /\ job' = NoJob /\ hw' = "idle"
  /\ UNCHANGED <<flash, mode, fault, filCursor, sta, staTears>>

BackgroundStateDone ==
  /\ mode = "run" /\ job.kind = 2
  /\ OperationsDone
  /\ sta' = [sta EXCEPT !.seq = (sta.seq + 1) % SeqMod, !.savedSlot = job.slot,
                        !.loaded = job.channel, !.have = TRUE]
  /\ job' = NoJob /\ hw' = "idle"
  /\ UNCHANGED <<flash, mode, fault, filLast, filCursor, staTears>>

Flash_background_run ==
  \/ BackgroundTimeout \/ BackgroundFail \/ BackgroundNext \/ BackgroundStart
  \/ BackgroundRollPage \/ BackgroundRollScratch
  \/ BackgroundFilamentDone \/ BackgroundStateDone

-----------------------------------------------------------------------------
(* Boot: Flash_saves_init, with fil_scratch_recover spelled out step by    *)
(* step, since the power may fail again between any two of them.           *)

\* The RAM of a board without power.
VolatileBlank ==
  /\ job' = NoJob /\ hw' = "idle" /\ fault' = FALSE
  /\ filLast' = [c \in Channels |-> NoInfo]
  /\ filCursor' = [c \in Channels |-> 0]
  /\ sta' = StaEmpty

Rescued == flash[ScratchAddr]     \* the scratch record, where one is valid

Boot ==
  /\ mode = "off"
  /\ filCursor' = [c \in Channels |-> FilScanCursor(flash, c)]
  /\ sta' \in StaScan(flash)
  /\ IF ~ScratchValid(flash)
     THEN /\ filLast' = [c \in Channels |-> FilScanLast(flash, c)]
          /\ mode' = "run"
     ELSE /\ filLast' = [c \in Channels |-> IF c = Rescued.channel THEN Rescued.info
                                            ELSE FilScanLast(flash, c)]
          /\ mode' = IF FilScanLast(flash, Rescued.channel) = Rescued.info
                     THEN "retire" ELSE "erase"
  /\ UNCHANGED <<flash, fault, job, hw, staTears>>

RecoverErase ==
  /\ mode = "erase"
  /\ flash' = ErasedPage(flash, FilPage(Rescued.channel))
  /\ mode' = "program"
  /\ UNCHANGED <<fault, job, hw, filLast, filCursor, sta, staTears>>

\* Variant for mutation: the write cursor keeps what the scan of the old page gave.
RecoverProgramStaleCursor ==
  /\ mode = "program"
  /\ flash' = [flash EXCEPT ![FilAddr(Rescued.channel, 0)] = FilRecord(Rescued.info)]
  /\ mode' = "retire"
  /\ UNCHANGED <<fault, job, hw, filLast, filCursor, sta, staTears>>

RecoverProgram ==
  /\ mode = "program"
  /\ flash' = [flash EXCEPT ![FilAddr(Rescued.channel, 0)] = FilRecord(Rescued.info)]
  /\ filCursor' = [filCursor EXCEPT ![Rescued.channel] = 1]
  /\ mode' = "retire"
  /\ UNCHANGED <<fault, job, hw, filLast, sta, staTears>>

RecoverRetire ==
  /\ mode = "retire"
  /\ flash' = ErasedPage(flash, ScratchPage)
  /\ mode' = "run"
  /\ UNCHANGED <<fault, job, hw, filLast, filCursor, sta, staTears>>

TornRecovery ==
  \/ mode = "erase" /\ TornErase(FilPage(Rescued.channel))
  \/ mode = "program" /\ TornProgram(FilAddr(Rescued.channel, 0), FilRecord(Rescued.info), TRUE)
  \/ mode = "retire" /\ TornErase(ScratchPage)

\* A recovery step that does not verify: no write until the next boot.
RecoverFail ==
  /\ TornRecovery
  /\ fault' = TRUE
  /\ mode' = "run"
  /\ UNCHANGED <<job, hw, filLast, filCursor, sta, staTears>>

\* The power fails, in the middle of a flash operation or between two; or the watchdog bites.
PowerCut ==
  /\ mode # "off"
  /\ IF mode = "run" /\ hw = "busy"
     THEN TornOperation
     ELSE /\ UNCHANGED flash \/ TornRecovery
          /\ UNCHANGED staTears
  /\ mode' = "off"
  /\ VolatileBlank

-----------------------------------------------------------------------------

\* A sector no record was written to yet: erased, or left by another firmware.
Init ==
  /\ flash \in [Addrs -> {Erased, Torn}]
  /\ mode = "off" /\ job = NoJob /\ hw = "idle" /\ fault = FALSE
  /\ filLast = [c \in Channels |-> NoInfo]
  /\ filCursor = [c \in Channels |-> 0]
  /\ sta = StaEmpty
  /\ staTears = 0

Recover == RecoverErase \/ RecoverProgram \/ RecoverRetire \/ RecoverFail

Next ==
  \/ Boot \/ Recover \/ PowerCut \/ FlashDone \/ Flash_background_run
  \/ \E c \in Channels, i \in FilWrites : Flash_AMS_filament_write(c, i)
  \/ \E l \in StaWrites : Flash_AMS_state_write(l)

Spec == Init /\ [][Next]_vars

-----------------------------------------------------------------------------
(* What must hold.                                                         *)

Jobs == [kind : 0 .. 4, channel : Loaded, addr : Addrs, slot : StaSlots, rec : Cells,
         erase : BOOLEAN, rollover : BOOLEAN, halfwords : Nat, index : Nat, phase : 0 .. 2]

StaCaches == [seq : 0 .. SeqMod - 1, slot : StaSlots, have : BOOLEAN, savedSlot : StaSlots,
              loaded : Loaded]

TypeOK ==
  /\ flash \in [Addrs -> Cells]
  /\ mode \in {"off", "erase", "program", "retire", "run"}
  /\ fault \in BOOLEAN
  /\ job \in Jobs
  /\ hw \in {"idle", "busy", "ok", "failed"}
  /\ filLast \in [Channels -> Infos \cup {NoInfo}]
  /\ filCursor \in [Channels -> 0 .. FilSlots]
  /\ sta \in StaCaches
  /\ staTears \in 0 .. MaxStaTears

\* A job never begins to program a slot that is not erased.  On this flash that goes
\* unnoticed until the read-back, and the sticky fault then stops every NVM write
\* (nvm_journal.h:6-13); a cursor that lags a torn record would do it at every boot.
ProgramsErasedSlots ==
  job.kind # 0 /\ ~job.erase /\ job.phase # 1 /\ job.index = 0 /\ hw # "ok" /\ hw # "failed"
    => flash[job.addr] = Erased

\* The page erased to make room in the log is never the one with the newest record
\* (nvm_sta_find_slot): whatever an interrupted erase leaves, that record is found again.
NewestNeverErased ==
  job.kind = 2 /\ job.erase /\ sta.have
    => /\ flash[StaAddr(sta.savedSlot)] \in StaRecords
       /\ job.addr[1] # StaPageOf(sta.savedSlot)

\* A job writes only where nothing is to be kept.
JobsAreSafe == ProgramsErasedSlots /\ NewestNeverErased

\* With no job under way and no fault, the caches say what a boot would find now: the
\* write cursors cannot drift from the flash over any sequence of jobs and recoveries,
\* and no scratch copy is left that could overwrite a later record.
FilCachesMatchFlash ==
  mode = "run" /\ ~fault /\ job.kind = 0 =>
    /\ ~ScratchValid(flash)
    /\ \A c \in Channels : /\ filLast[c] = FilScanLast(flash, c)
                           /\ filCursor[c] = FilScanCursor(flash, c)

==============================================================================
