-------------------------- MODULE FlashSavesProofs --------------------------
(***************************************************************************)
(* Proofs about FlashSaves and FlashSavesStore: the invariant of the       *)
(* journals, and that the filament journals implement NvStore.             *)
(***************************************************************************)
EXTENDS FlashSavesStore, IntervalLemmas

LogSlots == StaPages * StaSlotsPerPage

-----------------------------------------------------------------------------
(* The layout of the sector.                                               *)

\* The constants as numbers, without the set notation.
LEMMA Geometry ==
  /\ NumChannels \in Nat /\ NumChannels >= 1 /\ NumChannels <= 4
  /\ StaPages \in Nat /\ StaPages >= 2 /\ StaPages <= 8
  /\ FilSlots \in Nat /\ FilSlots >= 1
  /\ StaSlotsPerPage \in Nat \ {0} /\ StaPages \in Nat \ {0}
  /\ LogSlots \in Nat \ {0} /\ 0 \in StaSlots
  /\ FilHalfwords \in Nat /\ FilHalfwords > 1
  /\ StaHalfwords \in Nat /\ StaHalfwords > 1
  /\ SeqMod \in Nat \ {0}
  /\ MaxStaTears \in Nat
<1>1. /\ StaPages \in Nat \ {0} /\ StaSlotsPerPage \in Nat \ {0}
  BY GeometryAssumption, SMT
<1>2. LogSlots \in Nat \ {0}
  BY <1>1, ProductPositive DEF LogSlots
<1>3. QED
  BY <1>1, <1>2, GeometryAssumption, SMT DEF LogSlots, StaSlots

\* A filament slot is an address of its channel's page, and of no other page.
LEMMA FilLayout ==
  ASSUME NEW c \in Channels, NEW s \in 0 .. FilSlots - 1
  PROVE  /\ FilAddr(c, s) \in Addrs
         /\ FilAddr(c, s)[1] = FilPage(c) /\ FilAddr(c, s)[2] = s
         /\ FilPage(c) \in 2 .. 5
         /\ FilAddr(c, s) # ScratchAddr
         /\ \A d \in Channels : FilPage(d) = FilPage(c) => d = c
  BY Geometry, SMT DEF Channels, FilAddr, FilPage, Addrs, ScratchAddr, ScratchPage

\* The filament pages, one for each channel.
LEMMA FilPages ==
  ASSUME NEW c \in Channels
  PROVE  /\ FilPage(c) \in 2 .. 5
         /\ \A d \in Channels : FilPage(d) = FilPage(c) => d = c
  BY Geometry, SMT DEF Channels, FilPage

\* The log lies on pages of its own, and the scratch record on another.
LEMMA StaLayout ==
  ASSUME NEW s \in StaSlots
  PROVE  /\ StaAddr(s) \in Addrs
         /\ StaAddr(s)[1] = StaPageOf(s)
         /\ StaPageOf(s) \in 6 .. 13
         /\ StaAddr(s) # ScratchAddr
<1>1. s \div StaSlotsPerPage \in 0 .. StaPages - 1
  BY Geometry, SlotPage DEF StaSlots
<1>2. StaAddr(s) \in Addrs
  BY DEF Addrs
<1>3. QED
  BY <1>1, <1>2, Geometry, SMT DEF StaAddr, StaPageOf, ScratchAddr, ScratchPage

LEMMA ScratchLayout == ScratchAddr \in Addrs /\ ScratchAddr[1] = 14 /\ ScratchPage = 14
  BY DEF Addrs, ScratchAddr, ScratchPage

\* The slot after a slot, and a slot some way ahead, are slots of the log.
LEMMA StaNextSlot ==
  ASSUME NEW s \in StaSlots, NEW k \in Nat
  PROVE  StaAfter(s) \in StaSlots /\ (s + k) % LogSlots \in StaSlots
<1>1. \A x \in Int : x % LogSlots \in StaSlots
  BY Geometry, ModRange DEF LogSlots, StaSlots
<1>2. s \in Int
  BY DEF StaSlots
<1>3. QED
  BY <1>1, <1>2, SMT DEF StaAfter, LogSlots

\* Where nvm_sta_find_slot lets the next record go: an erased slot of the log, or the
\* first slot of a page that does not hold the newest record.
LEMMA FindSlot ==
  ASSUME TypeOK
  PROVE  /\ StaFindSlot.slot \in StaSlots /\ StaFindSlot.erase \in BOOLEAN
         /\ ~StaFindSlot.erase => flash[StaAddr(StaFindSlot.slot)] = Erased
         /\ StaFindSlot.erase /\ sta.have
              => StaPageOf(StaFindSlot.slot) # StaPageOf(sta.savedSlot)
<1> USE Geometry
<1>1. sta.slot \in StaSlots /\ sta.savedSlot \in StaSlots /\ sta.have \in BOOLEAN
  BY DEF TypeOK, StaCaches
<1>2. CASE StaFree # {}
  <2>1. StaFree \subseteq Nat
    BY DEF StaFree, StaSlots
  <2>2. Min(StaFree) \in StaFree
    BY <1>2, <2>1, MinExists
  <2>3. Min(StaFree) \in Nat /\ flash[StaAddr(Ahead(Min(StaFree)))] = Erased
    BY <2>1, <2>2 DEF StaFree
  <2>4. Ahead(Min(StaFree)) \in StaSlots
    BY <1>1, <2>3, StaNextSlot DEF Ahead, LogSlots
  <2>5. QED
    BY <1>2, <2>3, <2>4 DEF StaFindSlot
<1>3. CASE StaFree = {}
  <2> DEFINE page  == sta.slot \div StaSlotsPerPage
             saved == sta.savedSlot \div StaSlotsPerPage
  <2>1. page \in 0 .. StaPages - 1 /\ saved \in 0 .. StaPages - 1
    BY <1>1, SlotPage DEF StaSlots
  <2>2. (page + 1) % StaPages \in 0 .. StaPages - 1 /\ (page + 1) % StaPages # page
    BY <2>1, SMT
  <2>3. StaVictim \in 0 .. StaPages - 1 /\ (sta.have => StaVictim # saved)
    BY <1>1, <2>1, <2>2 DEF StaVictim
  <2>4. StaVictim * StaSlotsPerPage \in StaSlots
    BY <2>3, PageSlot DEF StaSlots
  <2>5. (StaVictim * StaSlotsPerPage) \div StaSlotsPerPage = StaVictim
    BY <2>3, PageSlotPage
  <2>6. /\ StaFindSlot.slot = StaVictim * StaSlotsPerPage
        /\ StaFindSlot.erase = TRUE
    BY <1>3 DEF StaFindSlot
  <2>7. StaPageOf(StaFindSlot.slot) = 6 + StaVictim
    BY <2>5, <2>6 DEF StaPageOf
  <2>8. sta.have => StaPageOf(StaFindSlot.slot) # StaPageOf(sta.savedSlot)
    BY <2>1, <2>3, <2>7, SMT DEF StaPageOf
  <2>9. QED
    BY <2>4, <2>6, <2>8
<1>4. QED
  BY <1>2, <1>3
-----------------------------------------------------------------------------
(* What a scan of a filament page finds.                                   *)

\* Flash contents f and g agree on channel c's page.
SamePage(f, g, c) == \A s \in 0 .. FilSlots - 1 : f[FilAddr(c, s)] = g[FilAddr(c, s)]

\* The scan depends on the channel's own page only.
LEMMA ScanFrame ==
  ASSUME NEW f, NEW g, NEW c, SamePage(f, g, c)
  PROVE  FilScanLast(f, c) = FilScanLast(g, c) /\ FilScanCursor(f, c) = FilScanCursor(g, c)
<1>1. FilUsed(f, c) = FilUsed(g, c)
  BY DEF FilUsed, SamePage
<1>2. FilValid(f, c) = FilValid(g, c)
  BY DEF FilValid, SamePage
<1>3. FilValid(f, c) # {} => Max(FilValid(f, c)) \in 0 .. FilSlots - 1
  <2>1. FilValid(f, c) \subseteq 0 .. FilSlots - 1 /\ FilSlots - 1 \in Nat
    BY Geometry, SMT DEF FilValid
  <2>2. QED
    BY <2>1, MaxExists
<1>4. QED
  BY <1>1, <1>2, <1>3, Zenon DEF FilScanLast, FilScanCursor, SamePage

\* The greatest element of a set of slots, as the scans use it.
LEMMA TopSlot ==
  ASSUME NEW S, S \subseteq 0 .. FilSlots - 1, NEW s \in S, \A t \in S : t <= s
  PROVE  Max(S) = s
<1>1. FilSlots - 1 \in Nat /\ S # {}
  BY Geometry, SMT
<1>2. Max(S) \in S /\ \A y \in S : y <= Max(S)
  BY <1>1, MaxExists
<1>3. PICK m \in S : m = Max(S)
  BY <1>2
<1>4. m <= s /\ s <= m
  BY <1>2, <1>3
<1>5. m \in Int /\ s \in Int
  BY Geometry, SMT
<1>6. QED
  BY <1>3, <1>4, <1>5, SMT

\* A page whose slots above s are erased and whose slot s holds a record: the scan finds
\* that record, and the next one goes right after it.
LEMMA ScanTop ==
  ASSUME NEW f, NEW c, NEW s \in 0 .. FilSlots - 1, NEW i \in Infos,
         f[FilAddr(c, s)] = FilRecord(i),
         \A t \in FilSlotsAbove(c, s) : f[FilAddr(c, t)] = Erased
  PROVE  FilScanLast(f, c) = i /\ FilScanCursor(f, c) = s + 1
<1>1. FilRecord(i) \in FilRecords /\ FilRecord(i).info = i
  BY DEF FilRecord, FilRecords
<1>2. FilRecord(i) # Erased /\ Erased \notin FilRecords
  BY <1>1, ValueAssumption DEF Records
<1>3. s \in FilUsed(f, c) /\ s \in FilValid(f, c)
  BY <1>1, <1>2 DEF FilUsed, FilValid
<1>4. \A t \in 0 .. FilSlots - 1 : t <= s \/ t \in FilSlotsAbove(c, s)
  BY Geometry, SMT DEF FilSlotsAbove
<1>5. (\A t \in FilUsed(f, c) : t <= s) /\ (\A t \in FilValid(f, c) : t <= s)
  BY <1>2, <1>4 DEF FilUsed, FilValid
<1>6. Max(FilUsed(f, c)) = s /\ Max(FilValid(f, c)) = s
  BY <1>3, <1>5, TopSlot DEF FilUsed, FilValid
<1>7. QED
  BY <1>1, <1>3, <1>6 DEF FilScanLast, FilScanCursor

\* An erased page: no record, and the next one goes into slot 0.
LEMMA ScanErased ==
  ASSUME NEW f, NEW c, \A s \in 0 .. FilSlots - 1 : f[FilAddr(c, s)] = Erased
  PROVE  FilScanLast(f, c) = NoInfo /\ FilScanCursor(f, c) = 0
<1>1. FilUsed(f, c) = {}
  BY DEF FilUsed
<1>2. FilValid(f, c) = {}
  BY ValueAssumption DEF FilValid, Records
<1>3. QED
  BY <1>1, <1>2 DEF FilScanLast, FilScanCursor

\* A slot that holds no record, before and after, does not change what the scan finds.
LEMMA ScanInvalid ==
  ASSUME NEW f, NEW g, NEW c, NEW s \in 0 .. FilSlots - 1,
         \A t \in 0 .. FilSlots - 1 : t # s => f[FilAddr(c, t)] = g[FilAddr(c, t)],
         f[FilAddr(c, s)] \notin FilRecords, g[FilAddr(c, s)] \notin FilRecords
  PROVE  FilScanLast(f, c) = FilScanLast(g, c)
<1>1. FilValid(f, c) = FilValid(g, c)
  BY DEF FilValid
<1>2. FilValid(f, c) # {} => Max(FilValid(f, c)) \in FilValid(f, c)
  BY Geometry, MaxExists, SMT DEF FilValid
<1>3. FilValid(f, c) # {} => Max(FilValid(f, c)) # s /\ Max(FilValid(f, c)) \in 0 .. FilSlots - 1
  BY <1>2 DEF FilValid
<1>4. QED
  BY <1>1, <1>3 DEF FilScanLast

\* The write cursor: a slot of the page or its end, with nothing used from there on.
LEMMA ScanCursor ==
  ASSUME NEW f, NEW c
  PROVE  /\ FilScanCursor(f, c) \in 0 .. FilSlots
         /\ \A s \in 0 .. FilSlots - 1 : s >= FilScanCursor(f, c) => f[FilAddr(c, s)] = Erased
<1>1. CASE FilUsed(f, c) = {}
  BY <1>1, Geometry, SMT DEF FilScanCursor, FilUsed
<1>2. CASE FilUsed(f, c) # {}
  <2>1. FilUsed(f, c) \subseteq 0 .. FilSlots - 1 /\ FilSlots - 1 \in Nat
    BY Geometry, SMT DEF FilUsed
  <2>2. /\ Max(FilUsed(f, c)) \in 0 .. FilSlots - 1
        /\ \A t \in FilUsed(f, c) : t <= Max(FilUsed(f, c))
    BY <1>2, <2>1, MaxExists
  <2>3. FilScanCursor(f, c) = Max(FilUsed(f, c)) + 1
    BY <1>2 DEF FilScanCursor
  <2>4. \A s \in 0 .. FilSlots - 1 : s \in FilUsed(f, c) => ~(s >= FilScanCursor(f, c))
    BY <2>2, <2>3, Geometry, SMT
  <2>5. FilScanCursor(f, c) \in 0 .. FilSlots
    BY <2>2, <2>3, Geometry, SMT
  <2>6. QED
    BY <2>4, <2>5 DEF FilUsed
<1>3. QED
  BY <1>1, <1>2

\* The scan finds a record or nothing.
LEMMA ScanLastType ==
  ASSUME NEW f, NEW c
  PROVE  FilScanLast(f, c) \in Infos \cup {NoInfo}
<1>1. CASE FilValid(f, c) = {}
  BY <1>1 DEF FilScanLast
<1>2. CASE FilValid(f, c) # {}
  <2>1. Max(FilValid(f, c)) \in FilValid(f, c)
    BY <1>2, Geometry, MaxExists, SMT DEF FilValid
  <2>2. f[FilAddr(c, Max(FilValid(f, c)))] \in FilRecords
    BY <2>1 DEF FilValid
  <2>3. QED
    BY <1>2, <2>2 DEF FilScanLast, FilRecords
<1>3. QED
  BY <1>1, <1>2
-----------------------------------------------------------------------------
(* What the flash operations change.                                       *)

\* Only page p differs, and what is new there is no record.
OnlyLoses(p) ==
  /\ flash' \in [Addrs -> Cells]
  /\ \A a \in Addrs : \/ flash'[a] = flash[a]
                      \/ a[1] = p /\ flash'[a] \in {Erased, Torn}

LEMMA EraseEffect ==
  ASSUME flash \in [Addrs -> Cells], NEW p, flash' = ErasedPage(flash, p)
  PROVE  /\ OnlyLoses(p)
         /\ \A a \in Addrs : a[1] = p => flash'[a] = Erased
  BY DEF ErasedPage, OnlyLoses, Cells

LEMMA TornEraseEffect ==
  ASSUME flash \in [Addrs -> Cells], NEW p, TornErase(p)
  PROVE  OnlyLoses(p)
  BY DEF TornErase, OnlyLoses, Cells

\* A program changes its slot only.
LEMMA TornProgramEffect ==
  ASSUME flash \in [Addrs -> Cells], NEW a \in Addrs, NEW rec \in Cells, NEW last \in BOOLEAN,
         TornProgram(a, rec, last)
  PROVE  /\ flash' \in [Addrs -> Cells]
         /\ \A b \in Addrs : b # a => flash'[b] = flash[b]
         /\ flash'[a] \in {flash[a], Torn, rec}
         /\ flash'[a] = rec => last \/ flash[a] = rec \/ rec = Torn
  BY DEF TornProgram, Cells

\* Pages that an operation on page p leaves alone.
LEMMA PagesApart ==
  ASSUME NEW p, \A a \in Addrs : a[1] # p => flash'[a] = flash[a]
  PROVE  /\ \A c \in Channels : FilPage(c) # p => SamePage(flash, flash', c)
         /\ p # ScratchPage => flash'[ScratchAddr] = flash[ScratchAddr]
         /\ \A s \in StaSlots : StaPageOf(s) # p => flash'[StaAddr(s)] = flash[StaAddr(s)]
<1>1. ASSUME NEW c \in Channels, FilPage(c) # p
      PROVE  SamePage(flash, flash', c)
  BY <1>1, FilLayout DEF SamePage
<1>2. p # ScratchPage => flash'[ScratchAddr] = flash[ScratchAddr]
  BY ScratchLayout DEF ScratchAddr
<1>3. ASSUME NEW s \in StaSlots, StaPageOf(s) # p
      PROVE  flash'[StaAddr(s)] = flash[StaAddr(s)]
  BY <1>3, StaLayout
<1>4. QED
  BY <1>1, <1>2, <1>3

-----------------------------------------------------------------------------
(* The inductive invariant.                                                *)

LEMMA NoJobType == NoJob \in Jobs
  BY Geometry, ScratchLayout DEF NoJob, Jobs, Loaded, Cells

LEMMA IInvInit == Init => IInv
<1> SUFFICES ASSUME Init PROVE IInv
  OBVIOUS
<1> USE Geometry DEF Init
<1>2. StaEmpty \in StaCaches
  BY SMT DEF StaEmpty, StaCaches, Loaded
<1>3. TypeOK
  <2>1. flash \in [Addrs -> Cells]
    BY DEF Cells
  <2>2. 0 \in 0 .. FilSlots /\ 0 \in 0 .. MaxStaTears
    BY SMT
  <2>3. filLast \in [Channels -> Infos \cup {NoInfo}] /\ filCursor \in [Channels -> 0 .. FilSlots]
    BY <2>2
  <2>4. QED
    BY NoJobType, <1>2, <2>1, <2>2, <2>3 DEF TypeOK
<1>4. JobShape
  BY DEF JobShape, NoJob
<1>5. LogSafe
  BY DEF LogSafe, NoJob, StaEmpty
<1>6. QED
  BY <1>3, <1>4, <1>5 DEF IInv, NoJob, RecoverySafe, OthersScanned, NoStrayScratch,
     AppendSafe, CopySafe, RewriteSafe, RetireSafe

\* The first part of Flash_background_run leaves the flash and the caches alone.
LEMMA IInvTimeout == IInv /\ BackgroundTimeout => IInv'
<1> SUFFICES ASSUME IInv, BackgroundTimeout PROVE IInv'
  OBVIOUS
<1> USE DEF BackgroundTimeout
<1>1. TypeOK'
  BY DEF IInv, TypeOK
<1>2. JobShape'
  BY DEF IInv, TypeOK, JobShape, LastHalfword
<1>3. RecoverySafe'
  BY DEF RecoverySafe
<1>4. OthersScanned' /\ NoStrayScratch'
  BY DEF IInv, OthersScanned, NoStrayScratch, PageScanned, ScratchValid
<1>5. AppendSafe' /\ CopySafe' /\ RewriteSafe' /\ RetireSafe'
  BY DEF IInv, AppendSafe, CopySafe, RewriteSafe, RetireSafe, TargetCell, Written, LastHalfword,
     ErasedAbove, ScratchValid
<1>6. LogSafe'
  BY DEF IInv, LogSafe, TargetCell, Written, LastHalfword
<1>7. QED
  BY <1>1, <1>2, <1>3, <1>4, <1>5, <1>6 DEF IInv
\* A fault noted, the job dropped.
LEMMA IInvFail == IInv /\ BackgroundFail => IInv'
<1> SUFFICES ASSUME IInv, BackgroundFail PROVE IInv'
  OBVIOUS
<1> USE DEF BackgroundFail
<1>1. TypeOK'
  BY NoJobType DEF IInv, TypeOK
<1>2. JobShape'
  BY DEF JobShape, NoJob
<1>3. RecoverySafe'
  BY DEF RecoverySafe
<1>4. OthersScanned' /\ NoStrayScratch'
  BY DEF OthersScanned, NoStrayScratch, NoJob
<1>5. AppendSafe' /\ CopySafe' /\ RewriteSafe' /\ RetireSafe'
  BY DEF AppendSafe, CopySafe, RewriteSafe, RetireSafe, NoJob
<1>6. LogSafe'
  BY DEF IInv, LogSafe, NoJob
<1>7. QED
  BY <1>1, <1>2, <1>3, <1>4, <1>5, <1>6 DEF IInv

\* A job as the record of its fields, which is how an EXCEPT is shown to be one.
Fields(j) == [kind |-> j.kind, channel |-> j.channel, addr |-> j.addr, slot |-> j.slot,
              rec |-> j.rec, erase |-> j.erase, rollover |-> j.rollover,
              halfwords |-> j.halfwords, index |-> j.index, phase |-> j.phase]

\* The job with its finished operation ticked off.
LEMMA TickedFields ==
  ASSUME TypeOK
  PROVE  /\ Ticked \in Jobs
         /\ Ticked.kind = job.kind /\ Ticked.channel = job.channel /\ Ticked.addr = job.addr
         /\ Ticked.slot = job.slot /\ Ticked.rec = job.rec /\ Ticked.rollover = job.rollover
         /\ Ticked.halfwords = job.halfwords /\ Ticked.phase = 0 /\ Ticked.erase = FALSE
         /\ Ticked.index = IF job.phase = 2 THEN job.index + 1 ELSE job.index
<1>1. PICK n \in Nat : n = IF job.phase = 2 THEN job.index + 1 ELSE job.index
  BY SMT DEF TypeOK, Jobs
<1>2. Ticked = [job EXCEPT !.phase = 0, !.erase = FALSE, !.index = n]
  BY <1>1 DEF Ticked
<1>3. job \in Jobs
  BY DEF TypeOK
<1> HIDE DEF Ticked
<1>4. Ticked = Fields(Ticked)
  BY <1>2, <1>3, Zenon DEF Jobs, Fields
<1>5. /\ Ticked.kind = job.kind /\ Ticked.channel = job.channel /\ Ticked.addr = job.addr
      /\ Ticked.slot = job.slot /\ Ticked.rec = job.rec /\ Ticked.rollover = job.rollover
      /\ Ticked.halfwords = job.halfwords /\ Ticked.phase = 0 /\ Ticked.erase = FALSE
      /\ Ticked.index = n
  BY <1>2, <1>3, SMT DEF Jobs
<1>6. Ticked \in Jobs
  <2>1. Ticked = [kind |-> job.kind, channel |-> job.channel, addr |-> job.addr,
                  slot |-> job.slot, rec |-> job.rec, erase |-> FALSE,
                  rollover |-> job.rollover, halfwords |-> job.halfwords, index |-> n,
                  phase |-> 0]
    BY <1>4, <1>5 DEF Fields
  <2> HIDE DEF Fields
  <2>2. QED
    BY <1>3, <2>1, SMT DEF Jobs
<1>7. QED
  BY <1>1, <1>5, <1>6

\* Between two operations of the job.
LEMMA IInvNext == IInv /\ BackgroundNext => IInv'
<1> SUFFICES ASSUME IInv, BackgroundNext PROVE IInv'
  OBVIOUS
<1>0. /\ mode = "run" /\ job.kind # 0 /\ ~fault /\ hw = "ok" /\ job.phase \in {1, 2}
      /\ UNCHANGED <<flash, mode, fault, filLast, filCursor, sta, staTears>>
      /\ (job.phase = 1 <=> job.erase)
      /\ Ticked.index # Ticked.halfwords
  BY DEF IInv, JobShape, TypeOK, Jobs, BackgroundNext, OperationOk, OperationsDone
<1>1. /\ job' \in Jobs
      /\ job'.kind = job.kind /\ job'.channel = job.channel /\ job'.addr = job.addr
      /\ job'.slot = job.slot /\ job'.rec = job.rec /\ job'.rollover = job.rollover
      /\ job'.halfwords = job.halfwords /\ job'.erase = FALSE
      /\ job'.index = IF job.phase = 2 THEN job.index + 1 ELSE job.index
      /\ (hw' = "busy" /\ job'.phase = 2) \/ (hw' = "idle" /\ job'.phase = 0)
  <2>1. CASE Start(Ticked)
    <3>1. job' = [Ticked EXCEPT !.phase = 2] /\ hw' = "busy"
      BY <2>1, TickedFields DEF Start, IInv
    <3>2. PICK t \in Jobs : t = Ticked
      BY TickedFields DEF IInv
    <3>3. job' = [t EXCEPT !.phase = 2]
      BY <3>1, <3>2
    <3>4. job' \in Jobs
      BY <3>3, SMT DEF Jobs
    <3>5. /\ job'.kind = t.kind /\ job'.channel = t.channel /\ job'.addr = t.addr
          /\ job'.slot = t.slot /\ job'.rec = t.rec /\ job'.rollover = t.rollover
          /\ job'.halfwords = t.halfwords /\ job'.erase = t.erase
          /\ job'.index = t.index /\ job'.phase = 2
      BY <3>3, SMT DEF Jobs
    <3>6. QED
      BY <3>1, <3>2, <3>4, <3>5, TickedFields DEF IInv
  <2>2. CASE job' = Ticked /\ hw' = "idle"
    BY <2>2, TickedFields DEF IInv
  <2>3. QED
    BY <2>1, <2>2 DEF BackgroundNext
<1>2. job'.index # job.halfwords /\ job.halfwords \in Nat /\ job.index \in Nat
  BY <1>0, <1>1, TickedFields DEF IInv, TypeOK, Jobs
<1>3. TypeOK'
  BY <1>0, <1>1 DEF IInv, TypeOK
<1>4. JobShape'
  <2>1. job.kind # 4 /\ job.index < job.halfwords /\ job.halfwords > 1
    BY <1>0, <1>1, <1>2 DEF IInv, JobShape
  <2>2. job'.index < job'.halfwords
    BY <1>1, <1>2, <2>1, SMT
  <2>3. job'.kind \in {1, 3, 4} =>
          /\ job'.channel \in Channels
          /\ job'.rec = IF job'.kind = 3 THEN ScratchRecord(job'.channel, job'.rec.info)
                         ELSE FilRecord(job'.rec.info)
          /\ job'.rec.info \in Infos
    BY <1>1 DEF IInv, JobShape
  <2>4. QED
    BY <1>0, <1>1, <2>1, <2>2, <2>3 DEF JobShape
<1>5. RecoverySafe'
  BY <1>0 DEF RecoverySafe
<1>6. OthersScanned' /\ NoStrayScratch'
  BY <1>0, <1>1 DEF IInv, OthersScanned, NoStrayScratch, PageScanned, ScratchValid
<1>7. TargetCell' = TargetCell /\ ~Written /\ ~Written'
  <2>1. ~Written /\ ~Written'
    BY <1>0, <1>1, <1>2, SMT DEF Written, LastHalfword
  <2>2. job'.index = 0 <=> job.index = 0 /\ job.phase # 2
    BY <1>0, <1>1, <1>2, SMT
  <2>3. QED
    BY <1>0, <1>1, <2>1, <2>2 DEF TargetCell
<1>8. AppendSafe'
  BY <1>0, <1>1, <1>7 DEF IInv, AppendSafe, ErasedAbove
<1>9. CopySafe'
  <2>1. job.erase /\ job.kind = 3 => flash[ScratchAddr] = TargetCell
    <3>1. job.erase => job.index = 0 /\ job.phase # 2
      BY <1>0 DEF IInv, JobShape
    <3>2. job.erase => TargetCell = Erased
      BY <1>7, <3>1 DEF TargetCell
    <3>3. QED
      BY <1>0, <3>2 DEF IInv, CopySafe
  <2>2. QED
    BY <1>0, <1>1, <1>7, <2>1 DEF IInv, CopySafe
<1>10. RewriteSafe' /\ RetireSafe'
  BY <1>0, <1>1, <1>7 DEF IInv, RewriteSafe, RetireSafe, ErasedAbove, ScratchValid
<1>11. LogSafe'
  BY <1>0, <1>1, <1>7 DEF IInv, LogSafe
<1>12. QED
  BY <1>3, <1>4, <1>5, <1>6, <1>8, <1>9, <1>10, <1>11 DEF IInv

\* The first operation after the job was queued, or the next one.
LEMMA IInvStart == IInv /\ BackgroundStart => IInv'
<1> SUFFICES ASSUME IInv, BackgroundStart PROVE IInv'
  OBVIOUS
<1>0. /\ mode = "run" /\ job.kind # 0 /\ ~fault /\ hw = "idle" /\ job.phase = 0
      /\ UNCHANGED <<flash, mode, fault, filLast, filCursor, sta, staTears>>
  BY DEF IInv, JobShape, BackgroundStart
<1>1. /\ job' \in Jobs
      /\ job'.kind = job.kind /\ job'.channel = job.channel /\ job'.addr = job.addr
      /\ job'.slot = job.slot /\ job'.rec = job.rec /\ job'.rollover = job.rollover
      /\ job'.halfwords = job.halfwords /\ job'.erase = job.erase /\ job'.index = job.index
      /\ hw' = "busy" /\ job'.phase = IF job.erase THEN 1 ELSE 2
  <2>1. PICK n \in 0 .. 2 : n = IF job.erase THEN 1 ELSE 2
    OBVIOUS
  <2>2. job' = [job EXCEPT !.phase = n] /\ hw' = "busy" /\ job \in Jobs
    BY <2>1 DEF BackgroundStart, Start, IInv, TypeOK
  <2>3. job' \in Jobs
    BY <2>2, SMT DEF Jobs
  <2>4. /\ job'.kind = job.kind /\ job'.channel = job.channel /\ job'.addr = job.addr
        /\ job'.slot = job.slot /\ job'.rec = job.rec /\ job'.rollover = job.rollover
        /\ job'.halfwords = job.halfwords /\ job'.erase = job.erase /\ job'.index = job.index
        /\ job'.phase = n
    BY <2>2, SMT DEF Jobs
  <2>5. QED
    BY <2>1, <2>2, <2>3, <2>4
<1>2. TypeOK'
  BY <1>0, <1>1 DEF IInv, TypeOK
<1>3. JobShape'
  <2>1. job'.kind \in {1, 3, 4} =>
          /\ job'.channel \in Channels
          /\ job'.rec = IF job'.kind = 3 THEN ScratchRecord(job'.channel, job'.rec.info)
                         ELSE FilRecord(job'.rec.info)
          /\ job'.rec.info \in Infos
    BY <1>1 DEF IInv, JobShape
  <2>2. IF job'.kind = 4 THEN job'.erase /\ job'.halfwords = 0 /\ job'.index = 0
        ELSE job'.index < job'.halfwords /\ job'.halfwords > 1
    BY <1>0, <1>1 DEF IInv, JobShape
  <2>3. job'.erase => job'.index = 0
    BY <1>1 DEF IInv, JobShape
  <2>4. QED
    BY <1>0, <1>1, <2>1, <2>2, <2>3 DEF JobShape
<1>4. RecoverySafe'
  BY <1>0 DEF RecoverySafe
<1>5. OthersScanned' /\ NoStrayScratch'
  BY <1>0, <1>1 DEF IInv, OthersScanned, NoStrayScratch, PageScanned, ScratchValid
<1>6. TargetCell' = TargetCell /\ ~Written /\ ~Written'
  BY <1>0, <1>1 DEF TargetCell, Written
<1>7. AppendSafe'
  BY <1>0, <1>1, <1>6 DEF IInv, AppendSafe, ErasedAbove
<1>8. CopySafe'
  BY <1>0, <1>1, <1>6 DEF IInv, CopySafe
<1>9. RewriteSafe' /\ RetireSafe'
  BY <1>0, <1>1, <1>6 DEF IInv, RewriteSafe, RetireSafe, ErasedAbove, ScratchValid
<1>10. LogSafe'
  BY <1>0, <1>1, <1>6 DEF IInv, LogSafe
<1>11. QED
  BY <1>2, <1>3, <1>4, <1>5, <1>7, <1>8, <1>9, <1>10 DEF IInv

\* When every operation of a record's job is done, the record is in its slot.
LEMMA DoneWritten ==
  ASSUME IInv, mode = "run", job.kind # 0, OperationsDone
  PROVE  /\ hw = "ok" /\ ~fault
         /\ job.kind = 4 => job.phase = 1
         /\ job.kind # 4 => Written /\ ~job.erase /\ TargetCell = job.rec
<1>0. /\ hw = "ok" /\ ~fault /\ job.phase \in {1, 2}
      /\ job.index \in Nat /\ job.halfwords \in Nat
  BY DEF IInv, OperationsDone, OperationOk, TypeOK, Jobs
<1>1. /\ (job.phase = 1 <=> job.erase)
      /\ (IF job.phase = 2 THEN job.index + 1 ELSE job.index) = job.halfwords
  BY <1>0, TickedFields DEF IInv, JobShape, OperationsDone
<1>2. IF job.kind = 4 THEN job.erase ELSE job.index < job.halfwords
  BY DEF IInv, JobShape
<1>3. job.kind # 4 => job.phase = 2
  BY <1>0, <1>1, <1>2, SMT
<1>4. job.kind # 4 => Written
  BY <1>0, <1>1, <1>3 DEF Written, LastHalfword
<1>5. QED
  BY <1>0, <1>1, <1>2, <1>3, <1>4 DEF TargetCell

\* The scratch copy is complete, the page comes next.
LEMMA IInvRollPage == IInv /\ BackgroundRollPage => IInv'
<1> SUFFICES ASSUME IInv, BackgroundRollPage PROVE IInv'
  OBVIOUS
<1> DEFINE c == job.channel
           i == job.rec.info
<1>0. /\ mode = "run" /\ job.kind = 3 /\ hw' = "idle" /\ hw = "ok" /\ ~fault
      /\ UNCHANGED <<flash, mode, fault, filLast, filCursor, sta, staTears>>
      /\ TargetCell = job.rec /\ ~job.erase
  BY DoneWritten DEF BackgroundRollPage
<1>1. /\ c \in Channels /\ i \in Infos /\ job.rec = ScratchRecord(c, i)
      /\ job.index < job.halfwords /\ job.halfwords > 1
      /\ job.rollover
  BY <1>0 DEF IInv, JobShape, CopySafe
<1>2. /\ job'.kind = 1 /\ job'.addr = FilAddr(c, 0) /\ job'.rec = FilRecord(i)
      /\ job'.index = 0 /\ job'.erase = TRUE /\ job'.channel = c /\ job'.slot = job.slot
      /\ job'.rollover = job.rollover /\ job'.halfwords = job.halfwords /\ job'.phase = 0
      /\ job' \in Jobs
  <2>1. PICK t \in Jobs : t = Ticked
    BY TickedFields DEF IInv
  <2>2. PICK a \in Addrs, r \in Cells : a = FilAddr(c, 0) /\ r = FilRecord(i)
    <3>1. FilAddr(c, 0) \in Addrs
      BY <1>1, Geometry, FilLayout
    <3>2. FilRecord(i) \in Cells
      BY <1>1 DEF FilRecord, FilRecords, Records, Cells
    <3>3. QED
      BY <3>1, <3>2
  <2>3. job' = [t EXCEPT !.kind = 1, !.addr = a, !.rec = r, !.index = 0, !.erase = TRUE]
    BY <2>1, <2>2 DEF BackgroundRollPage
  <2>4. job' = Fields(job')
    BY <2>3, Zenon DEF Jobs, Fields
  <2>5. /\ job'.kind = 1 /\ job'.addr = a /\ job'.rec = r /\ job'.index = 0
        /\ job'.erase = TRUE /\ job'.channel = t.channel /\ job'.slot = t.slot
        /\ job'.rollover = t.rollover /\ job'.halfwords = t.halfwords /\ job'.phase = t.phase
    BY <2>3, SMT DEF Jobs
  <2>6. job' \in Jobs
    <3>1. job' = [kind |-> 1, channel |-> t.channel, addr |-> a, slot |-> t.slot, rec |-> r,
                  erase |-> TRUE, rollover |-> t.rollover, halfwords |-> t.halfwords,
                  index |-> 0, phase |-> t.phase]
      BY <2>4, <2>5 DEF Fields
    <3>2. QED
      BY <3>1, SMT DEF Jobs
  <2>7. QED
    BY <2>1, <2>2, <2>5, <2>6, TickedFields DEF IInv
<1> HIDE DEF c, i
<1>3. FilRecord(i).info = i
  BY DEF FilRecord
<1>4. TypeOK'
  BY <1>0, <1>2 DEF IInv, TypeOK
<1>5. JobShape'
  <2>1. job'.index < job'.halfwords /\ job'.halfwords > 1
    BY <1>1, <1>2, SMT DEF IInv, TypeOK, Jobs
  <2>2. QED
    BY <1>0, <1>1, <1>2, <1>3, <2>1 DEF JobShape
<1>6. RecoverySafe'
  BY <1>0 DEF RecoverySafe
<1>7. OthersScanned'
  BY <1>0, <1>2 DEF IInv, OthersScanned, PageScanned, c
<1>8. NoStrayScratch' /\ AppendSafe' /\ CopySafe' /\ RetireSafe'
  BY <1>0, <1>1, <1>2 DEF NoStrayScratch, AppendSafe, CopySafe, RetireSafe
<1>9. RewriteSafe'
  <2>1. filCursor[c] = 1 /\ flash[ScratchAddr] = ScratchRecord(c, i)
    BY <1>0, <1>1 DEF IInv, CopySafe, c
  <2>2. QED
    BY <1>0, <1>2, <1>3, <2>1 DEF RewriteSafe
<1>10. LogSafe'
  BY <1>0, <1>2 DEF IInv, LogSafe
<1>11. QED
  BY <1>4, <1>5, <1>6, <1>7, <1>8, <1>9, <1>10 DEF IInv

\* The page is rewritten, the scratch copy goes.
LEMMA IInvRollScratch == IInv /\ BackgroundRollScratch => IInv'
<1> SUFFICES ASSUME IInv, BackgroundRollScratch PROVE IInv'
  OBVIOUS
<1> DEFINE c == job.channel
           i == job.rec.info
<1>0. /\ mode = "run" /\ job.kind = 1 /\ job.rollover /\ hw' = "idle" /\ hw = "ok" /\ ~fault
      /\ UNCHANGED <<flash, mode, fault, filLast, filCursor, sta, staTears>>
      /\ TargetCell = job.rec /\ ~job.erase
  BY DoneWritten DEF BackgroundRollScratch
<1>1. c \in Channels /\ i \in Infos /\ job.rec = FilRecord(i)
  BY <1>0 DEF IInv, JobShape
<1>2. /\ job'.kind = 4 /\ job'.addr = ScratchAddr /\ job'.index = 0 /\ job'.halfwords = 0
      /\ job'.erase = TRUE /\ job'.channel = c /\ job'.slot = job.slot /\ job'.rec = job.rec
      /\ job'.rollover = job.rollover /\ job'.phase = 0
      /\ job' \in Jobs
  <2>1. PICK t \in Jobs : t = Ticked
    BY TickedFields DEF IInv
  <2>2. PICK a \in Addrs : a = ScratchAddr
    BY ScratchLayout
  <2>3. job' = [t EXCEPT !.kind = 4, !.addr = a, !.index = 0, !.halfwords = 0, !.erase = TRUE]
    BY <2>1, <2>2 DEF BackgroundRollScratch
  <2>4. job' = Fields(job')
    BY <2>3, Zenon DEF Jobs, Fields
  <2>5. /\ job'.kind = 4 /\ job'.addr = a /\ job'.rec = t.rec /\ job'.index = 0
        /\ job'.erase = TRUE /\ job'.channel = t.channel /\ job'.slot = t.slot
        /\ job'.rollover = t.rollover /\ job'.halfwords = 0 /\ job'.phase = t.phase
    BY <2>3, SMT DEF Jobs
  <2>6. job' \in Jobs
    <3>1. job' = [kind |-> 4, channel |-> t.channel, addr |-> a, slot |-> t.slot, rec |-> t.rec,
                  erase |-> TRUE, rollover |-> t.rollover, halfwords |-> 0,
                  index |-> 0, phase |-> t.phase]
      BY <2>4, <2>5 DEF Fields
    <3>2. QED
      BY <3>1, SMT DEF Jobs
  <2>7. QED
    BY <2>1, <2>2, <2>5, <2>6, TickedFields DEF IInv
<1> HIDE DEF c, i
<1>4. TypeOK'
  BY <1>0, <1>2 DEF IInv, TypeOK
<1>5. JobShape'
  BY <1>0, <1>1, <1>2 DEF JobShape, i
<1>6. RecoverySafe'
  BY <1>0 DEF RecoverySafe
<1>7. OthersScanned'
  BY <1>0, <1>2 DEF IInv, OthersScanned, PageScanned, c
<1>8. NoStrayScratch' /\ AppendSafe' /\ CopySafe' /\ RewriteSafe'
  BY <1>0, <1>1, <1>2 DEF NoStrayScratch, AppendSafe, CopySafe, RewriteSafe
<1>9. RetireSafe'
  <2>1. /\ filCursor[c] = 1 /\ flash[ScratchAddr] = ScratchRecord(c, i)
        /\ flash[FilAddr(c, 0)] = job.rec /\ ErasedAbove(c, 0)
    BY <1>0 DEF IInv, RewriteSafe, c, i
  <2>2. QED
    BY <1>0, <1>1, <1>2, <2>1 DEF RetireSafe, ErasedAbove, i
<1>10. LogSafe'
  BY <1>0, <1>2 DEF IInv, LogSafe
<1>11. QED
  BY <1>4, <1>5, <1>6, <1>7, <1>8, <1>9, <1>10 DEF IInv

\* A channel whose page ends in the record at slot s is scanned when its caches say so.
LEMMA ScannedTop ==
  ASSUME NEW c \in Channels, NEW s \in 0 .. FilSlots - 1, NEW i \in Infos,
         flash[FilAddr(c, s)] = FilRecord(i), ErasedAbove(c, s)
  PROVE  FilScanLast(flash, c) = i /\ FilScanCursor(flash, c) = s + 1
  BY ScanTop DEF ErasedAbove

\* The filament record is stored: the caches follow.
LEMMA IInvFilamentDone == IInv /\ BackgroundFilamentDone => IInv'
<1> SUFFICES ASSUME IInv, BackgroundFilamentDone PROVE IInv'
  OBVIOUS
<1> DEFINE c == job.channel
           i == job.rec.info
<1>0. /\ mode = "run" /\ job.kind \in {1, 4} /\ (job.kind = 1 => ~job.rollover)
      /\ hw = "ok" /\ ~fault
      /\ job' = NoJob /\ hw' = "idle" /\ filLast' = [filLast EXCEPT ![c] = i]
      /\ UNCHANGED <<flash, mode, fault, filCursor, sta, staTears>>
      /\ (job.kind # 4 => TargetCell = job.rec)
  BY DoneWritten DEF BackgroundFilamentDone
<1>1. c \in Channels /\ i \in Infos /\ (job.kind = 1 => job.rec = FilRecord(i))
  BY <1>0 DEF IInv, JobShape
<1> HIDE DEF c, i
<1>2. /\ filLast \in [Channels -> Infos \cup {NoInfo}]
      /\ filLast' \in [Channels -> Infos \cup {NoInfo}]
      /\ filLast'[c] = i
      /\ \A d \in Channels : d # c => filLast'[d] = filLast[d]
  BY <1>0, <1>1 DEF IInv, TypeOK
<1>3. FilScanLast(flash, c) = i /\ FilScanCursor(flash, c) = filCursor[c]
  <2>1. CASE job.kind = 4
    <3>1. /\ filCursor[c] = 1 /\ flash[FilAddr(c, 0)] = FilRecord(i) /\ ErasedAbove(c, 0)
      BY <2>1 DEF IInv, RetireSafe, c, i
    <3>2. QED
      BY <1>1, <3>1, Geometry, ScannedTop
  <2>2. CASE job.kind = 1
    <3>1. PICK s \in 0 .. FilSlots - 1 :
            /\ filCursor[c] = s + 1 /\ flash[FilAddr(c, s)] = TargetCell /\ ErasedAbove(c, s)
      BY <1>0, <2>2 DEF IInv, AppendSafe, c
    <3>2. flash[FilAddr(c, s)] = FilRecord(i)
      BY <1>0, <1>1, <2>2, <3>1
    <3>3. QED
      BY <1>1, <3>1, <3>2, ScannedTop
  <2>3. QED
    BY <1>0, <2>1, <2>2
<1>4. \A d \in Channels : d # c => PageScanned(d)
  BY <1>0 DEF IInv, OthersScanned, c
<1>5. TypeOK'
  BY <1>0, <1>2, NoJobType DEF IInv, TypeOK
<1>6. JobShape'
  BY <1>0 DEF JobShape, NoJob
<1>7. RecoverySafe'
  BY <1>0 DEF RecoverySafe
<1>8. OthersScanned'
  BY <1>0, <1>1, <1>2, <1>3, <1>4 DEF OthersScanned, PageScanned
<1>9. NoStrayScratch'
  <2>1. ~ScratchValid(flash)
    BY <1>0 DEF IInv, NoStrayScratch, RetireSafe
  <2>2. QED
    BY <1>0, <2>1 DEF NoStrayScratch, ScratchValid
<1>10. AppendSafe' /\ CopySafe' /\ RewriteSafe' /\ RetireSafe'
  BY <1>0 DEF AppendSafe, CopySafe, RewriteSafe, RetireSafe, NoJob
<1>11. LogSafe'
  BY <1>0 DEF IInv, LogSafe, NoJob
<1>12. QED
  BY <1>5, <1>6, <1>7, <1>8, <1>9, <1>10, <1>11 DEF IInv

\* The loaded-channel record is stored: it is the saved one from here on.
LEMMA IInvStateDone == IInv /\ BackgroundStateDone => IInv'
<1> SUFFICES ASSUME IInv, BackgroundStateDone PROVE IInv'
  OBVIOUS
<1> DEFINE next == (sta.seq + 1) % SeqMod
<1>0. /\ mode = "run" /\ job.kind = 2 /\ hw = "ok" /\ ~fault
      /\ job' = NoJob /\ hw' = "idle"
      /\ sta' = [sta EXCEPT !.seq = next, !.savedSlot = job.slot, !.loaded = job.channel,
                            !.have = TRUE]
      /\ UNCHANGED <<flash, mode, fault, filLast, filCursor, staTears>>
      /\ TargetCell = job.rec /\ ~job.erase
  BY DoneWritten DEF BackgroundStateDone
<1>1. sta \in StaCaches /\ job.slot \in StaSlots /\ job.channel \in Loaded
  BY DEF IInv, TypeOK, Jobs
<1>2. PICK q \in 0 .. SeqMod - 1 : q = next
  BY <1>1, Geometry, ModRange DEF StaCaches
<1>3. /\ sta'.seq = q /\ sta'.slot = sta.slot /\ sta'.have = TRUE
      /\ sta'.savedSlot = job.slot /\ sta'.loaded = job.channel
  BY <1>0, <1>1, <1>2, SMT DEF StaCaches
<1>4. sta' \in StaCaches
  <2>1. sta' = [seq |-> sta'.seq, slot |-> sta'.slot, have |-> sta'.have,
                savedSlot |-> sta'.savedSlot, loaded |-> sta'.loaded]
    BY <1>0, <1>1, Zenon DEF StaCaches
  <2>2. sta' = [seq |-> q, slot |-> sta.slot, have |-> TRUE,
                savedSlot |-> job.slot, loaded |-> job.channel]
    BY <1>3, <2>1
  <2>3. QED
    BY <1>1, <2>2, SMT DEF StaCaches
<1>5. /\ flash[StaAddr(job.slot)] = StaRecord(sta.seq, job.channel)
      /\ StaRecord(sta.seq, job.channel) \in StaRecords
      /\ StaRecord(sta.seq, job.channel).channel = job.channel
  BY <1>0, <1>1 DEF IInv, LogSafe, StaRecord, StaRecords, StaCaches
<1>6. TypeOK'
  BY <1>0, <1>4, NoJobType DEF IInv, TypeOK
<1>7. JobShape' /\ RecoverySafe'
  BY <1>0 DEF JobShape, RecoverySafe, NoJob
<1>8. OthersScanned' /\ NoStrayScratch'
  BY <1>0 DEF IInv, OthersScanned, NoStrayScratch, PageScanned, ScratchValid, NoJob
<1>9. AppendSafe' /\ CopySafe' /\ RewriteSafe' /\ RetireSafe'
  BY <1>0 DEF AppendSafe, CopySafe, RewriteSafe, RetireSafe, NoJob
<1>10. LogSafe'
  BY <1>0, <1>3, <1>5 DEF LogSafe, NoJob
<1>11. QED
  BY <1>6, <1>7, <1>8, <1>9, <1>10 DEF IInv

\* A write is queued: into the next slot, or as a rollover.
LEMMA IInvFilamentWrite ==
  ASSUME IInv, NEW c \in Channels, NEW i \in FilWrites, Flash_AMS_filament_write(c, i)
  PROVE  IInv'
<1> DEFINE full == filCursor[c] >= FilSlots
           s    == IF full THEN 0 ELSE filCursor[c]
<1>0. /\ mode = "run" /\ ~fault /\ hw = "idle" /\ hw' = "idle" /\ job.kind = 0
      /\ filCursor' = [filCursor EXCEPT ![c] = s + 1]
      /\ UNCHANGED <<flash, mode, fault, hw, filLast, sta, staTears>>
      /\ i \in Infos
  BY ValueAssumption DEF Flash_AMS_filament_write, Idle, IInv, JobShape
<1>1. /\ job'.kind = IF full THEN 3 ELSE 1
      /\ job'.addr = IF full THEN ScratchAddr ELSE FilAddr(c, s)
      /\ job'.rec = IF full THEN ScratchRecord(c, i) ELSE FilRecord(i)
      /\ job'.channel = c /\ job'.slot = 0 /\ job'.erase = full /\ job'.rollover = full
      /\ job'.halfwords = FilHalfwords /\ job'.index = 0 /\ job'.phase = 0
  BY DEF Flash_AMS_filament_write
<1>2. /\ filCursor \in [Channels -> 0 .. FilSlots] /\ filCursor[c] \in 0 .. FilSlots
      /\ s \in 0 .. FilSlots - 1 /\ full \in BOOLEAN
  BY Geometry, SMT DEF IInv, TypeOK
<1>3. PICK t \in 1 .. FilSlots : t = s + 1
  BY <1>2, Geometry, SMT
<1>4. job' \in Jobs
  <2>1. FilAddr(c, s) \in Addrs /\ ScratchAddr \in Addrs
    BY <1>2, FilLayout, ScratchLayout
  <2>2. ScratchRecord(c, i) \in Cells /\ FilRecord(i) \in Cells
    BY <1>0 DEF ScratchRecord, FilRecord, ScratchRecords, FilRecords, Records, Cells
  <2>3. c \in Loaded
    BY DEF Loaded
  <2>4. CASE full
    <3>1. job' = [kind |-> 3, channel |-> c, addr |-> ScratchAddr, slot |-> 0,
                  rec |-> ScratchRecord(c, i), erase |-> TRUE, rollover |-> TRUE,
                  halfwords |-> FilHalfwords, index |-> 0, phase |-> 0]
      BY <2>4 DEF Flash_AMS_filament_write
    <3>2. QED
      BY <2>1, <2>2, <2>3, <3>1, Geometry, SMT DEF Jobs
  <2>5. CASE ~full
    <3>1. job' = [kind |-> 1, channel |-> c, addr |-> FilAddr(c, s), slot |-> 0,
                  rec |-> FilRecord(i), erase |-> FALSE, rollover |-> FALSE,
                  halfwords |-> FilHalfwords, index |-> 0, phase |-> 0]
      <4>1. full = FALSE
        BY <1>2, <2>5
      <4>2. job' = Fields(job')
        BY DEF Flash_AMS_filament_write, Fields
      <4> HIDE DEF full
      <4>3. QED
        BY <1>1, <4>1, <4>2 DEF Fields
    <3>2. QED
      BY <2>1, <2>2, <2>3, <3>1, Geometry, SMT DEF Jobs
  <2>6. QED
    BY <2>4, <2>5
<1> HIDE DEF full, s
<1>5. filCursor' \in [Channels -> 0 .. FilSlots] /\ filCursor'[c] = t
      /\ \A d \in Channels : d # c => filCursor'[d] = filCursor[d]
  BY <1>0, <1>2, <1>3, Geometry, SMT
<1>6. /\ ScratchRecord(c, i).info = i /\ FilRecord(i).info = i
      /\ \A d \in Channels : PageScanned(d)
      /\ ~ScratchValid(flash)
  BY <1>0 DEF ScratchRecord, FilRecord, IInv, OthersScanned, NoStrayScratch
<1>7. TypeOK'
  BY <1>0, <1>4, <1>5 DEF IInv, TypeOK
<1>8. JobShape'
  BY <1>0, <1>1, <1>6, Geometry DEF JobShape
<1>9. RecoverySafe'
  BY <1>0 DEF RecoverySafe
<1>10. OthersScanned' /\ NoStrayScratch'
  BY <1>0, <1>1, <1>5, <1>6 DEF OthersScanned, NoStrayScratch, PageScanned, ScratchValid
<1>11. TargetCell' = Erased
  BY <1>1 DEF TargetCell, Written
<1>12. AppendSafe'
  <2>1. SUFFICES ASSUME ~full PROVE AppendSafe'
    BY <1>1 DEF AppendSafe
  <2>2. s = FilScanCursor(flash, c) /\ filLast[c] = FilScanLast(flash, c)
    BY <1>6, <2>1 DEF PageScanned, s
  <2>3. \A r \in 0 .. FilSlots - 1 : r >= s => flash[FilAddr(c, r)] = Erased
    BY <2>2, ScanCursor
  <2>4. flash[FilAddr(c, s)] = Erased /\ ErasedAbove(c, s)
    BY <1>2, <2>3, Geometry, SMT DEF ErasedAbove, FilSlotsAbove
  <2>5. QED
    BY <1>0, <1>1, <1>2, <1>3, <1>5, <1>11, <2>1, <2>2, <2>4 DEF AppendSafe, ErasedAbove
<1>13. CopySafe'
  <2>1. full => t = 1
    BY <1>3, SMT DEF s
  <2>2. QED
    BY <1>0, <1>1, <1>5, <1>6, <2>1 DEF CopySafe, PageScanned, ScratchValid
<1>14. RewriteSafe' /\ RetireSafe'
  BY <1>1 DEF RewriteSafe, RetireSafe
<1>15. LogSafe'
  BY <1>0, <1>1 DEF IInv, LogSafe
<1>16. QED
  BY <1>7, <1>8, <1>9, <1>10, <1>12, <1>13, <1>14, <1>15 DEF IInv

LEMMA IInvStateWrite ==
  ASSUME IInv, NEW l \in StaWrites, Flash_AMS_state_write(l)
  PROVE  IInv'
<1> DEFINE found == StaFindSlot
<1>0. /\ mode = "run" /\ ~fault /\ hw = "idle" /\ hw' = "idle" /\ job.kind = 0
      /\ sta' = [sta EXCEPT !.slot = StaAfter(found.slot)]
      /\ UNCHANGED <<flash, mode, fault, hw, filLast, filCursor, staTears>>
      /\ l \in Loaded
  BY ValueAssumption DEF Flash_AMS_state_write, Idle, IInv, JobShape
<1>1. /\ job'.kind = 2 /\ job'.addr = StaAddr(found.slot) /\ job'.slot = found.slot
      /\ job'.rec = StaRecord(sta.seq, l) /\ job'.channel = l
      /\ job'.erase = found.erase /\ job'.rollover = FALSE
      /\ job'.halfwords = StaHalfwords /\ job'.index = 0 /\ job'.phase = 0
      /\ job' = Fields(job')
  BY DEF Flash_AMS_state_write, Fields
<1>2. /\ found.slot \in StaSlots /\ found.erase \in BOOLEAN
      /\ ~found.erase => flash[StaAddr(found.slot)] = Erased
      /\ found.erase /\ sta.have => StaPageOf(found.slot) # StaPageOf(sta.savedSlot)
  BY FindSlot DEF IInv
<1> HIDE DEF found
<1>3. sta \in StaCaches
  BY DEF IInv, TypeOK
<1>4. PICK n \in StaSlots : n = StaAfter(found.slot)
  <2>1. StaAfter(found.slot) \in StaSlots
    BY <1>2, StaNextSlot, 0 \in Nat
  <2>2. QED
    BY <2>1
<1>5. /\ sta' \in StaCaches
      /\ sta'.seq = sta.seq /\ sta'.have = sta.have /\ sta'.savedSlot = sta.savedSlot
      /\ sta'.loaded = sta.loaded
  BY <1>0, <1>3, <1>4, SMT DEF StaCaches
<1>6. job' \in Jobs
  <2>1. StaRecord(sta.seq, l) \in Cells /\ StaAddr(found.slot) \in Addrs
    BY <1>0, <1>2, <1>3, StaLayout DEF StaRecord, StaRecords, StaCaches, Records, Cells
  <2>2. PICK b \in BOOLEAN : b = found.erase
    BY <1>2
  <2>3. job' = [kind |-> 2, channel |-> l, addr |-> StaAddr(found.slot), slot |-> found.slot,
                rec |-> StaRecord(sta.seq, l), erase |-> b, rollover |-> FALSE,
                halfwords |-> StaHalfwords, index |-> 0, phase |-> 0]
    BY <1>1, <2>2 DEF Fields
  <2>4. QED
    BY <1>0, <1>2, <2>1, <2>3, Geometry, SMT DEF Jobs
<1>7. TypeOK'
  BY <1>0, <1>5, <1>6 DEF IInv, TypeOK
<1>8. JobShape' /\ RecoverySafe'
  BY <1>0, <1>1, Geometry DEF JobShape, RecoverySafe
<1>9. OthersScanned' /\ NoStrayScratch'
  BY <1>0, <1>1 DEF IInv, OthersScanned, NoStrayScratch, PageScanned, ScratchValid
<1>10. AppendSafe' /\ CopySafe' /\ RewriteSafe' /\ RetireSafe'
  BY <1>1 DEF AppendSafe, CopySafe, RewriteSafe, RetireSafe
<1>11. LogSafe'
  <2>1. TargetCell' = Erased
    BY <1>1 DEF TargetCell, Written
  <2>2. job'.rec = StaRecord(sta'.seq, job'.channel)
    BY <1>1, <1>5
  <2>3. ASSUME sta'.have
        PROVE  /\ flash[StaAddr(sta.savedSlot)] \in StaRecords
               /\ flash[StaAddr(sta.savedSlot)].channel = sta.loaded
               /\ StaAddr(found.slot) # StaAddr(sta.savedSlot)
               /\ found.erase => StaAddr(found.slot)[1] # StaPageOf(sta.savedSlot)
    <3>1. /\ flash[StaAddr(sta.savedSlot)] \in StaRecords
          /\ flash[StaAddr(sta.savedSlot)].channel = sta.loaded
      BY <1>5, <2>3 DEF IInv, LogSafe
    <3>2. Erased \notin StaRecords
      BY ValueAssumption DEF Records
    <3>3. found.erase => StaAddr(found.slot)[1] # StaPageOf(sta.savedSlot)
      BY <1>2, <1>5, <2>3, StaLayout
    <3>4. sta.savedSlot \in StaSlots
      BY <1>3 DEF StaCaches
    <3>5. found.erase => StaAddr(found.slot) # StaAddr(sta.savedSlot)
      BY <3>3, <3>4, StaLayout
    <3>6. QED
      BY <1>2, <3>1, <3>2, <3>3, <3>5
  <2>4. QED
    BY <1>0, <1>1, <1>2, <1>5, <2>1, <2>2, <2>3 DEF LogSafe
<1>12. QED
  BY <1>7, <1>8, <1>9, <1>10, <1>11 DEF IInv

\* What the job under way is, and the page it works on.
LEMMA BusyJob ==
  ASSUME IInv, hw = "busy"
  PROVE  /\ mode = "run" /\ job.kind \in 1 .. 4 /\ job.phase \in {1, 2}
         /\ (job.phase = 1 <=> job.erase) /\ ~Written
         /\ job.addr \in Addrs /\ job.rec \in Cells /\ job.slot \in StaSlots
         /\ job.kind \in {1, 3, 4} => job.channel \in Channels /\ job.rec.info \in Infos
         /\ job.kind = 1 => job.addr[1] = FilPage(job.channel)
         /\ job.kind = 2 => job.addr = StaAddr(job.slot) /\ job.addr[1] \in 6 .. 13
         /\ job.kind \in {3, 4} => job.addr = ScratchAddr /\ job.addr[1] = 14
         /\ job.kind = 1 /\ ~job.rollover => job.phase = 2
         /\ job.kind = 4 => job.phase = 1
<1>1. job \in Jobs
  BY DEF IInv, TypeOK
<1>2. job.kind # 0 /\ mode = "run" /\ job.phase # 0
  BY DEF IInv, JobShape
<1>3. job.kind \in 1 .. 4 /\ job.phase \in {1, 2} /\ job.slot \in StaSlots
  BY <1>1, <1>2, SMT DEF Jobs
<1>4. (job.phase = 1 <=> job.erase) /\ (job.kind = 4 => job.erase)
  BY <1>2 DEF IInv, JobShape
<1>5. job.addr \in Addrs /\ job.rec \in Cells
  BY <1>1, Zenon DEF Jobs
<1>6. job.kind \in {1, 3, 4} => job.channel \in Channels /\ job.rec.info \in Infos
  BY DEF IInv, JobShape
<1>7. job.kind = 1 => job.addr[1] = FilPage(job.channel)
  <2>1. job.kind = 1 /\ job.rollover => job.addr = FilAddr(job.channel, 0)
    BY DEF IInv, RewriteSafe
  <2>2. job.kind = 1 /\ ~job.rollover =>
          \E s \in 0 .. FilSlots - 1 : job.addr = FilAddr(job.channel, s)
    BY DEF IInv, AppendSafe
  <2>3. QED
    BY <1>6, <2>1, <2>2, Geometry, FilLayout
<1>8. job.kind = 1 /\ ~job.rollover => ~job.erase
  BY DEF IInv, AppendSafe
<1>9. job.kind = 2 => job.addr = StaAddr(job.slot) /\ job.addr[1] \in 6 .. 13
  BY <1>3, StaLayout DEF IInv, LogSafe
<1>10. job.kind \in {3, 4} => job.addr = ScratchAddr /\ job.addr[1] = 14
  BY ScratchLayout DEF IInv, CopySafe, RetireSafe
<1>11. ~Written
  BY DEF Written
<1>12. QED
  BY <1>2, <1>3, <1>4, <1>5, <1>6, <1>7, <1>8, <1>9, <1>10, <1>11

\* A program changes its slot only; an erase, whether it completes or not, its page only,
\* and leaves no new record there.
JobEffect ==
  /\ flash' \in [Addrs -> Cells]
  /\ job.phase = 1 => OnlyLoses(job.addr[1])
  /\ job.phase = 2 => \A a \in Addrs : a # job.addr => flash'[a] = flash[a]

LEMMA TornEffect ==
  ASSUME IInv, hw = "busy", TornOperation
  PROVE  JobEffect /\ staTears' \in 0 .. MaxStaTears
<1>1. flash \in [Addrs -> Cells] /\ staTears \in 0 .. MaxStaTears
  BY DEF IInv, TypeOK
<1>2. ASSUME job.phase = 1, TornErase(job.addr[1])
      PROVE  JobEffect
  <2>1. OnlyLoses(job.addr[1])
    BY <1>1, <1>2, TornEraseEffect
  <2>2. QED
    BY <1>2, <2>1 DEF JobEffect, OnlyLoses
<1>3. ASSUME job.phase = 2,
             TornProgram(job.addr, job.rec, LastHalfword /\ Programmable)
      PROVE  JobEffect
  <2>1. PICK last \in BOOLEAN : TornProgram(job.addr, job.rec, last)
    BY <1>3
  <2>2. /\ flash' \in [Addrs -> Cells]
        /\ \A b \in Addrs : b # job.addr => flash'[b] = flash[b]
    BY <1>1, <2>1, BusyJob, TornProgramEffect
  <2>3. QED
    BY <1>3, <2>2 DEF JobEffect
<1>4. staTears' \in 0 .. MaxStaTears
  BY <1>1, Geometry, SMT DEF TornOperation
<1>5. QED
  BY <1>2, <1>3, <1>4 DEF TornOperation

\* So pages the job does not work on are as they were.
LEMMA EffectFrame ==
  ASSUME IInv, hw = "busy", JobEffect
  PROVE  /\ \A d \in Channels : job.kind # 1 \/ d # job.channel => SamePage(flash, flash', d)
         /\ job.kind \in {1, 2} => flash'[ScratchAddr] = flash[ScratchAddr]
         /\ sta.have => flash'[StaAddr(sta.savedSlot)] = flash[StaAddr(sta.savedSlot)]
<1>1. \A a \in Addrs : a[1] # job.addr[1] => flash'[a] = flash[a]
  BY BusyJob DEF JobEffect, OnlyLoses
<1>2. ASSUME NEW d \in Channels, job.kind # 1 \/ d # job.channel
      PROVE  FilPage(d) # job.addr[1]
  <2>1. FilPage(d) \in 2 .. 5
    BY Geometry, FilLayout
  <2>2. d # job.channel /\ job.channel \in Channels => FilPage(d) # FilPage(job.channel)
    BY Geometry, FilLayout
  <2>3. job.kind = 1 => job.channel \in Channels /\ job.addr[1] = FilPage(job.channel)
    BY BusyJob
  <2>4. job.kind # 1 => job.addr[1] \in 6 .. 14
    BY BusyJob, SMT
  <2>5. QED
    BY <1>2, <2>1, <2>2, <2>3, <2>4, SMT
<1>3. \A d \in Channels : job.kind # 1 \/ d # job.channel => SamePage(flash, flash', d)
  BY <1>1, <1>2, PagesApart
<1>4. job.kind \in {1, 2} => flash'[ScratchAddr] = flash[ScratchAddr]
  <2>1. job.kind = 1 => FilPage(job.channel) \in 2 .. 5
    BY BusyJob, Geometry, FilLayout
  <2>2. job.kind \in {1, 2} => job.addr[1] # ScratchPage
    BY <2>1, BusyJob, ScratchLayout
  <2>3. QED
    BY <1>1, <2>2, PagesApart
<1>5. ASSUME sta.have
      PROVE  flash'[StaAddr(sta.savedSlot)] = flash[StaAddr(sta.savedSlot)]
  <2>1. sta.savedSlot \in StaSlots
    BY DEF IInv, TypeOK, StaCaches
  <2>2. /\ StaAddr(sta.savedSlot) \in Addrs
        /\ StaAddr(sta.savedSlot)[1] = StaPageOf(sta.savedSlot)
        /\ StaPageOf(sta.savedSlot) \in 6 .. 13
    BY <2>1, StaLayout
  <2>3. CASE job.kind = 2
    <3>1. /\ job.addr # StaAddr(sta.savedSlot)
          /\ job.erase => job.addr[1] # StaPageOf(sta.savedSlot)
      BY <1>5, <2>3 DEF IInv, LogSafe
    <3>2. QED
      BY <1>1, <2>2, <3>1, BusyJob DEF JobEffect
  <2>4. CASE job.kind # 2
    <3>1. job.kind = 1 => FilPage(job.channel) \in 2 .. 5
      BY BusyJob, Geometry, FilLayout
    <3>2. job.addr[1] \notin 6 .. 13
      BY <2>4, <3>1, BusyJob
    <3>3. QED
      BY <1>1, <2>2, <3>2
  <2>5. QED
    BY <2>3, <2>4
<1>6. QED
  BY <1>3, <1>4, <1>5

\* The parts of the invariant an operation of the flash can only disturb through a page.
LEMMA IInvEffect ==
  ASSUME IInv, hw = "busy", JobEffect, hw' \in {"ok", "failed"},
         UNCHANGED <<mode, fault, job, filLast, filCursor, sta>>, staTears' \in 0 .. MaxStaTears
  PROVE  /\ TypeOK' /\ JobShape' /\ RecoverySafe' /\ OthersScanned' /\ NoStrayScratch'
         /\ sta.have => /\ flash'[StaAddr(sta.savedSlot)] \in StaRecords
                        /\ flash'[StaAddr(sta.savedSlot)].channel = sta.loaded
<1>1. TypeOK'
  BY DEF IInv, TypeOK, JobEffect
<1>2. JobShape'
  <2>1. hw' # "idle" /\ job.phase # 0 /\ mode = "run" /\ job.kind # 0
    BY BusyJob
  <2>2. QED
    BY <2>1 DEF IInv, JobShape
<1>3. RecoverySafe'
  BY BusyJob DEF RecoverySafe
<1>4. OthersScanned'
  <2>1. SUFFICES ASSUME NEW d \in Channels, job.kind = 2 \/ d # job.channel
                 PROVE  PageScanned(d)'
    BY BusyJob DEF OthersScanned
  <2>2. PageScanned(d)
    BY <2>1, BusyJob DEF IInv, OthersScanned
  <2>3. SamePage(flash, flash', d)
    BY <2>1, EffectFrame
  <2>4. QED
    BY <2>2, <2>3, ScanFrame DEF PageScanned
<1>5. NoStrayScratch'
  BY BusyJob, EffectFrame DEF IInv, NoStrayScratch, ScratchValid
<1>6. sta.have => /\ flash'[StaAddr(sta.savedSlot)] \in StaRecords
                  /\ flash'[StaAddr(sta.savedSlot)].channel = sta.loaded
  BY EffectFrame DEF IInv, LogSafe
<1>7. QED
  BY <1>1, <1>2, <1>3, <1>4, <1>5, <1>6

\* A page erase ran to its end.
LEMMA IInvErased ==
  ASSUME IInv, FlashDone, hw' = "ok", job.phase = 1
  PROVE  IInv'
<1> DEFINE c == job.channel
<1>1. /\ hw = "busy" /\ flash' = ErasedPage(flash, job.addr[1])
      /\ UNCHANGED <<mode, fault, job, filLast, filCursor, sta, staTears>>
      /\ flash \in [Addrs -> Cells] /\ staTears \in 0 .. MaxStaTears
  BY DEF FlashDone, IInv, TypeOK
<1>2. OnlyLoses(job.addr[1]) /\ \A a \in Addrs : a[1] = job.addr[1] => flash'[a] = Erased
  BY <1>1, EraseEffect
<1>3. JobEffect
  BY <1>2 DEF JobEffect, OnlyLoses
<1>4. /\ TypeOK' /\ JobShape' /\ RecoverySafe' /\ OthersScanned' /\ NoStrayScratch'
      /\ sta.have => /\ flash'[StaAddr(sta.savedSlot)] \in StaRecords
                     /\ flash'[StaAddr(sta.savedSlot)].channel = sta.loaded
  BY <1>1, <1>3, IInvEffect
<1>5. job.erase /\ job.index = 0
  BY <1>1, BusyJob DEF IInv, JobShape
<1>6. TargetCell' = Erased
  BY <1>1, <1>5 DEF TargetCell, Written
<1>7. flash'[job.addr] = Erased
  BY <1>1, <1>2, BusyJob
<1>8. Erased \notin ScratchRecords
  BY ValueAssumption DEF Records
<1>9. AppendSafe'
  BY <1>1, BusyJob DEF AppendSafe
<1>10. CopySafe'
  <2>1. SUFFICES ASSUME job.kind = 3 PROVE CopySafe'
    BY <1>1 DEF CopySafe
  <2>2. /\ job.addr = ScratchAddr /\ job.rollover /\ filCursor[c] = 1
        /\ filLast[c] = FilScanLast(flash, c) /\ c \in Channels
    BY <1>1, <2>1, BusyJob DEF IInv, CopySafe
  <2>3. FilScanLast(flash', c) = FilScanLast(flash, c)
    BY <1>1, <1>3, <2>1, <2>2, EffectFrame, ScanFrame
  <2>4. QED
    BY <1>1, <1>5, <1>7, <1>8, <2>1, <2>2, <2>3 DEF CopySafe, ScratchValid
<1>11. RewriteSafe'
  <2>1. SUFFICES ASSUME job.kind = 1, job.rollover PROVE RewriteSafe'
    BY <1>1 DEF RewriteSafe
  <2>2. /\ job.addr = FilAddr(c, 0) /\ filCursor[c] = 1 /\ c \in Channels
        /\ flash[ScratchAddr] = ScratchRecord(c, job.rec.info)
    BY <1>1, <2>1, BusyJob DEF IInv, RewriteSafe
  <2>3. flash'[ScratchAddr] = flash[ScratchAddr]
    BY <1>1, <1>3, <2>1, EffectFrame
  <2>4. \A s \in 0 .. FilSlots - 1 : flash'[FilAddr(c, s)] = Erased
    BY <1>1, <1>2, <2>1, <2>2, BusyJob, FilLayout
  <2>5. 0 \in 0 .. FilSlots - 1
    BY Geometry, SMT
  <2>6. (\A t \in FilSlotsAbove(c, 0) : flash'[FilAddr(c, t)] = Erased)
        /\ flash'[FilAddr(c, 0)] = Erased
    BY <2>4, <2>5 DEF FilSlotsAbove
  <2>7. QED
    BY <1>1, <1>6, <2>2, <2>3, <2>6 DEF RewriteSafe, ErasedAbove
<1>12. RetireSafe'
  <2>1. SUFFICES ASSUME job.kind = 4 PROVE RetireSafe'
    BY <1>1 DEF RetireSafe
  <2>2. /\ job.addr = ScratchAddr /\ filCursor[c] = 1 /\ c \in Channels
        /\ flash[FilAddr(c, 0)] = FilRecord(job.rec.info) /\ ErasedAbove(c, 0)
    BY <1>1, <2>1, BusyJob DEF IInv, RetireSafe
  <2>3. SamePage(flash, flash', c)
    BY <1>1, <1>3, <2>1, <2>2, EffectFrame
  <2>4. flash'[FilAddr(c, 0)] = FilRecord(job.rec.info)
    BY <2>2, <2>3, Geometry, SMT DEF SamePage
  <2>5. \A t \in FilSlotsAbove(c, 0) : flash'[FilAddr(c, t)] = Erased
    BY <2>2, <2>3 DEF SamePage, ErasedAbove, FilSlotsAbove
  <2>6. ~(flash'[ScratchAddr] \in ScratchRecords)
    BY <1>7, <1>8, <2>2
  <2>7. QED
    BY <1>1, <2>2, <2>4, <2>5, <2>6 DEF RetireSafe, ErasedAbove, ScratchValid
<1>13. LogSafe'
  BY <1>1, <1>4, <1>6, <1>7 DEF IInv, LogSafe
<1>14. QED
  BY <1>4, <1>9, <1>10, <1>11, <1>12, <1>13 DEF IInv

\* A halfword was programmed.
LEMMA IInvProgrammed ==
  ASSUME IInv, FlashDone, hw' = "ok", job.phase = 2
  PROVE  IInv'
<1> DEFINE c == job.channel
           cell == IF LastHalfword THEN job.rec ELSE Torn
<1>1. /\ hw = "busy" /\ flash' = [flash EXCEPT ![job.addr] = cell]
      /\ UNCHANGED <<mode, fault, job, filLast, filCursor, sta, staTears>>
      /\ flash \in [Addrs -> Cells] /\ staTears \in 0 .. MaxStaTears
  BY DEF FlashDone, IInv, TypeOK
<1>2. cell \in Cells
  BY <1>1, BusyJob DEF Cells
<1>3. /\ flash' \in [Addrs -> Cells] /\ flash'[job.addr] = cell
      /\ \A a \in Addrs : a # job.addr => flash'[a] = flash[a]
  BY <1>1, <1>2, BusyJob
<1>4. JobEffect
  BY <1>3 DEF JobEffect
<1>5. /\ TypeOK' /\ JobShape' /\ RecoverySafe' /\ OthersScanned' /\ NoStrayScratch'
      /\ sta.have => /\ flash'[StaAddr(sta.savedSlot)] \in StaRecords
                     /\ flash'[StaAddr(sta.savedSlot)].channel = sta.loaded
  BY <1>1, <1>4, IInvEffect
<1>6. TargetCell' = cell /\ (Written' <=> LastHalfword) /\ ~job.erase
  BY <1>1, BusyJob DEF TargetCell, Written, LastHalfword
<1>7. TargetCell \in {Erased, Torn}
  BY <1>1, BusyJob DEF TargetCell
<1> HIDE DEF cell
<1>8. AppendSafe'
  <2>1. SUFFICES ASSUME job.kind = 1, ~job.rollover PROVE AppendSafe'
    BY <1>1 DEF AppendSafe
  <2>2. PICK s \in 0 .. FilSlots - 1 :
          /\ job.addr = FilAddr(c, s) /\ filCursor[c] = s + 1
          /\ flash[FilAddr(c, s)] = TargetCell /\ ErasedAbove(c, s)
          /\ filLast[c] = FilScanLast(flash, c)
    BY <1>1, <2>1, BusyJob DEF IInv, AppendSafe
  <2>3. c \in Channels
    BY <1>1, <2>1, BusyJob
  <2>4. \A t \in 0 .. FilSlots - 1 : t # s => flash'[FilAddr(c, t)] = flash[FilAddr(c, t)]
    <3>1. ASSUME NEW t \in 0 .. FilSlots - 1, t # s
          PROVE  FilAddr(c, t) \in Addrs /\ FilAddr(c, t) # FilAddr(c, s)
      BY <2>3, <3>1, FilLayout
    <3>2. QED
      BY <1>3, <2>2, <3>1
  <2>5. ASSUME ~Written' PROVE FilScanLast(flash', c) = FilScanLast(flash, c)
    <3>1. /\ flash[FilAddr(c, s)] \notin FilRecords
          /\ flash'[FilAddr(c, s)] \notin FilRecords
      BY <1>3, <1>6, <1>7, <2>2, <2>5, ValueAssumption DEF cell, Records
    <3>2. QED
      BY <2>4, <3>1, ScanInvalid
  <2>6. \A t \in FilSlotsAbove(c, s) : flash'[FilAddr(c, t)] = Erased
    <3>1. \A t \in FilSlotsAbove(c, s) : t \in 0 .. FilSlots - 1 /\ t # s
      BY Geometry, SMT DEF FilSlotsAbove
    <3>2. QED
      BY <2>2, <2>4, <3>1 DEF ErasedAbove
  <2>7. QED
    BY <1>1, <1>3, <1>6, <2>2, <2>5, <2>6 DEF AppendSafe, ErasedAbove
<1>9. CopySafe'
  <2>1. SUFFICES ASSUME job.kind = 3 PROVE CopySafe'
    BY <1>1 DEF CopySafe
  <2>2. /\ job.addr = ScratchAddr /\ job.rollover /\ filCursor[c] = 1
        /\ filLast[c] = FilScanLast(flash, c) /\ c \in Channels
    BY <1>1, <2>1, BusyJob DEF IInv, CopySafe
  <2>3. FilScanLast(flash', c) = FilScanLast(flash, c)
    <3>1. hw = "busy" /\ job.kind # 1 /\ c \in Channels
      BY <1>1, <2>1, <2>2
    <3>2. SamePage(flash, flash', c)
      BY <1>4, <3>1, EffectFrame
    <3>3. QED
      BY <3>2, ScanFrame
  <2>4. QED
    BY <1>1, <1>3, <1>6, <2>2, <2>3 DEF CopySafe
<1>10. RewriteSafe'
  <2>1. SUFFICES ASSUME job.kind = 1, job.rollover PROVE RewriteSafe'
    BY <1>1 DEF RewriteSafe
  <2>2. /\ job.addr = FilAddr(c, 0) /\ filCursor[c] = 1 /\ c \in Channels
        /\ flash[ScratchAddr] = ScratchRecord(c, job.rec.info) /\ ErasedAbove(c, 0)
    BY <1>1, <1>6, <2>1, BusyJob DEF IInv, RewriteSafe
  <2>3. flash'[ScratchAddr] = flash[ScratchAddr]
    BY <1>1, <1>4, <2>1, EffectFrame
  <2>4. \A t \in FilSlotsAbove(c, 0) : flash'[FilAddr(c, t)] = Erased
    <3>1. ASSUME NEW t \in FilSlotsAbove(c, 0)
          PROVE  FilAddr(c, t) \in Addrs /\ FilAddr(c, t) # FilAddr(c, 0)
      <4>1. t \in 0 .. FilSlots - 1 /\ t # 0 /\ 0 \in 0 .. FilSlots - 1
        BY Geometry, SMT DEF FilSlotsAbove
      <4>2. QED
        BY <2>2, <4>1, FilLayout
    <3>2. QED
      BY <1>3, <2>2, <3>1 DEF ErasedAbove
  <2>5. QED
    BY <1>1, <1>3, <1>6, <2>2, <2>3, <2>4 DEF RewriteSafe, ErasedAbove
<1>11. RetireSafe'
  BY <1>1, BusyJob DEF RetireSafe
<1>12. LogSafe'
  BY <1>1, <1>3, <1>5, <1>6 DEF IInv, LogSafe
<1>13. QED
  BY <1>5, <1>8, <1>9, <1>10, <1>11, <1>12 DEF IInv

\* The operation was cut short or did not take.
LEMMA IInvTorn ==
  ASSUME IInv, FlashDone, hw' = "failed"
  PROVE  IInv'
<1> DEFINE c == job.channel
<1>1. /\ hw = "busy" /\ TornOperation
      /\ UNCHANGED <<mode, fault, job, filLast, filCursor, sta>>
  BY DEF FlashDone
<1>2. JobEffect /\ staTears' \in 0 .. MaxStaTears
  BY <1>1, TornEffect
<1>3. /\ TypeOK' /\ JobShape' /\ RecoverySafe' /\ OthersScanned' /\ NoStrayScratch'
      /\ sta.have => /\ flash'[StaAddr(sta.savedSlot)] \in StaRecords
                     /\ flash'[StaAddr(sta.savedSlot)].channel = sta.loaded
  BY <1>1, <1>2, IInvEffect
<1>4. AppendSafe' /\ CopySafe'
  BY DEF AppendSafe, CopySafe
<1>5. RewriteSafe'
  BY <1>1, <1>2, EffectFrame DEF IInv, RewriteSafe
<1>6. RetireSafe'
  <2>1. SUFFICES ASSUME job.kind = 4 PROVE RetireSafe'
    BY <1>1 DEF RetireSafe
  <2>2. /\ job.addr = ScratchAddr /\ filCursor[c] = 1 /\ c \in Channels
        /\ flash[FilAddr(c, 0)] = FilRecord(job.rec.info) /\ ErasedAbove(c, 0)
        /\ ScratchValid(flash) => flash[ScratchAddr] = ScratchRecord(c, job.rec.info)
    BY <1>1, <2>1, BusyJob DEF IInv, RetireSafe
  <2>3. SamePage(flash, flash', c)
    BY <1>1, <1>2, <2>1, <2>2, EffectFrame
  <2>4. flash'[FilAddr(c, 0)] = FilRecord(job.rec.info)
    BY <2>2, <2>3, Geometry, SMT DEF SamePage
  <2>5. \A t \in FilSlotsAbove(c, 0) : flash'[FilAddr(c, t)] = Erased
    BY <2>2, <2>3 DEF SamePage, ErasedAbove, FilSlotsAbove
  <2>6. flash'[ScratchAddr] \in ScratchRecords => flash'[ScratchAddr] = flash[ScratchAddr]
    <3>1. flash'[ScratchAddr] = flash[ScratchAddr] \/ flash'[ScratchAddr] \in {Erased, Torn}
      BY <1>1, <1>2, <2>1, BusyJob, ScratchLayout DEF JobEffect, OnlyLoses
    <3>2. QED
      BY <3>1, ValueAssumption DEF Records
  <2>7. QED
    BY <1>1, <2>2, <2>4, <2>5, <2>6 DEF RetireSafe, ErasedAbove, ScratchValid
<1>7. LogSafe'
  BY <1>1, <1>3 DEF IInv, LogSafe
<1>8. QED
  BY <1>3, <1>4, <1>5, <1>6, <1>7 DEF IInv

LEMMA IInvFlashDone == IInv /\ FlashDone => IInv'
<1> SUFFICES ASSUME IInv, FlashDone PROVE IInv'
  OBVIOUS
<1>1. hw' \in {"ok", "failed"} /\ job.phase \in {1, 2}
  BY BusyJob DEF FlashDone
<1>2. QED
  BY <1>1, IInvErased, IInvProgrammed, IInvTorn

-----------------------------------------------------------------------------
(* Boot, recovery and power loss.                                          *)

\* Outside the main loop no job exists and the controller rests.
LEMMA NotRunning ==
  ASSUME IInv, mode # "run"
  PROVE  job = NoJob /\ hw = "idle" /\ fault = FALSE
  BY DEF IInv, JobShape, TypeOK

\* What Flash_AMS_state_read leaves in the caches.
LEMMA StaScanType ==
  ASSUME flash \in [Addrs -> Cells], NEW x \in StaScan(flash)
  PROVE  /\ x \in StaCaches
         /\ x.have => /\ flash[StaAddr(x.savedSlot)] \in StaRecords
                      /\ flash[StaAddr(x.savedSlot)].channel = x.loaded
<1>1. CASE StaValid(flash) = {}
  <2>1. x = StaEmpty
    BY <1>1 DEF StaScan
  <2>2. QED
    BY <2>1, Geometry, SMT DEF StaEmpty, StaCaches, Loaded
<1>2. CASE StaValid(flash) # {}
  <2>1. PICK s \in StaNewest(flash) :
          x = [seq |-> (flash[StaAddr(s)].seq + 1) % SeqMod, slot |-> StaAfter(s),
               have |-> TRUE, savedSlot |-> s, loaded |-> flash[StaAddr(s)].channel]
    BY <1>2 DEF StaScan
  <2>2. s \in StaSlots /\ flash[StaAddr(s)] \in StaRecords
    BY DEF StaNewest, StaValid
  <2>3. PICK r \in StaRecords : r = flash[StaAddr(s)]
    BY <2>2
  <2>4. r.seq \in 0 .. SeqMod - 1 /\ r.channel \in Loaded
    BY <2>3 DEF StaRecords
  <2>5. PICK q \in 0 .. SeqMod - 1 : q = (r.seq + 1) % SeqMod
    BY <2>4, Geometry, ModRange
  <2>6. PICK n \in StaSlots : n = StaAfter(s)
    <3>1. StaAfter(s) \in StaSlots
      BY <2>2, StaNextSlot, 0 \in Nat
    <3>2. QED
      BY <3>1
  <2>7. x = [seq |-> q, slot |-> n, have |-> TRUE, savedSlot |-> s, loaded |-> r.channel]
    BY <2>1, <2>3, <2>5, <2>6
  <2>8. x \in StaCaches
    BY <2>2, <2>4, <2>7, SMT DEF StaCaches
  <2>9. QED
    BY <2>2, <2>3, <2>7, <2>8
<1>3. QED
  BY <1>1, <1>2

\* A scratch record names a channel and its filament.
LEMMA RescuedType ==
  ASSUME ScratchValid(flash)
  PROVE  Rescued.channel \in Channels /\ Rescued.info \in Infos
  BY DEF ScratchValid, Rescued, ScratchRecords

LEMMA IInvBoot == IInv /\ Boot => IInv'
<1> SUFFICES ASSUME IInv, Boot PROVE IInv'
  OBVIOUS
<1>1. /\ mode = "off" /\ job = NoJob /\ hw = "idle" /\ fault = FALSE
      /\ UNCHANGED <<flash, fault, job, hw, staTears>>
      /\ flash \in [Addrs -> Cells] /\ staTears \in 0 .. MaxStaTears
  BY NotRunning DEF Boot, IInv, TypeOK
<1>2. sta' \in StaCaches
      /\ (sta'.have => /\ flash[StaAddr(sta'.savedSlot)] \in StaRecords
                       /\ flash[StaAddr(sta'.savedSlot)].channel = sta'.loaded)
  BY <1>1, StaScanType DEF Boot
<1>3. filCursor' = [c \in Channels |-> FilScanCursor(flash, c)]
  BY DEF Boot
<1>4. filCursor' \in [Channels -> 0 .. FilSlots]
  BY <1>3, ScanCursor
<1>5. CASE ~ScratchValid(flash)
  <2>1. filLast' = [c \in Channels |-> FilScanLast(flash, c)] /\ mode' = "run"
    BY <1>5 DEF Boot
  <2>2. filLast' \in [Channels -> Infos \cup {NoInfo}]
    BY <2>1, ScanLastType
  <2>3. TypeOK'
    BY <1>1, <1>2, <1>4, <2>1, <2>2, NoJobType DEF TypeOK
  <2>4. JobShape' /\ RecoverySafe'
    BY <1>1, <2>1 DEF JobShape, RecoverySafe, NoJob
  <2>5. OthersScanned' /\ NoStrayScratch'
    BY <1>1, <1>3, <1>5, <2>1 DEF OthersScanned, NoStrayScratch, PageScanned, ScratchValid
  <2>6. AppendSafe' /\ CopySafe' /\ RewriteSafe' /\ RetireSafe'
    BY <1>1 DEF AppendSafe, CopySafe, RewriteSafe, RetireSafe, NoJob
  <2>7. LogSafe'
    BY <1>1, <1>2 DEF LogSafe, NoJob
  <2>8. QED
    BY <2>3, <2>4, <2>5, <2>6, <2>7 DEF IInv
<1>6. CASE ScratchValid(flash)
  <2>1. /\ filLast' = [c \in Channels |-> IF c = Rescued.channel THEN Rescued.info
                                          ELSE FilScanLast(flash, c)]
        /\ mode' \in {"retire", "erase"}
        /\ mode' = "retire" => FilScanLast(flash, Rescued.channel) = Rescued.info
    BY <1>6 DEF Boot
  <2>2. filLast' \in [Channels -> Infos \cup {NoInfo}]
    BY <1>6, <2>1, ScanLastType, RescuedType
  <2>3. TypeOK'
    BY <1>1, <1>2, <1>4, <2>1, <2>2, NoJobType DEF TypeOK
  <2>4. JobShape'
    BY <1>1, <2>1 DEF JobShape, NoJob
  <2>5. RecoverySafe'
    <3>1. Rescued' = Rescued
      BY <1>1 DEF Rescued
    <3>2. \A c \in Channels : filLast'[c] = FilStored(c)'
      BY <1>1, <1>6, <2>1, <3>1 DEF FilStored, ScratchValid
    <3>3. QED
      BY <1>1, <1>3, <1>6, <2>1, <3>1, <3>2 DEF RecoverySafe, ScratchValid
  <2>6. OthersScanned' /\ NoStrayScratch'
    BY <2>1 DEF OthersScanned, NoStrayScratch
  <2>7. AppendSafe' /\ CopySafe' /\ RewriteSafe' /\ RetireSafe'
    BY <1>1 DEF AppendSafe, CopySafe, RewriteSafe, RetireSafe, NoJob
  <2>8. LogSafe'
    BY <1>1, <1>2 DEF LogSafe, NoJob
  <2>9. QED
    BY <2>3, <2>4, <2>5, <2>6, <2>7, <2>8 DEF IInv
<1>7. QED
  BY <1>5, <1>6

\* Recovery works on a filament page or on the scratch page only.
RecoveryEffect ==
  /\ flash' \in [Addrs -> Cells]
  /\ \A s \in StaSlots : flash'[StaAddr(s)] = flash[StaAddr(s)]
  /\ mode \in {"erase", "program"} =>
       /\ flash'[ScratchAddr] = flash[ScratchAddr]
       /\ \A d \in Channels : d # Rescued.channel => SamePage(flash, flash', d)
  /\ mode = "retire" => \A d \in Channels : SamePage(flash, flash', d)

LEMMA PageEffect ==
  ASSUME NEW p \in {FilPage(c) : c \in Channels} \cup {ScratchPage},
         flash' \in [Addrs -> Cells], \A a \in Addrs : a[1] # p => flash'[a] = flash[a],
         mode \in {"erase", "program"} =>
           Rescued.channel \in Channels /\ p = FilPage(Rescued.channel),
         mode = "retire" => p = ScratchPage
  PROVE  RecoveryEffect
<1>1. p \in 2 .. 5 \/ p = 14
  BY FilPages, ScratchLayout
<1>2. ASSUME NEW s \in StaSlots
      PROVE  flash'[StaAddr(s)] = flash[StaAddr(s)]
  <2>1. StaPageOf(s) # p
    BY <1>1, StaLayout, SMT
  <2>2. QED
    BY <2>1, PagesApart
<1>3. ASSUME mode \in {"erase", "program"}
      PROVE  /\ flash'[ScratchAddr] = flash[ScratchAddr]
             /\ \A d \in Channels : d # Rescued.channel => SamePage(flash, flash', d)
  <2>1. p \in 2 .. 5
    BY <1>3, FilPages
  <2>2. p # ScratchPage
    BY <2>1, ScratchLayout
  <2>3. \A d \in Channels : d # Rescued.channel => FilPage(d) # p
    BY <1>3, FilPages
  <2>4. QED
    BY <2>2, <2>3, PagesApart
<1>4. ASSUME mode = "retire", NEW d \in Channels
      PROVE  SamePage(flash, flash', d)
  <2>1. FilPage(d) \in 2 .. 5
    BY FilPages
  <2>2. FilPage(d) # p
    BY <1>4, <2>1, ScratchLayout
  <2>3. QED
    BY <2>2, PagesApart
<1>5. QED
  BY <1>2, <1>3, <1>4 DEF RecoveryEffect

LEMMA RecoveryPages ==
  ASSUME IInv, mode \in {"erase", "program", "retire"}
  PROVE  /\ ScratchValid(flash) /\ Rescued.channel \in Channels /\ Rescued.info \in Infos
         /\ flash \in [Addrs -> Cells] /\ staTears \in 0 .. MaxStaTears
         /\ FilAddr(Rescued.channel, 0) \in Addrs
         /\ FilAddr(Rescued.channel, 0)[1] = FilPage(Rescued.channel)
         /\ FilRecord(Rescued.info) \in FilRecords /\ FilRecord(Rescued.info) \in Cells
         /\ FilPage(Rescued.channel) \in {FilPage(c) : c \in Channels} \cup {ScratchPage}
         /\ ScratchPage \in {FilPage(c) : c \in Channels} \cup {ScratchPage}
<1>1. ScratchValid(flash) /\ flash \in [Addrs -> Cells] /\ staTears \in 0 .. MaxStaTears
  BY DEF IInv, RecoverySafe, TypeOK
<1>2. Rescued.channel \in Channels /\ Rescued.info \in Infos
  BY <1>1, RescuedType
<1>3. 0 \in 0 .. FilSlots - 1
  BY Geometry, SMT
<1>4. FilRecord(Rescued.info) \in FilRecords
  BY <1>2 DEF FilRecord, FilRecords
<1>5. FilRecord(Rescued.info) \in Cells
  BY <1>4 DEF Records, Cells
<1>6. QED
  BY <1>1, <1>2, <1>3, <1>4, <1>5, FilLayout

\* A recovery step that is cut short or does not verify keeps to its page, too.
LEMMA TornRecoveryEffect ==
  ASSUME IInv, TornRecovery
  PROVE  RecoveryEffect /\ mode \in {"erase", "program", "retire"}
<1>1. CASE mode = "erase" /\ TornErase(FilPage(Rescued.channel))
  <2>1. OnlyLoses(FilPage(Rescued.channel))
    BY <1>1, RecoveryPages, TornEraseEffect
  <2>2. QED
    BY <1>1, <2>1, RecoveryPages, PageEffect DEF OnlyLoses
<1>2. CASE mode = "program"
           /\ TornProgram(FilAddr(Rescued.channel, 0), FilRecord(Rescued.info), TRUE)
  <2>1. /\ flash' \in [Addrs -> Cells]
        /\ \A b \in Addrs : b # FilAddr(Rescued.channel, 0) => flash'[b] = flash[b]
    BY <1>2, RecoveryPages, TornProgramEffect
  <2>2. \A b \in Addrs : b[1] # FilPage(Rescued.channel) => flash'[b] = flash[b]
    BY <1>2, <2>1, RecoveryPages
  <2>3. QED
    BY <1>2, <2>1, <2>2, RecoveryPages, PageEffect
<1>3. CASE mode = "retire" /\ TornErase(ScratchPage)
  <2>1. OnlyLoses(ScratchPage)
    BY <1>3, RecoveryPages, TornEraseEffect
  <2>2. QED
    BY <1>3, <2>1, RecoveryPages, PageEffect DEF OnlyLoses
<1>4. QED
  BY <1>1, <1>2, <1>3 DEF TornRecovery

\* The log is not touched by the recovery of a filament record.
LEMMA LogSafeRecovery ==
  ASSUME IInv, mode # "run", RecoveryEffect, UNCHANGED <<job, hw, sta>>
  PROVE  LogSafe'
<1>1. job = NoJob
  BY NotRunning
<1>2. sta.have => sta.savedSlot \in StaSlots
  BY DEF IInv, TypeOK, StaCaches
<1>3. QED
  BY <1>1, <1>2 DEF RecoveryEffect, IInv, LogSafe, NoJob

\* With no job and outside the main loop, the parts about jobs say nothing.
LEMMA NoJobParts ==
  ASSUME job' = NoJob
  PROVE  AppendSafe' /\ CopySafe' /\ RewriteSafe' /\ RetireSafe'
  BY DEF AppendSafe, CopySafe, RewriteSafe, RetireSafe, NoJob

LEMMA IInvRecoverErase == IInv /\ RecoverErase => IInv'
<1> SUFFICES ASSUME IInv, RecoverErase PROVE IInv'
  OBVIOUS
<1> DEFINE c == Rescued.channel
<1>1. /\ mode = "erase" /\ mode' = "program" /\ flash' = ErasedPage(flash, FilPage(c))
      /\ UNCHANGED <<fault, job, hw, filLast, filCursor, sta, staTears>>
      /\ job = NoJob /\ hw = "idle" /\ fault = FALSE /\ flash \in [Addrs -> Cells]
      /\ c \in Channels /\ ScratchValid(flash)
  BY NotRunning, RecoveryPages DEF RecoverErase
<1>2. OnlyLoses(FilPage(c)) /\ \A a \in Addrs : a[1] = FilPage(c) => flash'[a] = Erased
  BY <1>1, EraseEffect
<1>3. RecoveryEffect
  BY <1>1, <1>2, RecoveryPages, PageEffect DEF OnlyLoses
<1>4. TypeOK'
  BY <1>1, <1>2 DEF IInv, TypeOK, OnlyLoses
<1>5. JobShape'
  BY <1>1 DEF JobShape, NoJob
<1>6. RecoverySafe'
  <2>1. Rescued' = Rescued /\ ScratchValid(flash')
    BY <1>1, <1>3 DEF RecoveryEffect, Rescued, ScratchValid
  <2>2. /\ \A d \in Channels : filLast[d] = FilStored(d)
        /\ \A d \in Channels : d # c => filCursor[d] = FilScanCursor(flash, d)
    BY <1>1 DEF IInv, RecoverySafe
  <2>3. \A d \in Channels : d # c => /\ FilScanLast(flash', d) = FilScanLast(flash, d)
                                    /\ FilScanCursor(flash', d) = FilScanCursor(flash, d)
    BY <1>1, <1>3, ScanFrame DEF RecoveryEffect
  <2>4. \A d \in Channels : filLast[d] = FilStored(d)'
    BY <1>1, <2>1, <2>2, <2>3 DEF FilStored
  <2>5. \A s \in 0 .. FilSlots - 1 : flash'[FilAddr(c, s)] = Erased
    BY <1>1, <1>2, FilLayout
  <2>6. QED
    BY <1>1, <2>1, <2>2, <2>3, <2>4, <2>5 DEF RecoverySafe
<1>7. OthersScanned' /\ NoStrayScratch'
  BY <1>1 DEF OthersScanned, NoStrayScratch
<1>8. QED
  BY <1>1, <1>3, <1>4, <1>5, <1>6, <1>7, NoJobParts, LogSafeRecovery DEF IInv

LEMMA IInvRecoverProgram == IInv /\ RecoverProgram => IInv'
<1> SUFFICES ASSUME IInv, RecoverProgram PROVE IInv'
  OBVIOUS
<1> DEFINE c == Rescued.channel
           i == Rescued.info
<1>1. /\ mode = "program" /\ mode' = "retire"
      /\ flash' = [flash EXCEPT ![FilAddr(c, 0)] = FilRecord(i)]
      /\ filCursor' = [filCursor EXCEPT ![c] = 1]
      /\ UNCHANGED <<fault, job, hw, filLast, sta, staTears>>
      /\ job = NoJob /\ hw = "idle" /\ fault = FALSE /\ flash \in [Addrs -> Cells]
      /\ c \in Channels /\ i \in Infos /\ ScratchValid(flash)
      /\ FilAddr(c, 0) \in Addrs /\ FilRecord(i) \in Cells
  BY NotRunning, RecoveryPages DEF RecoverProgram
<1>2. /\ flash' \in [Addrs -> Cells] /\ flash'[FilAddr(c, 0)] = FilRecord(i)
      /\ \A a \in Addrs : a # FilAddr(c, 0) => flash'[a] = flash[a]
  BY <1>1
<1>3. RecoveryEffect
  <2>1. \A a \in Addrs : a[1] # FilPage(c) => flash'[a] = flash[a]
    BY <1>1, <1>2, RecoveryPages
  <2>2. QED
    BY <1>1, <1>2, <2>1, RecoveryPages, PageEffect
<1>4. /\ filCursor' \in [Channels -> 0 .. FilSlots] /\ filCursor'[c] = 1
      /\ \A d \in Channels : d # c => filCursor'[d] = filCursor[d]
  BY <1>1, Geometry, SMT DEF IInv, TypeOK
<1>5. TypeOK'
  BY <1>1, <1>2, <1>4 DEF IInv, TypeOK
<1>6. JobShape'
  BY <1>1 DEF JobShape, NoJob
<1>7. RecoverySafe'
  <2>1. Rescued' = Rescued /\ ScratchValid(flash')
    BY <1>1, <1>3 DEF RecoveryEffect, Rescued, ScratchValid
  <2>2. /\ \A d \in Channels : filLast[d] = FilStored(d)
        /\ \A d \in Channels : d # c => filCursor[d] = FilScanCursor(flash, d)
        /\ \A s \in 0 .. FilSlots - 1 : flash[FilAddr(c, s)] = Erased
    BY <1>1 DEF IInv, RecoverySafe
  <2>3. \A d \in Channels : d # c => /\ FilScanLast(flash', d) = FilScanLast(flash, d)
                                    /\ FilScanCursor(flash', d) = FilScanCursor(flash, d)
    BY <1>1, <1>3, ScanFrame DEF RecoveryEffect
  <2>4. \A d \in Channels : filLast[d] = FilStored(d)'
    BY <1>1, <2>1, <2>2, <2>3 DEF FilStored
  <2>5. FilScanLast(flash', c) = i /\ FilScanCursor(flash', c) = 1
    <3>1. ASSUME NEW t \in FilSlotsAbove(c, 0)
          PROVE  flash'[FilAddr(c, t)] = Erased
      <4>1. t \in 0 .. FilSlots - 1 /\ t # 0 /\ 0 \in 0 .. FilSlots - 1
        BY Geometry, SMT DEF FilSlotsAbove
      <4>2. FilAddr(c, t) \in Addrs /\ FilAddr(c, t) # FilAddr(c, 0)
        BY <1>1, <4>1, FilLayout
      <4>3. QED
        BY <1>2, <2>2, <4>1, <4>2
    <3>2. 0 \in 0 .. FilSlots - 1 /\ 0 + 1 = 1
      BY Geometry, SMT
    <3>3. FilScanLast(flash', c) = i /\ FilScanCursor(flash', c) = 0 + 1
      <4>1. /\ i \in Infos /\ flash'[FilAddr(c, 0)] = FilRecord(i)
            /\ \A t \in FilSlotsAbove(c, 0) : flash'[FilAddr(c, t)] = Erased
        BY <1>1, <1>2, <3>1
      <4> HIDE DEF c, i
      <4>2. QED
        BY <3>2, <4>1, ScanTop
    <3>4. QED
      BY <3>2, <3>3
  <2>6. \A d \in Channels : filCursor'[d] = FilScanCursor(flash', d)
    BY <1>4, <2>2, <2>3, <2>5
  <2>7. QED
    BY <1>1, <2>1, <2>4, <2>5, <2>6 DEF RecoverySafe
<1>8. OthersScanned' /\ NoStrayScratch'
  BY <1>1 DEF OthersScanned, NoStrayScratch
<1>9. QED
  BY <1>1, <1>3, <1>5, <1>6, <1>7, <1>8, NoJobParts, LogSafeRecovery DEF IInv

LEMMA IInvRecoverRetire == IInv /\ RecoverRetire => IInv'
<1> SUFFICES ASSUME IInv, RecoverRetire PROVE IInv'
  OBVIOUS
<1>1. /\ mode = "retire" /\ mode' = "run" /\ flash' = ErasedPage(flash, ScratchPage)
      /\ UNCHANGED <<fault, job, hw, filLast, filCursor, sta, staTears>>
      /\ job = NoJob /\ hw = "idle" /\ fault = FALSE /\ flash \in [Addrs -> Cells]
  BY NotRunning, RecoveryPages DEF RecoverRetire
<1>2. OnlyLoses(ScratchPage) /\ \A a \in Addrs : a[1] = ScratchPage => flash'[a] = Erased
  BY <1>1, EraseEffect
<1>3. RecoveryEffect
  BY <1>1, <1>2, RecoveryPages, PageEffect DEF OnlyLoses
<1>4. TypeOK'
  BY <1>1, <1>2 DEF IInv, TypeOK, OnlyLoses
<1>5. JobShape' /\ RecoverySafe'
  BY <1>1 DEF JobShape, RecoverySafe, NoJob
<1>6. OthersScanned'
  <2>1. SUFFICES ASSUME NEW d \in Channels PROVE PageScanned(d)'
    BY <1>1 DEF OthersScanned
  <2>2. PageScanned(d)
    BY <1>1 DEF IInv, RecoverySafe, PageScanned, FilStored
  <2>3. QED
    BY <1>1, <1>3, <2>2, ScanFrame DEF RecoveryEffect, PageScanned
<1>7. NoStrayScratch'
  <2>1. flash'[ScratchAddr] = Erased /\ Erased \notin ScratchRecords
    BY <1>2, ScratchLayout, ValueAssumption DEF Records
  <2>2. QED
    BY <2>1 DEF NoStrayScratch, ScratchValid
<1>8. QED
  BY <1>1, <1>3, <1>4, <1>5, <1>6, <1>7, NoJobParts, LogSafeRecovery DEF IInv

LEMMA IInvRecoverFail == IInv /\ RecoverFail => IInv'
<1> SUFFICES ASSUME IInv, RecoverFail PROVE IInv'
  OBVIOUS
<1>1. RecoveryEffect /\ mode # "run"
  BY TornRecoveryEffect DEF RecoverFail
<1>2. /\ mode' = "run" /\ fault' = TRUE /\ job = NoJob /\ hw = "idle"
      /\ UNCHANGED <<job, hw, filLast, filCursor, sta, staTears>>
  BY <1>1, NotRunning DEF RecoverFail
<1>3. TypeOK'
  BY <1>1, <1>2 DEF IInv, TypeOK, RecoveryEffect
<1>4. JobShape' /\ RecoverySafe'
  BY <1>2 DEF JobShape, RecoverySafe, NoJob
<1>5. OthersScanned' /\ NoStrayScratch'
  BY <1>2 DEF OthersScanned, NoStrayScratch, NoJob
<1>6. QED
  BY <1>1, <1>2, <1>3, <1>4, <1>5, NoJobParts, LogSafeRecovery DEF IInv

\* Power loss: the flash keeps its type, and everything else is blank.
LEMMA IInvPowerCut == IInv /\ PowerCut => IInv'
<1> SUFFICES ASSUME IInv, PowerCut PROVE IInv'
  OBVIOUS
<1>1. flash' \in [Addrs -> Cells] /\ staTears' \in 0 .. MaxStaTears
  <2>1. CASE mode = "run" /\ hw = "busy"
    BY <2>1, TornEffect DEF PowerCut, JobEffect
  <2>2. CASE ~(mode = "run" /\ hw = "busy")
    <3>1. (UNCHANGED flash \/ TornRecovery) /\ UNCHANGED staTears
      BY <2>2 DEF PowerCut
    <3>2. QED
      BY <3>1, TornRecoveryEffect DEF RecoveryEffect, IInv, TypeOK
  <2>3. QED
    BY <2>1, <2>2
<1>2. /\ mode' = "off" /\ job' = NoJob /\ hw' = "idle" /\ fault' = FALSE
      /\ filLast' \in [Channels -> Infos \cup {NoInfo}]
      /\ filCursor' \in [Channels -> 0 .. FilSlots]
      /\ sta' = StaEmpty
  BY Geometry, SMT DEF PowerCut, VolatileBlank
<1>3. StaEmpty \in StaCaches
  BY Geometry, SMT DEF StaEmpty, StaCaches, Loaded
<1>4. TypeOK'
  BY <1>1, <1>2, <1>3, NoJobType DEF TypeOK
<1>5. JobShape' /\ RecoverySafe' /\ OthersScanned' /\ NoStrayScratch'
  BY <1>2 DEF JobShape, RecoverySafe, OthersScanned, NoStrayScratch, NoJob
<1>6. LogSafe'
  BY <1>2 DEF LogSafe, NoJob, StaEmpty
<1>7. QED
  BY <1>2, <1>4, <1>5, <1>6, NoJobParts DEF IInv

LEMMA IInvStutter == IInv /\ UNCHANGED vars => IInv'
<1> SUFFICES ASSUME IInv, UNCHANGED vars PROVE IInv'
  OBVIOUS
<1> USE DEF vars
<1>1. TypeOK' /\ JobShape' /\ LogSafe'
  BY DEF IInv, TypeOK, JobShape, LogSafe, TargetCell, Written, LastHalfword
<1>2. RecoverySafe'
  BY DEF IInv, RecoverySafe, ScratchValid, Rescued, FilStored
<1>3. OthersScanned' /\ NoStrayScratch'
  BY DEF IInv, OthersScanned, NoStrayScratch, PageScanned, ScratchValid
<1>4. AppendSafe' /\ CopySafe' /\ RewriteSafe' /\ RetireSafe'
  BY DEF IInv, AppendSafe, CopySafe, RewriteSafe, RetireSafe, TargetCell, Written, LastHalfword,
     ErasedAbove, ScratchValid
<1>5. QED
  BY <1>1, <1>2, <1>3, <1>4 DEF IInv

-----------------------------------------------------------------------------
(* The theorems.                                                           *)

\* The invariant is inductive.
LEMMA IInvStep == IInv /\ [Next]_vars => IInv'
<1> SUFFICES ASSUME IInv, [Next]_vars PROVE IInv'
  OBVIOUS
<1>1. CASE Flash_background_run
  BY <1>1, IInvTimeout, IInvFail, IInvNext, IInvStart, IInvRollPage, IInvRollScratch,
     IInvFilamentDone, IInvStateDone DEF Flash_background_run
<1>2. CASE Recover
  BY <1>2, IInvRecoverErase, IInvRecoverProgram, IInvRecoverRetire, IInvRecoverFail DEF Recover
<1>3. CASE \E c \in Channels, i \in FilWrites : Flash_AMS_filament_write(c, i)
  BY <1>3, IInvFilamentWrite
<1>4. CASE \E l \in StaWrites : Flash_AMS_state_write(l)
  BY <1>4, IInvStateWrite
<1>5. CASE Boot
  BY <1>5, IInvBoot
<1>6. CASE PowerCut
  BY <1>6, IInvPowerCut
<1>7. CASE FlashDone
  BY <1>7, IInvFlashDone
<1>8. CASE UNCHANGED vars
  BY <1>8, IInvStutter
<1>9. QED
  BY <1>1, <1>2, <1>3, <1>4, <1>5, <1>6, <1>7, <1>8 DEF Next

\* The inductive invariant holds in every reachable state, whatever the number of
\* channels, slots, pages and records and however often the power fails.
THEOREM Invariance == Spec => []IInv
<1>1. Init => IInv
  BY IInvInit
<1>2. IInv /\ [Next]_vars => IInv'
  BY IInvStep
<1>3. QED
  BY <1>1, <1>2, PTL DEF Spec

\* Every cache, cursor and job field keeps its range; above all, the write cursors never
\* point past a page or the log.
THEOREM TypeCorrect == Spec => []TypeOK
<1>1. IInv => TypeOK
  BY DEF IInv
<1>2. QED
  BY <1>1, Invariance, PTL

\* No job ever programs over a used slot.
THEOREM ErasedFirst == Spec => []ProgramsErasedSlots
<1>1. ASSUME IInv, job.kind # 0, ~job.erase, job.phase # 1, job.index = 0,
             hw # "ok", hw # "failed"
      PROVE  flash[job.addr] = Erased
  <2>1. TargetCell = Erased
    BY <1>1 DEF TargetCell, Written
  <2>2. job.kind \in 1 .. 4
    BY <1>1, SMT DEF IInv, TypeOK, Jobs
  <2>3. job.kind # 4
    BY <1>1 DEF IInv, JobShape
  <2>4. job.kind = 1 => flash[job.addr] = TargetCell
    BY <1>1 DEF IInv, AppendSafe, RewriteSafe
  <2>5. job.kind = 2 => flash[job.addr] = TargetCell
    BY <1>1 DEF IInv, LogSafe
  <2>6. job.kind = 3 => flash[job.addr] = TargetCell
    BY <1>1 DEF IInv, CopySafe
  <2>7. QED
    BY <2>1, <2>2, <2>3, <2>4, <2>5, <2>6
<1>2. IInv => ProgramsErasedSlots
  BY <1>1 DEF ProgramsErasedSlots
<1>3. QED
  BY <1>2, Invariance, PTL

\* The page with the newest record of the log is never the one erased.
THEOREM NewestKept == Spec => []NewestNeverErased
<1>1. IInv => NewestNeverErased
  BY DEF IInv, LogSafe, NewestNeverErased
<1>2. QED
  BY <1>1, Invariance, PTL

\* The filament caches and write cursors agree with the flash whenever no job runs.
THEOREM FilCachesMatch == Spec => []FilCachesMatchFlash
<1>1. IInv /\ job.kind = 0 => hw # "failed"
  BY DEF IInv, JobShape
<1>2. IInv => FilCachesMatchFlash
  BY <1>1 DEF IInv, OthersScanned, NoStrayScratch, PageScanned, FilCachesMatchFlash
<1>3. QED
  BY <1>2, Invariance, PTL

\* A job writes only over an erased slot, and erases only what is superseded.
THEOREM SafeJobs == Spec => []JobsAreSafe
<1>1. ProgramsErasedSlots /\ NewestNeverErased => JobsAreSafe
  BY DEF JobsAreSafe
<1>2. QED
  BY <1>1, ErasedFirst, NewestKept, PTL

-----------------------------------------------------------------------------
(* The filament journals implement NvStore: every step of FlashSaves is a  *)
(* step of the store or leaves it as it is.                                *)

\* The store with one record replaced.
With(c, i) == [FilContents EXCEPT ![c] = i]

-----------------------------------------------------------------------------
(* How the flash operations move the stored records.                       *)

\* What the store holds is decided by the pages and by the scratch record.
LEMMA StoredFrame ==
  ASSUME NEW d \in Channels, SamePage(flash, flash', d),
         flash'[ScratchAddr] = flash[ScratchAddr]
  PROVE  FilStored(d)' = FilStored(d)
<1>1. FilScanLast(flash', d) = FilScanLast(flash, d)
  BY ScanFrame
<1>2. QED
  BY <1>1 DEF FilStored, ScratchValid, Rescued

\* An operation leaves in the slot it programs what was there, garbage, or the record.
CellEffect ==
  job.phase = 2 => flash'[job.addr] \in {flash[job.addr], Torn, job.rec}

\* Rollover: the scratch copy decides until the page has been rewritten.
LEMMA StoredRewrite ==
  ASSUME IInv, hw = "busy", JobEffect, job.kind = 1, job.rollover
  PROVE  \A d \in Channels : FilStored(d)' = FilStored(d)
<1>1. PICK c \in Channels, i \in Infos :
        job.channel = c /\ job.rec.info = i /\ flash[ScratchAddr] = ScratchRecord(c, i)
  BY BusyJob DEF IInv, RewriteSafe
<1>2. flash'[ScratchAddr] = flash[ScratchAddr]
  BY EffectFrame
<1>3. ScratchRecord(c, i) \in ScratchRecords /\ ScratchRecord(c, i).channel = c
  BY <1>1 DEF ScratchRecord, ScratchRecords
<1>4. FilStored(c)' = FilStored(c)
  BY <1>1, <1>2, <1>3 DEF FilStored, ScratchValid, Rescued
<1>5. ASSUME NEW d \in Channels, d # c
      PROVE  FilStored(d)' = FilStored(d)
  <2>1. SamePage(flash, flash', d)
    BY <1>1, <1>5, EffectFrame
  <2>2. QED
    BY <1>2, <2>1, StoredFrame
<1>6. QED
  BY <1>4, <1>5

\* Erasing the scratch copy changes nothing: the page holds the same record by then.
LEMMA StoredRetire ==
  ASSUME IInv, hw = "busy", JobEffect, job.kind = 4
  PROVE  \A d \in Channels : FilStored(d)' = FilStored(d)
<1>1. PICK c \in Channels, i \in Infos :
        job.channel = c /\ job.rec.info = i /\ job.phase = 1 /\ job.addr[1] = 14
  BY BusyJob
<1>2. /\ flash[FilAddr(c, 0)] = FilRecord(i) /\ ErasedAbove(c, 0)
      /\ ScratchValid(flash) => flash[ScratchAddr] = ScratchRecord(c, i)
  BY <1>1 DEF IInv, RetireSafe
<1>3. FilScanLast(flash, c) = i
  <2>1. 0 \in 0 .. FilSlots - 1
    BY Geometry, SMT
  <2>2. QED
    BY <1>1, <1>2, <2>1, ScannedTop
<1>4. flash'[ScratchAddr] = flash[ScratchAddr] \/ ~ScratchValid(flash')
  <2>1. flash'[ScratchAddr] = flash[ScratchAddr] \/ flash'[ScratchAddr] \in {Erased, Torn}
    BY <1>1, ScratchLayout DEF JobEffect, OnlyLoses
  <2>2. QED
    BY <2>1, ValueAssumption DEF ScratchValid, Records
<1>5. ScratchRecord(c, i).channel = c /\ ScratchRecord(c, i).info = i
  BY DEF ScratchRecord
<1>6. ASSUME NEW d \in Channels
      PROVE  FilStored(d) = FilScanLast(flash, d) /\ FilStored(d)' = FilScanLast(flash', d)
  <2>1. SamePage(flash, flash', d) /\ SamePage(flash, flash', c)
    BY <1>1, EffectFrame
  <2>2. FilScanLast(flash', d) = FilScanLast(flash, d) /\ FilScanLast(flash', c) = i
    BY <1>3, <2>1, ScanFrame
  <2>3. FilStored(d) = FilScanLast(flash, d)
    BY <1>2, <1>3, <1>5 DEF FilStored, Rescued
  <2>4. ScratchValid(flash') => flash'[ScratchAddr] = ScratchRecord(c, i)
    BY <1>2, <1>4 DEF ScratchValid
  <2>5. FilStored(d)' = FilScanLast(flash', d)
    BY <1>5, <2>2, <2>4 DEF FilStored, Rescued
  <2>6. QED
    BY <2>3, <2>5
<1>7. ASSUME NEW d \in Channels
      PROVE  FilScanLast(flash', d) = FilScanLast(flash, d)
  <2>1. SamePage(flash, flash', d)
    BY <1>1, EffectFrame
  <2>2. QED
    BY <2>1, ScanFrame
<1>8. QED
  BY <1>6, <1>7

\* Appending to the page: the last halfword is the moment the new record counts.
LEMMA StoredAppend ==
  ASSUME IInv, hw = "busy", JobEffect, CellEffect, job.kind = 1, ~job.rollover,
         NEW c \in Channels, NEW i \in Infos, job.channel = c, job.rec.info = i
  PROVE  /\ \A d \in Channels : d # c => FilStored(d)' = FilStored(d)
         /\ FilStored(c)' \in {FilStored(c), i}
<1>1. /\ job.phase = 2 /\ ~Written /\ mode = "run"
      /\ job.rec = FilRecord(i)
  BY BusyJob DEF IInv, JobShape
<1>2. ~ScratchValid(flash) /\ flash'[ScratchAddr] = flash[ScratchAddr]
  BY <1>1, EffectFrame DEF IInv, NoStrayScratch
<1>3. ~ScratchValid(flash')
  BY <1>2 DEF ScratchValid
<1>4. ASSUME NEW d \in Channels, d # c
      PROVE  FilStored(d)' = FilStored(d)
  <2>1. SamePage(flash, flash', d)
    BY <1>4, EffectFrame
  <2>2. QED
    BY <1>2, <2>1, StoredFrame
<1>5. PICK s \in 0 .. FilSlots - 1 :
        job.addr = FilAddr(c, s) /\ flash[FilAddr(c, s)] = TargetCell /\ ErasedAbove(c, s)
  BY DEF IInv, AppendSafe
<1>6. TargetCell \in {Erased, Torn}
  BY <1>1 DEF TargetCell
<1>7. \A t \in 0 .. FilSlots - 1 : t # s => flash'[FilAddr(c, t)] = flash[FilAddr(c, t)]
  <2>1. ASSUME NEW t \in 0 .. FilSlots - 1, t # s
        PROVE  FilAddr(c, t) \in Addrs /\ FilAddr(c, t) # FilAddr(c, s)
    BY <1>1, <2>1, FilLayout
  <2>2. QED
    BY <1>1, <1>5, <2>1 DEF JobEffect
<1>8. CASE flash'[FilAddr(c, s)] = FilRecord(i)
  <2>1. \A t \in FilSlotsAbove(c, s) : flash'[FilAddr(c, t)] = Erased
    <3>1. \A t \in FilSlotsAbove(c, s) : t \in 0 .. FilSlots - 1 /\ t # s
      BY Geometry, SMT DEF FilSlotsAbove
    <3>2. QED
      BY <1>5, <1>7, <3>1 DEF ErasedAbove
  <2>2. FilScanLast(flash', c) = i
    BY <1>1, <1>8, <2>1, ScanTop
  <2>3. FilStored(c)' = i
    BY <1>3, <2>2 DEF FilStored
  <2>4. QED
    BY <1>4, <2>3
<1>9. CASE flash'[FilAddr(c, s)] # FilRecord(i)
  <2>1. flash'[FilAddr(c, s)] \in {Erased, Torn}
    BY <1>1, <1>5, <1>6, <1>9 DEF CellEffect
  <2>2. flash'[FilAddr(c, s)] \notin FilRecords /\ flash[FilAddr(c, s)] \notin FilRecords
    BY <1>5, <1>6, <2>1, ValueAssumption DEF Records
  <2>3. FilScanLast(flash', c) = FilScanLast(flash, c)
    BY <1>7, <2>2, ScanInvalid
  <2>4. FilStored(c)' = FilStored(c)
    BY <1>2, <1>3, <2>3 DEF FilStored
  <2>5. QED
    BY <1>4, <2>4
<1>10. QED
  BY <1>8, <1>9

\* The copy into the scratch page: again the last halfword decides.
LEMMA StoredCopy ==
  ASSUME IInv, hw = "busy", JobEffect, CellEffect, job.kind = 3,
         NEW c \in Channels, NEW i \in Infos, job.channel = c, job.rec.info = i
  PROVE  /\ \A d \in Channels : d # c => FilStored(d)' = FilStored(d)
         /\ FilStored(c)' \in {FilStored(c), i}
<1>1. /\ job.phase \in {1, 2} /\ ~Written
      /\ (job.phase = 1 <=> job.erase)
      /\ job.rec = ScratchRecord(c, i) /\ job.addr = ScratchAddr /\ job.addr[1] = 14
  BY BusyJob DEF IInv, JobShape
<1>2. ~ScratchValid(flash)
  <2>1. ~job.erase => flash[ScratchAddr] \in {Erased, Torn}
    BY <1>1 DEF IInv, CopySafe, TargetCell
  <2>2. job.erase => ~ScratchValid(flash)
    BY DEF IInv, CopySafe
  <2>3. QED
    BY <2>1, <2>2, ValueAssumption DEF ScratchValid, Records
<1>3. \A d \in Channels : FilScanLast(flash', d) = FilScanLast(flash, d)
  <2>1. \A d \in Channels : SamePage(flash, flash', d)
    BY EffectFrame
  <2>2. QED
    BY <2>1, ScanFrame
<1>4. \A d \in Channels : FilStored(d) = FilScanLast(flash, d)
  BY <1>2 DEF FilStored
<1>5. CASE flash'[ScratchAddr] = ScratchRecord(c, i)
  <2>1. /\ ScratchRecord(c, i) \in ScratchRecords /\ ScratchRecord(c, i).channel = c
        /\ ScratchRecord(c, i).info = i
    BY <1>1 DEF ScratchRecord, ScratchRecords
  <2>2. ScratchValid(flash') /\ Rescued'.channel = c /\ Rescued'.info = i
    BY <1>5, <2>1 DEF ScratchValid, Rescued
  <2>3. QED
    BY <1>3, <1>4, <2>2 DEF FilStored
<1>6. CASE flash'[ScratchAddr] # ScratchRecord(c, i)
  <2>1. CASE job.phase = 2
    <3>1. flash'[ScratchAddr] \in {flash[ScratchAddr], Torn}
      BY <1>1, <1>6, <2>1 DEF CellEffect
    <3>2. ~ScratchValid(flash')
      BY <1>2, <3>1, ValueAssumption DEF ScratchValid, Records
    <3>3. QED
      BY <1>3, <1>4, <3>2 DEF FilStored
  <2>2. CASE job.phase = 1
    <3>1. flash'[ScratchAddr] = flash[ScratchAddr] \/ flash'[ScratchAddr] \in {Erased, Torn}
      BY <1>1, <2>2, ScratchLayout DEF JobEffect, OnlyLoses
    <3>2. ~ScratchValid(flash')
      BY <1>2, <3>1, ValueAssumption DEF ScratchValid, Records
    <3>3. QED
      BY <1>3, <1>4, <3>2 DEF FilStored
  <2>3. QED
    BY <1>1, <2>1, <2>2
<1>7. QED
  BY <1>5, <1>6

\* Altogether: an operation of the flash stores the record under way, or changes nothing.
LEMMA StoredEffect ==
  ASSUME IInv, hw = "busy", JobEffect, CellEffect
  PROVE  \/ FilContents' = FilContents
         \/ job.kind \in {1, 3} /\ FilContents' = With(job.channel, job.rec.info)
<1>1. CASE job.kind = 2
  <2>1. \A d \in Channels : FilStored(d)' = FilStored(d)
    BY <1>1, EffectFrame, StoredFrame
  <2>2. QED
    BY <2>1 DEF FilContents
<1>2. CASE job.kind = 4 \/ (job.kind = 1 /\ job.rollover)
  <2>1. \A d \in Channels : FilStored(d)' = FilStored(d)
    BY <1>2, StoredRetire, StoredRewrite
  <2>2. QED
    BY <2>1 DEF FilContents
<1>3. CASE job.kind = 3 \/ (job.kind = 1 /\ ~job.rollover)
  <2>0. PICK c \in Channels, i \in Infos : job.channel = c /\ job.rec.info = i
    BY <1>3, BusyJob
  <2>1. /\ \A d \in Channels : d # c => FilStored(d)' = FilStored(d)
        /\ FilStored(c)' \in {FilStored(c), i}
    BY <1>3, <2>0, StoredCopy, StoredAppend
  <2>2. CASE FilStored(c)' = FilStored(c)
    <3>1. \A d \in Channels : FilStored(d)' = FilStored(d)
      BY <2>1, <2>2
    <3>2. QED
      BY <3>1 DEF FilContents
  <2>3. CASE FilStored(c)' = i
    <3>1. FilContents' = [FilContents EXCEPT ![c] = i]
      BY <2>1, <2>3 DEF FilContents
    <3>2. QED
      BY <1>3, <2>0, <3>1 DEF With
  <2>4. QED
    BY <2>1, <2>2, <2>3
<1>4. QED
  BY <1>1, <1>2, <1>3, BusyJob

\* Every operation of the flash, finished or cut short, has such an effect.
LEMMA OperationEffect ==
  ASSUME IInv, hw = "busy", FlashDone \/ TornOperation
  PROVE  JobEffect /\ CellEffect
<1>0. flash \in [Addrs -> Cells]
  BY DEF IInv, TypeOK
<1>1. CASE TornOperation
  <2>1. JobEffect
    BY <1>1, TornEffect
  <2>2. CASE job.phase = 2 /\ TornProgram(job.addr, job.rec, LastHalfword /\ Programmable)
    <3>1. PICK last \in BOOLEAN : TornProgram(job.addr, job.rec, last)
      BY <2>2
    <3>2. flash'[job.addr] \in {flash[job.addr], Torn, job.rec}
      BY <1>0, <3>1, BusyJob, TornProgramEffect
    <3>3. QED
      BY <2>1, <3>2 DEF CellEffect
  <2>3. QED
    BY <1>1, <2>1, <2>2 DEF TornOperation, CellEffect
<1>2. CASE job.phase = 1 /\ flash' = ErasedPage(flash, job.addr[1])
  <2>1. OnlyLoses(job.addr[1])
    BY <1>0, <1>2, EraseEffect
  <2>2. QED
    BY <1>2, <2>1 DEF JobEffect, CellEffect, OnlyLoses
<1>3. CASE job.phase = 2
           /\ flash' = [flash EXCEPT ![job.addr] = IF LastHalfword THEN job.rec ELSE Torn]
  <2>1. PICK cell \in Cells : flash' = [flash EXCEPT ![job.addr] = cell] /\ cell \in {job.rec, Torn}
    BY <1>3, BusyJob DEF Cells
  <2>2. /\ flash' \in [Addrs -> Cells] /\ flash'[job.addr] = cell
        /\ \A a \in Addrs : a # job.addr => flash'[a] = flash[a]
    BY <1>0, <2>1, BusyJob
  <2>3. QED
    BY <1>3, <2>1, <2>2 DEF JobEffect, CellEffect
<1>4. QED
  BY <1>1, <1>2, <1>3 DEF FlashDone

-----------------------------------------------------------------------------
(* The steps of the store.                                                 *)

\* A filament job is a write under way, and nothing else is.
LEMMA Pending ==
  ASSUME IInv
  PROVE  /\ FilContents \in [Channels -> Infos \cup {NoInfo}]
         /\ job.kind = 0 \/ job.kind = 2 \/ mode # "run" => FilPending = NoPending
         /\ job.kind \in {1, 3, 4} =>
              /\ FilPending = <<job.channel, job.rec.info>>
              /\ FilPending # NoPending
              /\ FilPending[1] = job.channel /\ FilPending[2] = job.rec.info
              /\ job.channel \in Channels /\ job.rec.info \in Infos
<1>1. \A c \in Channels : FilStored(c) \in Infos \cup {NoInfo}
  BY ScanLastType, RescuedType DEF FilStored
<1>2. FilContents \in [Channels -> Infos \cup {NoInfo}]
  BY <1>1 DEF FilContents
<1>3. job.kind \in {1, 3, 4} =>
        mode = "run" /\ job.channel \in Channels /\ job.rec.info \in Infos
  BY NotRunning DEF IInv, JobShape, NoJob
<1>4. job.kind \in {1, 3, 4} => FilPending = <<job.channel, job.rec.info>>
  BY <1>3 DEF FilPending, Running
<1>5. job.kind \in {1, 3, 4} => FilPending # NoPending
  BY <1>3, <1>4, NoPendingAssumption
<1>6. job.kind = 0 \/ job.kind = 2 \/ mode # "run" => FilPending = NoPending
  BY DEF FilPending, Running
<1>7. QED
  BY <1>2, <1>3, <1>4, <1>5, <1>6

\* Steps of the store, in the terms of FlashSaves.
LEMMA StoreStutter ==
  ASSUME FilContents' = FilContents, FilKnown' = FilKnown, FilPending' = FilPending,
         (Running /\ fault)' = (Running /\ fault)
  PROVE  [Fil!Next]_(Fil!vars)
  BY DEF Fil!vars

LEMMA StoreQueue ==
  ASSUME FilPending = NoPending, ~(Running /\ fault),
         NEW c \in Channels, NEW i \in Infos, FilPending' = <<c, i>>,
         FilContents' = FilContents, FilKnown' = FilKnown,
         (Running /\ fault)' = (Running /\ fault)
  PROVE  [Fil!Next]_(Fil!vars)
  BY DEF Fil!Next, Fil!Queue

LEMMA StoreCommit ==
  ASSUME FilPending # NoPending, FilContents' = With(FilPending[1], FilPending[2]),
         FilKnown' = FilKnown, FilPending' = FilPending,
         (Running /\ fault)' = (Running /\ fault)
  PROVE  [Fil!Next]_(Fil!vars)
  BY DEF Fil!Next, Fil!Commit, Fil!Committed, With

LEMMA StoreAcknowledge ==
  ASSUME FilPending # NoPending, ~(Running /\ fault),
         FilContents = With(FilPending[1], FilPending[2]),
         FilKnown' = [FilKnown EXCEPT ![FilPending[1]] = FilPending[2]],
         FilPending' = NoPending, FilContents' = FilContents,
         (Running /\ fault)' = (Running /\ fault)
  PROVE  [Fil!Next]_(Fil!vars)
  BY DEF Fil!Next, Fil!Acknowledge, Fil!Committed, With

LEMMA StoreStick ==
  ASSUME (Running /\ fault)', FilPending' \in {FilPending, NoPending},
         FilContents' = FilContents, FilKnown' = FilKnown
  PROVE  [Fil!Next]_(Fil!vars)
  BY DEF Fil!Next, Fil!Stick

LEMMA StoreCrash ==
  ASSUME \/ FilContents' = FilContents
         \/ FilPending # NoPending /\ FilContents' = With(FilPending[1], FilPending[2]),
         FilKnown' = FilContents', FilPending' = NoPending, ~(Running /\ fault)'
  PROVE  [Fil!Next]_(Fil!vars)
  BY DEF Fil!Next, Fil!Crash, Fil!Committed, With

-----------------------------------------------------------------------------
(* Each action of FlashSaves is such a step.                               *)

\* Steps that leave the flash, the caches and the record under way alone.
LEMMA QuietStep ==
  ASSUME UNCHANGED <<flash, mode, fault, filLast>>, FilPending' = FilPending
  PROVE  [Fil!Next]_(Fil!vars)
<1>1. FilContents' = FilContents
  BY DEF FilContents, FilStored, ScratchValid, Rescued
<1>2. FilKnown' = FilKnown
  BY DEF FilKnown, FilStored, ScratchValid, Rescued, Running
<1>3. (Running /\ fault)' = (Running /\ fault)
  BY DEF Running
<1>4. QED
  BY <1>1, <1>2, <1>3, StoreStutter

LEMMA BackgroundStep ==
  ASSUME IInv, Flash_background_run
  PROVE  [Fil!Next]_(Fil!vars)
<1>1. CASE BackgroundTimeout \/ BackgroundFail
  <2>1. UNCHANGED <<flash, mode, filLast>> /\ mode = "run" /\ fault' = TRUE
    BY <1>1 DEF BackgroundTimeout, BackgroundFail
  <2>2. FilPending' \in {FilPending, NoPending}
    BY <1>1, <2>1 DEF BackgroundTimeout, BackgroundFail, FilPending, Running, NoJob
  <2>3. FilContents' = FilContents /\ FilKnown' = FilKnown
    BY <2>1 DEF FilContents, FilKnown, FilStored, ScratchValid, Rescued, Running
  <2>4. (Running /\ fault)'
    BY <2>1 DEF Running
  <2>5. QED
    BY <2>2, <2>3, <2>4, StoreStick
<1>2. CASE BackgroundNext \/ BackgroundStart
  <2>1. UNCHANGED <<flash, mode, fault, filLast>>
    BY <1>2 DEF BackgroundNext, BackgroundStart
  <2>2. job'.kind = job.kind /\ job'.channel = job.channel /\ job'.rec = job.rec
    <3>1. PICK j \in Jobs : /\ j.kind = job.kind /\ j.channel = job.channel /\ j.rec = job.rec
                           /\ \/ job' = j
                              \/ job' = [j EXCEPT !.phase = IF j.erase THEN 1 ELSE 2]
      <4>1. job \in Jobs /\ Ticked \in Jobs
        BY TickedFields DEF IInv, TypeOK
      <4>2. CASE BackgroundNext
        BY <4>1, <4>2, TickedFields DEF BackgroundNext, Start, IInv
      <4>3. CASE BackgroundStart
        BY <4>1, <4>3 DEF BackgroundStart, Start
      <4>4. QED
        BY <1>2, <4>2, <4>3
    <3>2. QED
      BY <3>1 DEF Jobs
  <2>3. FilPending' = FilPending
    BY <2>1, <2>2 DEF FilPending, Running
  <2>4. QED
    BY <2>1, <2>3, QuietStep
<1>3. CASE BackgroundRollPage
  <2>1. UNCHANGED <<flash, mode, fault, filLast>> /\ job.kind = 3 /\ mode = "run"
    BY <1>3 DEF BackgroundRollPage
  <2>2. PICK t \in Jobs, i \in {job.rec.info}, a \in {FilAddr(job.channel, 0)} :
          /\ t = Ticked /\ t.channel = job.channel
          /\ job' = [t EXCEPT !.kind = 1, !.addr = a, !.rec = FilRecord(i),
                             !.index = 0, !.erase = TRUE]
    BY <1>3, TickedFields DEF BackgroundRollPage, IInv
  <2>3. job'.kind = 1 /\ job'.channel = job.channel /\ job'.rec = FilRecord(i)
    BY <2>2, SMT DEF Jobs
  <2>4. FilRecord(i).info = i
    BY DEF FilRecord
  <2>5. FilPending' = FilPending
    BY <2>1, <2>2, <2>3, <2>4 DEF FilPending, Running
  <2>6. QED
    BY <2>1, <2>5, QuietStep
<1>4. CASE BackgroundRollScratch
  <2>1. UNCHANGED <<flash, mode, fault, filLast>> /\ job.kind = 1 /\ mode = "run"
    BY <1>4 DEF BackgroundRollScratch
  <2>2. PICK t \in Jobs : /\ t = Ticked /\ t.channel = job.channel /\ t.rec = job.rec
                          /\ job' = [t EXCEPT !.kind = 4, !.addr = ScratchAddr, !.index = 0,
                                             !.halfwords = 0, !.erase = TRUE]
    BY <1>4, TickedFields DEF BackgroundRollScratch, IInv
  <2>3. job'.kind = 4 /\ job'.channel = job.channel /\ job'.rec = job.rec
    BY <2>2, SMT DEF Jobs
  <2>4. FilPending' = FilPending
    BY <2>1, <2>3 DEF FilPending, Running
  <2>5. QED
    BY <2>1, <2>4, QuietStep
<1>5. CASE BackgroundFilamentDone
  <2>1. /\ mode = "run" /\ mode' = "run" /\ job.kind \in {1, 4} /\ fault = FALSE
        /\ UNCHANGED <<flash, mode, fault>>
        /\ job' = NoJob /\ hw' = "idle" /\ filLast' = [filLast EXCEPT ![job.channel] = job.rec.info]
    BY <1>5, DoneWritten DEF BackgroundFilamentDone, IInv, TypeOK
  <2>2. IInv'
    BY <1>5, IInvFilamentDone
  <2>3. FilContents' = FilContents
    BY <2>1 DEF FilContents, FilStored, ScratchValid, Rescued
  <2>4. FilKnown' = [FilKnown EXCEPT ![job.channel] = job.rec.info]
    BY <2>1 DEF FilKnown, Running, IInv, TypeOK
  <2>5. \A c \in Channels : FilStored(c)' = filLast'[c]
    BY <2>1, <2>2 DEF IInv, OthersScanned, NoStrayScratch, PageScanned, FilStored, NoJob
  <2>6. FilContents' = filLast'
    BY <2>2, <2>5 DEF FilContents, IInv, TypeOK
  <2>7. FilContents = With(job.channel, job.rec.info)
    <3>1. job.channel \in Channels /\ filLast \in [Channels -> Infos \cup {NoInfo}]
      BY <2>1, Pending DEF IInv, TypeOK
    <3>2. FilContents[job.channel] = job.rec.info
      BY <2>1, <2>3, <2>6, <3>1
    <3>3. FilContents \in [Channels -> Infos \cup {NoInfo}]
      BY Pending
    <3>4. QED
      BY <3>1, <3>2, <3>3 DEF With
  <2>8. FilPending' = NoPending /\ ~(Running /\ fault) /\ ~(Running /\ fault)'
    BY <2>1 DEF FilPending, Running, NoJob
  <2>9. QED
    BY <2>1, <2>3, <2>4, <2>7, <2>8, Pending, StoreAcknowledge
<1>6. CASE BackgroundStateDone
  <2>1. /\ UNCHANGED <<flash, mode, fault, filLast>> /\ job.kind = 2 /\ job' = NoJob
    BY <1>6 DEF BackgroundStateDone
  <2>2. FilPending' = FilPending
    BY <2>1 DEF FilPending, NoJob
  <2>3. QED
    BY <2>1, <2>2, QuietStep
<1>7. QED
  BY <1>1, <1>2, <1>3, <1>4, <1>5, <1>6 DEF Flash_background_run

LEMMA FlashDoneStep ==
  ASSUME IInv, FlashDone
  PROVE  [Fil!Next]_(Fil!vars)
<1>1. hw = "busy" /\ UNCHANGED <<mode, fault, job, filLast>>
  BY DEF FlashDone
<1>2. mode = "run"
  BY <1>1, BusyJob
<1>3. FilKnown' = FilKnown /\ FilPending' = FilPending /\ (Running /\ fault)' = (Running /\ fault)
  BY <1>1, <1>2 DEF FilKnown, FilPending, Running
<1>4. \/ FilContents' = FilContents
      \/ job.kind \in {1, 3} /\ FilContents' = With(job.channel, job.rec.info)
  BY <1>1, OperationEffect, StoredEffect
<1>5. QED
  BY <1>3, <1>4, Pending, StoreStutter, StoreCommit

LEMMA WriteStep ==
  ASSUME IInv,
         \/ \E c \in Channels, i \in FilWrites : Flash_AMS_filament_write(c, i)
         \/ \E l \in StaWrites : Flash_AMS_state_write(l)
  PROVE  [Fil!Next]_(Fil!vars)
<1>1. ASSUME NEW c \in Channels, NEW i \in FilWrites, Flash_AMS_filament_write(c, i)
      PROVE  [Fil!Next]_(Fil!vars)
  <2>1. /\ mode = "run" /\ mode' = "run" /\ ~fault /\ job.kind = 0
        /\ UNCHANGED <<flash, fault, filLast>>
    BY <1>1 DEF Flash_AMS_filament_write, Idle
  <2>2. job'.kind \in {1, 3} /\ job'.channel = c /\ job'.rec.info = i
    BY <1>1 DEF Flash_AMS_filament_write, FilRecord, ScratchRecord
  <2>3. FilPending' = <<c, i>> /\ FilPending = NoPending /\ ~(Running /\ fault)
    BY <2>1, <2>2 DEF FilPending, Running
  <2>4. /\ FilContents' = FilContents /\ FilKnown' = FilKnown
        /\ (Running /\ fault)' = (Running /\ fault)
    BY <2>1 DEF FilContents, FilKnown, FilStored, ScratchValid, Rescued, Running
  <2>5. i \in Infos
    BY ValueAssumption
  <2>6. QED
    BY <2>3, <2>4, <2>5, StoreQueue
<1>2. ASSUME NEW l \in StaWrites, Flash_AMS_state_write(l)
      PROVE  [Fil!Next]_(Fil!vars)
  <2>1. /\ UNCHANGED <<flash, mode, fault, filLast>> /\ job.kind = 0 /\ job'.kind = 2
    BY <1>2 DEF Flash_AMS_state_write, Idle
  <2>2. FilPending' = FilPending
    BY <2>1 DEF FilPending
  <2>3. QED
    BY <2>1, <2>2, QuietStep
<1>3. QED
  BY <1>1, <1>2

\* Recovery changes nothing that a boot would find.
LEMMA RecoveryStored ==
  ASSUME IInv, RecoverErase \/ RecoverProgram \/ RecoverRetire \/ TornRecovery
  PROVE  FilContents' = FilContents
<1>0. mode \in {"erase", "program", "retire"}
  BY DEF RecoverErase, RecoverProgram, RecoverRetire, TornRecovery
<1>1. PICK c \in Channels, i \in Infos :
        ScratchValid(flash) /\ Rescued.channel = c /\ Rescued.info = i
  BY <1>0, RecoveryPages
<1>2. RecoveryEffect /\ (mode = "retire" => OnlyLoses(ScratchPage))
  <2>1. CASE TornRecovery
    <3>1. mode = "retire" => TornErase(ScratchPage)
      BY <2>1 DEF TornRecovery
    <3>2. QED
      BY <1>0, <2>1, <3>1, TornRecoveryEffect, RecoveryPages, TornEraseEffect
  <2>2. CASE RecoverErase
    <3>1. OnlyLoses(FilPage(c)) /\ mode = "erase"
      BY <1>0, <1>1, <2>2, RecoveryPages, EraseEffect DEF RecoverErase
    <3>2. QED
      BY <1>0, <1>1, <3>1, RecoveryPages, PageEffect DEF OnlyLoses
  <2>3. CASE RecoverProgram
    <3>1. /\ flash' = [flash EXCEPT ![FilAddr(c, 0)] = FilRecord(i)] /\ mode = "program"
          /\ FilAddr(c, 0) \in Addrs /\ FilRecord(i) \in Cells
          /\ FilAddr(c, 0)[1] = FilPage(c) /\ flash \in [Addrs -> Cells]
      BY <1>0, <1>1, <2>3, RecoveryPages DEF RecoverProgram
    <3>2. /\ flash' \in [Addrs -> Cells]
          /\ \A a \in Addrs : a[1] # FilPage(c) => flash'[a] = flash[a]
      BY <3>1
    <3>3. QED
      BY <1>0, <1>1, <3>1, <3>2, RecoveryPages, PageEffect
  <2>4. CASE RecoverRetire
    <3>1. OnlyLoses(ScratchPage) /\ mode = "retire"
      BY <1>0, <2>4, RecoveryPages, EraseEffect DEF RecoverRetire
    <3>2. QED
      BY <1>0, <1>1, <3>1, RecoveryPages, PageEffect DEF OnlyLoses
  <2>5. QED
    BY <2>1, <2>2, <2>3, <2>4
<1>3. CASE mode \in {"erase", "program"}
  <2>1. flash'[ScratchAddr] = flash[ScratchAddr]
    BY <1>2, <1>3 DEF RecoveryEffect
  <2>2. FilStored(c)' = FilStored(c)
    BY <1>1, <2>1 DEF FilStored, ScratchValid, Rescued
  <2>3. ASSUME NEW d \in Channels, d # c
        PROVE  FilStored(d)' = FilStored(d)
    BY <1>1, <1>2, <1>3, <2>1, <2>3, StoredFrame DEF RecoveryEffect
  <2>4. \A d \in Channels : FilStored(d)' = FilStored(d)
    BY <2>2, <2>3
  <2>5. QED
    BY <2>4 DEF FilContents
<1>4. CASE mode = "retire"
  <2>1. \A d \in Channels : FilScanLast(flash', d) = FilScanLast(flash, d)
    BY <1>2, <1>4, ScanFrame DEF RecoveryEffect
  <2>2. FilScanLast(flash, c) = i
    BY <1>1, <1>4 DEF IInv, RecoverySafe
  <2>3. flash'[ScratchAddr] = flash[ScratchAddr] \/ ~ScratchValid(flash')
    <3>1. flash'[ScratchAddr] = flash[ScratchAddr] \/ flash'[ScratchAddr] \in {Erased, Torn}
      BY <1>2, <1>4, ScratchLayout DEF OnlyLoses
    <3>2. QED
      BY <3>1, ValueAssumption DEF ScratchValid, Records
  <2>4. \A d \in Channels : FilStored(d) = FilScanLast(flash, d)
    BY <1>1, <2>2 DEF FilStored
  <2>5. \A d \in Channels : FilStored(d)' = FilScanLast(flash', d)
    BY <1>1, <2>1, <2>2, <2>3 DEF FilStored, Rescued
  <2>6. \A d \in Channels : FilStored(d)' = FilStored(d)
    BY <2>1, <2>4, <2>5
  <2>7. QED
    BY <2>6 DEF FilContents
<1>5. QED
  BY <1>0, <1>3, <1>4

LEMMA RecoverStep ==
  ASSUME IInv, Recover
  PROVE  [Fil!Next]_(Fil!vars)
<1>0. mode \in {"erase", "program", "retire"} /\ FilContents' = FilContents
  BY RecoveryStored, TornRecoveryEffect
  DEF Recover, RecoverErase, RecoverProgram, RecoverRetire, RecoverFail
<1>1. job = NoJob /\ job' = NoJob /\ filLast' = filLast /\ fault = FALSE
  BY <1>0, NotRunning DEF Recover, RecoverErase, RecoverProgram, RecoverRetire, RecoverFail
<1>2. FilPending = NoPending /\ FilPending' = NoPending
  BY <1>1 DEF FilPending, NoJob
<1>3. \A c \in Channels : filLast[c] = FilStored(c)
  BY <1>0 DEF IInv, RecoverySafe
<1>4. FilKnown = FilContents
  BY <1>0 DEF FilKnown, FilContents, Running
<1>5. FilKnown' = FilContents'
  <2>1. \A c \in Channels : filLast'[c] = FilStored(c)'
    BY <1>0, <1>1, <1>3 DEF FilContents
  <2>2. QED
    BY <2>1 DEF FilKnown, FilContents
<1>6. CASE fault' = FALSE
  BY <1>0, <1>1, <1>2, <1>4, <1>5, <1>6, StoreStutter
<1>7. CASE fault' # FALSE
  <2>1. RecoverFail
    BY <1>1, <1>7 DEF Recover, RecoverErase, RecoverProgram, RecoverRetire
  <2>2. (Running /\ fault)'
    BY <2>1 DEF RecoverFail, Running
  <2>3. QED
    BY <1>0, <1>2, <1>4, <1>5, <2>2, StoreStick
<1>8. QED
  BY <1>6, <1>7

LEMMA BootStep ==
  ASSUME IInv, Boot
  PROVE  [Fil!Next]_(Fil!vars)
<1>1. mode = "off" /\ UNCHANGED <<flash, fault, job>> /\ job = NoJob /\ fault = FALSE
  BY NotRunning DEF Boot
<1>2. FilContents' = FilContents
  BY <1>1 DEF FilContents, FilStored, ScratchValid, Rescued
<1>3. FilPending' = FilPending
  BY <1>1 DEF FilPending, NoJob
<1>4. FilKnown = FilContents
  BY <1>1 DEF FilKnown, FilContents, Running
<1>5. FilKnown' = FilContents'
  <2>1. \A c \in Channels : filLast'[c] = FilStored(c)
    BY DEF Boot, FilStored
  <2>2. \A c \in Channels : FilStored(c)' = FilStored(c)
    BY <1>1 DEF FilStored, ScratchValid, Rescued
  <2>3. QED
    BY <2>1, <2>2 DEF FilKnown, FilContents
<1>6. (Running /\ fault)' = (Running /\ fault)
  BY <1>1
<1>7. QED
  BY <1>2, <1>3, <1>4, <1>5, <1>6, StoreStutter

LEMMA PowerCutStep ==
  ASSUME IInv, PowerCut
  PROVE  [Fil!Next]_(Fil!vars)
<1>1. mode' = "off" /\ job' = NoJob /\ fault' = FALSE
  BY DEF PowerCut, VolatileBlank
<1>2. FilKnown' = FilContents' /\ FilPending' = NoPending /\ ~(Running /\ fault)'
  BY <1>1 DEF FilKnown, FilContents, FilPending, Running
<1>3. CASE mode = "run" /\ hw = "busy"
  <2>1. \/ FilContents' = FilContents
        \/ job.kind \in {1, 3} /\ FilContents' = With(job.channel, job.rec.info)
    BY <1>3, OperationEffect, StoredEffect DEF PowerCut
  <2>2. QED
    BY <1>2, <2>1, Pending, StoreCrash
<1>4. CASE ~(mode = "run" /\ hw = "busy")
  <2>1. UNCHANGED flash \/ TornRecovery
    BY <1>4 DEF PowerCut
  <2>2. FilContents' = FilContents
    BY <2>1, RecoveryStored DEF FilContents, FilStored, ScratchValid, Rescued
  <2>3. QED
    BY <1>2, <2>2, StoreCrash
<1>5. QED
  BY <1>3, <1>4

-----------------------------------------------------------------------------

\* The filament journal implements the store: whatever sequence of writes, rollovers,
\* flash failures, power cuts and interrupted recoveries happens, a boot finds for every
\* channel the last acknowledged record or the one being written.
THEOREM FilamentStore == Spec => FilamentDurable
<1>1. Init => Fil!Init
  <2>1. SUFFICES ASSUME Init PROVE Fil!Init
    OBVIOUS
  <2>2. IInv
    BY <2>1, IInvInit
  <2>3. mode = "off" /\ fault = FALSE
    BY <2>1 DEF Init
  <2>4. FilKnown = FilContents /\ FilPending = NoPending /\ (Running /\ fault) = FALSE
    BY <2>3 DEF FilKnown, FilContents, FilPending, Running
  <2>5. FilContents \in [Channels -> Infos \cup {NoInfo}]
    BY <2>2, Pending
  <2>6. QED
    BY <2>4, <2>5 DEF Fil!Init
<1>2. IInv /\ [Next]_vars => [Fil!Next]_(Fil!vars)
  <2>1. SUFFICES ASSUME IInv, [Next]_vars PROVE [Fil!Next]_(Fil!vars)
    OBVIOUS
  <2>2. CASE UNCHANGED vars
    <3>1. UNCHANGED <<flash, mode, fault, filLast>> /\ FilPending' = FilPending
      BY <2>2 DEF vars, FilPending, Running
    <3>2. QED
      BY <3>1, QuietStep
  <2>3. CASE Next
    BY <2>1, <2>3, BackgroundStep, FlashDoneStep, WriteStep, RecoverStep, BootStep, PowerCutStep
    DEF Next
  <2>4. QED
    BY <2>1, <2>2, <2>3
<1>3. QED
  BY <1>1, <1>2, Invariance, PTL DEF Spec, FilamentDurable, Fil!Spec
==============================================================================
