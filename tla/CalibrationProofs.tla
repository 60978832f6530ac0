-------------------------- MODULE CalibrationProofs --------------------------
(***************************************************************************)
(* What the boot and the clear leave in flash is right: the calibration    *)
(* pages agree, and change only as a whole, for every set of buffers and   *)
(* every even range of sequence numbers from 4 on; and no motor is given a *)
(* wrong direction, whatever its gear, thresholds and steps.               *)
(*                                                                         *)
(* The pages are argued about as a value c of cal: what an erase and what  *)
(* a program leave in it are the lemmas Erased and Programmed, and the     *)
(* invariant says when they apply: while a record is being written its     *)
(* slot is not that of the newest one, and its number is the next.         *)
(*                                                                         *)
(* The directions are argued about channel by channel and step by step: a  *)
(* drive moves the gear its motor's way, and then a read, true, corrupted  *)
(* or lost, keeps Right and OnTime.                                        *)
(*                                                                         *)
(* The gestures that end in a clear or a load are argued about last: what  *)
(* they pretend ends, and what starts them was a press.                    *)
(***************************************************************************)
EXTENDS CalibrationStore, DirectionTest, BufferGestures, IntervalLemmas, TLAPS

Pages == [Slots -> Records \cup {Unreadable}]

ReadableIn(c, s) == c[s] # Unreadable
HaveIn(c)        == \E s \in Slots : ReadableIn(c, s)
LatestIn(c)      == IF ReadableIn(c, 0) /\ ~(ReadableIn(c, 1) /\ Newer(c[1].seq, c[0].seq)) THEN 0 ELSE 1
StoredIn(c)      == IF HaveIn(c) THEN c[LatestIn(c)].valid ELSE {}
InOrder(c) ==
  ReadableIn(c, 0) /\ ReadableIn(c, 1) => (c[0].seq - c[1].seq) % SeqRange \in {1, SeqRange - 1}

\* Slot s of c can be written without loss, and q is the number that follows.
Spare(c, s, q) ==
  IF ReadableIn(c, 1 - s) THEN LatestIn(c) = 1 - s /\ q = (c[1 - s].seq + 1) % SeqRange ELSE ~HaveIn(c)

Writing   == {"erase cal", "program cal", "erase cleared", "program cleared"}
Measuring == Writing \cup {"measure", "clear dirs"}

JobFits ==
  /\ stage \in Writing => Spare(cal, job.slot, job.rec.seq)
  /\ stage \in {"program cal", "program cleared"} => cal[job.slot] = Unreadable
  /\ stage \in {"erase cal", "program cal"} => job.rec.valid = selected
  /\ stage \in {"erase cleared", "program cleared"} => job.rec.valid = {}

ValidIsStored == valid \subseteq StoredIn(cal) /\ (stage \in Measuring => valid = {})

ResetIsWhole ==
  /\ stage = "clear dirs" => HaveIn(cal) /\ StoredIn(cal) = {}
  /\ restarted => stage = "off" /\ HaveIn(cal) /\ StoredIn(cal) = {} /\ dirs = Unreadable

DirsFollow ==
  /\ stage \in {"erase dirs", "program dirs"} => ~fault
  /\ stage = "run" /\ ~fault /\ dirs # Unreadable => dirs = dir

StoreInv == StoreTypeOK /\ InOrder(cal) /\ JobFits /\ ValidIsStored /\ ResetIsWhole /\ DirsFollow

-----------------------------------------------------------------------------
(* Two pages. *)

\* A number and the next one, across the wrap: which is the newer is told.
LEMMA NextIsNewer ==
  ASSUME NEW s \in 0..(SeqRange - 1)
  PROVE  LET t == (s + 1) % SeqRange
         IN  /\ t \in 0..(SeqRange - 1) /\ (t - s) % SeqRange = 1 /\ (s - t) % SeqRange = SeqRange - 1
             /\ Newer(t, s) /\ ~Newer(s, t)
<1>1. SeqRange \in Nat /\ SeqRange >= 4
  BY StoreAssumption
<1>2. SeqRange \div 2 \in Int /\ SeqRange \div 2 >= 2 /\ SeqRange \div 2 <= SeqRange - 2
  BY <1>1, SMT
<1> QED BY <1>1, <1>2, SMT DEF Newer

LEMMA RecordsReadable == ASSUME NEW r \in Records PROVE r # Unreadable
  BY UnreadableAssumption DEF Records

LEMMA OtherSlot == ASSUME NEW s \in Slots PROVE 1 - s \in Slots /\ 1 - s # s /\ \A t \in Slots : t \in {s, 1 - s}
  BY DEF Slots

LEMMA OneReadable ==
  ASSUME NEW c, NEW s \in Slots, ReadableIn(c, s), ~ReadableIn(c, 1 - s)
  PROVE  HaveIn(c) /\ LatestIn(c) = s /\ InOrder(c)
  BY DEF Slots, HaveIn, LatestIn, InOrder

\* An erase of the spare slot leaves what is stored.
LEMMA Erased ==
  ASSUME NEW c \in Pages, NEW s \in Slots, NEW q, Spare(c, s, q)
  PROVE  LET d == [c EXCEPT ![s] = Unreadable]
         IN  /\ d \in Pages /\ InOrder(d) /\ Spare(d, s, q) /\ d[s] = Unreadable
             /\ HaveIn(d) = HaveIn(c) /\ StoredIn(d) = StoredIn(c)
<1> DEFINE d == [c EXCEPT ![s] = Unreadable]
           o == 1 - s
<1>1. o \in Slots /\ o # s /\ \A t \in Slots : t \in {s, o}
  BY OtherSlot
<1>2. d \in Pages /\ d[s] = Unreadable /\ d[o] = c[o] /\ ~ReadableIn(d, s)
  BY <1>1 DEF Pages, ReadableIn
<1>3. ReadableIn(d, o) = ReadableIn(c, o)
  BY <1>2 DEF ReadableIn
<1> HIDE DEF d
<1>4. CASE ReadableIn(c, o)
  <2>1. HaveIn(d) /\ LatestIn(d) = o /\ InOrder(d)
    BY <1>1, <1>2, <1>3, <1>4, OneReadable DEF Slots
  <2>2. HaveIn(c) /\ LatestIn(c) = o
    BY <1>1, <1>4 DEF HaveIn, Spare
  <2> QED BY <1>2, <1>3, <1>4, <2>1, <2>2 DEF StoredIn, Spare, d
<1>5. CASE ~ReadableIn(c, o)
  <2>1. ~HaveIn(c) /\ ~HaveIn(d)
    BY <1>1, <1>2, <1>3, <1>5 DEF HaveIn, Spare
  <2>2. InOrder(d)
    BY <1>2, <2>1 DEF InOrder, HaveIn, Slots
  <2>3. HaveIn(d) = HaveIn(c) /\ StoredIn(d) = StoredIn(c)
    BY <2>1 DEF HaveIn, StoredIn
  <2> QED BY <1>2, <1>3, <1>5, <2>1, <2>2, <2>3 DEF Spare, d
<1> QED BY <1>4, <1>5

\* A record programmed into the erased spare slot is what is stored.
LEMMA Programmed ==
  ASSUME NEW c \in Pages, NEW s \in Slots, NEW r \in Records, c[s] = Unreadable, Spare(c, s, r.seq)
  PROVE  LET d == [c EXCEPT ![s] = r]
         IN  d \in Pages /\ InOrder(d) /\ d[s] = r /\ HaveIn(d) /\ StoredIn(d) = r.valid
<1> DEFINE d == [c EXCEPT ![s] = r]
           o == 1 - s
<1>1. o \in Slots /\ o # s
  BY OtherSlot
<1>2. d \in Pages /\ d[s] = r /\ d[o] = c[o] /\ ReadableIn(d, s)
  BY <1>1, RecordsReadable DEF Pages, ReadableIn
<1>3. HaveIn(d)
  BY <1>2 DEF HaveIn
<1> HIDE DEF d
<1>4. CASE ~ReadableIn(c, o)
  <2>1. ~ReadableIn(d, o)
    BY <1>2, <1>4 DEF ReadableIn
  <2>2. LatestIn(d) = s /\ InOrder(d)
    BY <1>2, <2>1, OneReadable
  <2> QED BY <1>2, <1>3, <2>2 DEF StoredIn, d
<1>5. CASE ReadableIn(c, o)
  <2>1. c[o] \in Records
    BY <1>1, <1>5 DEF Pages, ReadableIn
  <2>2. c[o].seq \in 0..(SeqRange - 1) /\ r.seq = (c[o].seq + 1) % SeqRange
    BY <1>5, <2>1 DEF Records, Spare
  <2>3. /\ (r.seq - c[o].seq) % SeqRange = 1 /\ (c[o].seq - r.seq) % SeqRange = SeqRange - 1
        /\ Newer(r.seq, c[o].seq) /\ ~Newer(c[o].seq, r.seq)
    BY <2>2, NextIsNewer
  <2>4. ReadableIn(d, o)
    BY <1>2, <1>5 DEF ReadableIn
  <2>5. CASE s = 0
    <3>1. o = 1
      BY <2>5
    <3>2. LatestIn(d) = s /\ InOrder(d)
      BY <1>2, <2>3, <2>4, <2>5, <3>1 DEF LatestIn, InOrder
    <3> QED BY <1>2, <1>3, <3>2 DEF StoredIn, d
  <2>6. CASE s = 1
    <3>1. o = 0
      BY <2>6
    <3>2. LatestIn(d) = s /\ InOrder(d)
      BY <1>2, <2>3, <2>4, <2>6, <3>1 DEF LatestIn, InOrder
    <3> QED BY <1>2, <1>3, <3>2 DEF StoredIn, d
  <2> QED BY <2>5, <2>6 DEF Slots
<1> QED BY <1>4, <1>5

\* What the program reads of its pages.
LEMMA ReadsPages ==
  /\ Have = HaveIn(cal) /\ Latest = LatestIn(cal) /\ Stored = StoredIn(cal) /\ SlotsInOrder = InOrder(cal)
  /\ Have' = HaveIn(cal') /\ Latest' = LatestIn(cal') /\ Stored' = StoredIn(cal')
  BY DEF Have, HaveIn, Latest, LatestIn, Stored, StoredIn, SlotsInOrder, InOrder, Readable, ReadableIn

LEMMA PagesType == ASSUME StoreTypeOK PROVE cal \in Pages
  BY DEF StoreTypeOK, Pages

\* A job is for the spare slot.
LEMMA JobIsSpare ==
  ASSUME StoreTypeOK, NEW v \in SUBSET Buffers
  PROVE  /\ Job(v) \in [slot : Slots, rec : Records]
         /\ Spare(cal, Job(v).slot, Job(v).rec.seq) /\ Job(v).rec.valid = v
<1>1. SeqRange \in Nat /\ SeqRange >= 4 /\ cal \in Pages
  BY StoreAssumption, PagesType
<1>2. CASE ~HaveIn(cal)
  <2>1. Job(v) = [slot |-> 0, rec |-> [seq |-> 0, valid |-> v]]
    BY <1>2, ReadsPages DEF Job, nvm_cal_write_slot, nvm_cal_next_seq
  <2>2. ~ReadableIn(cal, 1)
    BY <1>2 DEF HaveIn, Slots
  <2> QED BY <1>1, <1>2, <2>1, <2>2 DEF Slots, Records, Spare
<1>3. CASE HaveIn(cal)
  <2> DEFINE o == LatestIn(cal)
             q == (cal[o].seq + 1) % SeqRange
  <2>1. o \in Slots /\ ReadableIn(cal, o) /\ 1 - (1 - o) = o /\ 1 - o \in Slots
    BY <1>3 DEF HaveIn, LatestIn, Slots
  <2>2. cal[o] \in Records
    BY <1>1, <2>1 DEF Pages, ReadableIn
  <2>3. q \in 0..(SeqRange - 1)
    BY <2>2, NextIsNewer DEF Records
  <2>4. Job(v) = [slot |-> 1 - o, rec |-> [seq |-> q, valid |-> v]]
    BY <1>3, <2>1, ReadsPages DEF Job, nvm_cal_write_slot, nvm_cal_next_seq, Slots
  <2> HIDE DEF q
  <2>5. Job(v).slot = 1 - o /\ Job(v).rec = [seq |-> q, valid |-> v]
    BY <2>4
  <2>6. Spare(cal, 1 - o, q)
    BY <2>1 DEF Spare, q
  <2> QED BY <2>1, <2>3, <2>4, <2>5, <2>6 DEF Records
<1> QED BY <1>2, <1>3
-----------------------------------------------------------------------------
(* Every step keeps the invariant. *)



\* What a step does to what the next boot reads (the step of CalibrationIsAtomic).
AtomicStep ==
  IF stage \in {"program cal", "program cleared"} /\ cal'[job.slot] = job.rec
  THEN Have' /\ Stored' = job.rec.valid
  ELSE Have => Have' /\ Stored' = Stored

LEMMA StoreInitInv == StoreInit => StoreInv
<1> USE DEF StoreInv
<1> SUFFICES ASSUME StoreInit PROVE StoreInv
  OBVIOUS
<1>1. StoreTypeOK
  <2>1. [slot |-> 0, rec |-> [seq |-> 0, valid |-> {}]] \in [slot : Slots, rec : Records]
    BY StoreAssumption DEF Slots, Records
  <2>2. NoDirs \in Dirs /\ [s \in Slots |-> Unreadable] \in [Slots -> Records \cup {Unreadable}]
    BY DEF NoDirs, Dirs
  <2> QED BY <2>1, <2>2 DEF StoreInit, StoreTypeOK, Stages
<1>2. cal[0] = Unreadable /\ cal[1] = Unreadable
  BY DEF StoreInit, Slots
<1>3. InOrder(cal)
  BY <1>2 DEF InOrder, ReadableIn
<1> QED
  BY <1>1, <1>3 DEF StoreInit, JobFits, Writing, Measuring, ValidIsStored, ResetIsWhole, DirsFollow

LEMMA BootInv == ASSUME StoreInv, Boot PROVE StoreInv' /\ AtomicStep
<1> USE DEF StoreInv
<1>1. PICK in \in SUBSET Buffers :
        /\ selected' = in
        /\ stage' = IF in = {} \/ (Have /\ in \subseteq Stored) THEN "learn" ELSE "measure"
        /\ valid' = IF Have /\ in \subseteq Stored THEN StoredFor(in) ELSE {}
  BY DEF Boot
<1>2. fault' = FALSE /\ dir' = NoDirs /\ restarted' = FALSE /\ UNCHANGED <<cal, dirs, job>> /\ stage = "off"
  BY DEF Boot
<1>3. StoreTypeOK'
  BY <1>1, <1>2 DEF StoreTypeOK, StoredFor, Dirs, NoDirs, Stages
<1>4. valid' \subseteq StoredIn(cal')
  BY <1>1, <1>2, ReadsPages DEF StoredFor
<1>5. stage' \in {"learn", "measure"} /\ (stage' = "measure" => valid' = {})
  BY <1>1
<1> QED
  BY <1>2, <1>3, <1>4, <1>5, ReadsPages
  DEF JobFits, Writing, Measuring, ValidIsStored, ResetIsWhole, DirsFollow, AtomicStep

LEMMA MeasuredInv == ASSUME StoreInv, Measured PROVE StoreInv' /\ AtomicStep
<1> USE DEF StoreInv
<1>1. /\ stage = "measure" /\ stage' = "erase cal" /\ job' = Job(selected)
      /\ UNCHANGED <<cal, dirs, selected, valid, dir, fault, restarted>>
  BY DEF Measured
<1>2. selected \in SUBSET Buffers
  BY DEF StoreTypeOK
<1>3. job' \in [slot : Slots, rec : Records] /\ Spare(cal, job'.slot, job'.rec.seq) /\ job'.rec.valid = selected
  BY <1>1, <1>2, JobIsSpare
<1>4. StoreTypeOK'
  BY <1>1, <1>3 DEF StoreTypeOK, Stages
<1>5. JobFits'
  BY <1>1, <1>3 DEF JobFits, Writing
<1> QED
  BY <1>1, <1>4, <1>5, ReadsPages DEF Measuring, Writing, ValidIsStored, ResetIsWhole, DirsFollow, AtomicStep

\* The steps that touch neither the pages nor the job, and do not write them.
LEMMA RestInv ==
  ASSUME StoreInv, MeasureFails \/ FlashFault PROVE StoreInv' /\ AtomicStep
<1> USE DEF StoreInv
<1>1. /\ UNCHANGED <<cal, dirs, selected, valid, dir, job, restarted>>
      /\ stage \in {"measure", "run"} /\ stage' \in {stage, "learn"}
      /\ fault' \in BOOLEAN /\ (stage' = "run" => fault')
  BY DEF MeasureFails, FlashFault, StoreTypeOK
<1>2. StoreTypeOK'
  BY <1>1 DEF StoreTypeOK, Stages
<1> QED
  BY <1>1, <1>2, ReadsPages
  DEF JobFits, Writing, Measuring, ValidIsStored, ResetIsWhole, DirsFollow, AtomicStep

LEMMA EraseCalInv == ASSUME StoreInv, NEW ok \in BOOLEAN, EraseCal(ok) PROVE StoreInv' /\ AtomicStep
<1> USE DEF StoreInv
<1> DEFINE d == [cal EXCEPT ![job.slot] = Unreadable]
<1>1. /\ stage \in {"erase cal", "erase cleared"} /\ cal' \in {cal, d} /\ (ok => cal' = d)
      /\ fault' = ~ok
      /\ stage' = IF ok THEN IF stage = "erase cal" THEN "program cal" ELSE "program cleared"
                  ELSE IF stage = "erase cal" THEN "learn" ELSE "run"
      /\ UNCHANGED <<dirs, selected, valid, dir, job, restarted>>
  BY DEF EraseCal
<1>2. cal \in Pages /\ job.slot \in Slots /\ Spare(cal, job.slot, job.rec.seq)
  BY <1>1, PagesType DEF JobFits, Writing, StoreTypeOK
<1>3. /\ d \in Pages /\ InOrder(d) /\ Spare(d, job.slot, job.rec.seq) /\ d[job.slot] = Unreadable
      /\ HaveIn(d) = HaveIn(cal) /\ StoredIn(d) = StoredIn(cal)
  BY <1>2, Erased
<1> HIDE DEF d
<1>4. /\ cal' \in Pages /\ InOrder(cal') /\ Spare(cal', job.slot, job.rec.seq)
      /\ HaveIn(cal') = HaveIn(cal) /\ StoredIn(cal') = StoredIn(cal)
      /\ ok => cal'[job.slot] = Unreadable
  BY <1>1, <1>2, <1>3
<1>5. StoreTypeOK'
  BY <1>1, <1>4 DEF StoreTypeOK, Stages, Pages
<1>6. JobFits'
  BY <1>1, <1>4 DEF JobFits, Writing
<1>7. AtomicStep
  BY <1>1, <1>4, ReadsPages DEF AtomicStep
<1> QED
  BY <1>1, <1>4, <1>5, <1>6, <1>7 DEF Measuring, Writing, ValidIsStored, ResetIsWhole, DirsFollow

LEMMA ProgramCalInv == ASSUME StoreInv, NEW ok \in BOOLEAN, ProgramCal(ok) PROVE StoreInv' /\ AtomicStep
<1> USE DEF StoreInv
<1> DEFINE d == [cal EXCEPT ![job.slot] = job.rec]
<1>1. /\ stage \in {"program cal", "program cleared"} /\ cal' \in {cal, d} /\ (ok => cal' = d)
      /\ fault' = ~ok
      /\ valid' = IF ok /\ stage = "program cal" THEN selected ELSE {}
      /\ stage' = IF stage = "program cal" THEN "learn" ELSE IF ok THEN "clear dirs" ELSE "run"
      /\ UNCHANGED <<dirs, selected, dir, job, restarted>>
  BY DEF ProgramCal
<1>2. /\ cal \in Pages /\ job.slot \in Slots /\ job.rec \in Records
      /\ cal[job.slot] = Unreadable /\ Spare(cal, job.slot, job.rec.seq)
  BY <1>1, PagesType DEF JobFits, Writing, StoreTypeOK
<1>3. d \in Pages /\ InOrder(d) /\ d[job.slot] = job.rec /\ HaveIn(d) /\ StoredIn(d) = job.rec.valid
  BY <1>2, Programmed
<1> HIDE DEF d
<1>4. cal' \in Pages /\ InOrder(cal')
  BY <1>1, <1>2, <1>3
<1>5. job.rec # Unreadable
  BY <1>2, RecordsReadable
<1>6. AtomicStep
  BY <1>1, <1>2, <1>3, <1>5, ReadsPages DEF AtomicStep
<1>7. /\ job.rec.valid = IF stage = "program cal" THEN selected ELSE {}
      /\ ok => HaveIn(cal') /\ StoredIn(cal') = job.rec.valid
  BY <1>1, <1>3 DEF JobFits
<1>8. StoreTypeOK'
  BY <1>1, <1>4 DEF StoreTypeOK, Stages, Pages
<1>9. valid' \subseteq StoredIn(cal')
  BY <1>1, <1>7
<1> QED
  BY <1>1, <1>4, <1>6, <1>7, <1>8, <1>9 DEF JobFits, Measuring, Writing, ValidIsStored, ResetIsWhole, DirsFollow

LEMMA LearnInv == ASSUME StoreInv, MOTOR_get_dir PROVE StoreInv' /\ AtomicStep
<1> USE DEF StoreInv
<1>1. PICK turned \in SUBSET Unknown : \E how \in [turned -> {1, -1}] :
        /\ dir' = Learned(turned, how)
        /\ stage' = IF turned = {} \/ fault THEN "run" ELSE "erase dirs"
  BY DEF MOTOR_get_dir
<1>2. PICK how \in [turned -> {1, -1}] :
        /\ dir' = Learned(turned, how)
        /\ stage' = IF turned = {} \/ fault THEN "run" ELSE "erase dirs"
  BY <1>1
<1>3. stage = "learn" /\ UNCHANGED <<cal, dirs, selected, valid, fault, job, restarted>>
  BY DEF MOTOR_get_dir
<1>4. dirs \in Dirs \cup {Unreadable}
  BY DEF StoreTypeOK
<1>5. Learned(turned, how) \in Dirs
  <2> SUFFICES ASSUME NEW c \in Buffers PROVE Learned(turned, how)[c] \in {0, 1, -1}
    BY DEF Learned, Dirs
  <2> QED BY <1>4 DEF Learned, Dirs
<1>6. turned = {} /\ dirs # Unreadable => Learned(turned, how) = dirs
  BY <1>4 DEF Learned, Dirs
<1>7. StoreTypeOK'
  BY <1>2, <1>3, <1>5 DEF StoreTypeOK, Stages
<1>8. stage' = "erase dirs" => ~fault
  BY <1>2
<1>9. stage' = "run" /\ ~fault /\ dirs # Unreadable => dir' = dirs
  BY <1>2, <1>6
<1>10. stage' \in {"run", "erase dirs"}
  BY <1>2
<1> QED
  BY <1>3, <1>7, <1>8, <1>9, <1>10, ReadsPages
  DEF JobFits, Measuring, Writing, ValidIsStored, ResetIsWhole, DirsFollow, AtomicStep

\* The directions are written or cleared.
LEMMA DirsInv ==
  ASSUME StoreInv, NEW ok \in BOOLEAN, EraseDirs(ok) \/ ProgramDirs(ok) \/ ClearDirs(ok)
  PROVE  StoreInv' /\ AtomicStep
<1> USE DEF StoreInv
<1>1. /\ UNCHANGED <<cal, selected, valid, dir, job>> /\ fault' = ~ok
      /\ stage \in {"erase dirs", "program dirs", "clear dirs"}
      /\ dirs' \in {dirs, dir, Unreadable}
  BY DEF EraseDirs, ProgramDirs, ClearDirs
<1>2. CASE EraseDirs(ok)
  <2>1. /\ stage = "erase dirs" /\ stage' = (IF ok THEN "program dirs" ELSE "run") /\ restarted' = restarted
    BY <1>2 DEF EraseDirs
  <2>2. StoreTypeOK'
    BY <1>1, <2>1 DEF StoreTypeOK, Stages
  <2> QED
    BY <1>1, <2>1, <2>2, ReadsPages
    DEF JobFits, Measuring, Writing, ValidIsStored, ResetIsWhole, DirsFollow, AtomicStep
<1>3. CASE ProgramDirs(ok)
  <2>1. stage = "program dirs" /\ stage' = "run" /\ restarted' = restarted /\ (ok => dirs' = dir)
    BY <1>3 DEF ProgramDirs
  <2>2. StoreTypeOK'
    BY <1>1, <2>1 DEF StoreTypeOK, Stages
  <2> QED
    BY <1>1, <2>1, <2>2, ReadsPages
    DEF JobFits, Measuring, Writing, ValidIsStored, ResetIsWhole, DirsFollow, AtomicStep
<1>4. CASE ClearDirs(ok)
  <2>1. /\ stage = "clear dirs" /\ stage' = (IF ok THEN "off" ELSE "run") /\ restarted' = (stage' = "off")
        /\ ok => dirs' = Unreadable
    BY <1>4 DEF ClearDirs, AfterClear
  <2>2. StoreTypeOK'
    BY <1>1, <2>1 DEF StoreTypeOK, Stages
  <2> QED
    BY <1>1, <2>1, <2>2, ReadsPages
    DEF JobFits, Measuring, Writing, ValidIsStored, ResetIsWhole, DirsFollow, AtomicStep
<1> QED BY <1>2, <1>3, <1>4

LEMMA ResetInv == ASSUME StoreInv, calibration_reset_and_reboot PROVE StoreInv' /\ AtomicStep
<1> USE DEF StoreInv
<1>1. /\ stage = "run" /\ valid' = {} /\ UNCHANGED <<cal, dirs, selected, dir, fault, restarted>>
      /\ IF fault THEN stage' = "run" /\ UNCHANGED job ELSE stage' = "erase cleared" /\ job' = Job({})
  BY DEF calibration_reset_and_reboot
<1>2. /\ Job({}) \in [slot : Slots, rec : Records]
      /\ Spare(cal, Job({}).slot, Job({}).rec.seq) /\ Job({}).rec.valid = {}
  BY JobIsSpare
<1>3. StoreTypeOK'
  BY <1>1, <1>2 DEF StoreTypeOK, Stages
<1>4. JobFits'
  BY <1>1, <1>2 DEF JobFits, Writing
<1> QED
  BY <1>1, <1>3, <1>4, ReadsPages DEF Measuring, Writing, ValidIsStored, ResetIsWhole, DirsFollow, AtomicStep

LEMMA PowerCutInv == ASSUME StoreInv, PowerCut PROVE StoreInv' /\ AtomicStep
<1> USE DEF StoreInv
<1> DEFINE d == [cal EXCEPT ![job.slot] = Unreadable]
<1>1. /\ stage # "off" /\ stage' = "off" /\ UNCHANGED <<selected, valid, dir, fault, job, restarted>>
      /\ cal' = cal \/ (stage \in {"erase cal", "erase cleared"} /\ cal' = d)
      /\ dirs' \in {dirs, Unreadable}
  BY DEF PowerCut
<1>2. cal \in Pages /\ job.slot \in Slots /\ job.rec \in Records
  BY PagesType DEF StoreTypeOK
<1>3. cal' # cal => /\ d \in Pages /\ InOrder(d)
                    /\ HaveIn(d) = HaveIn(cal) /\ StoredIn(d) = StoredIn(cal)
  BY <1>1, <1>2, Erased DEF JobFits, Writing
<1> HIDE DEF d
<1>4. cal' \in Pages /\ InOrder(cal') /\ HaveIn(cal') = HaveIn(cal) /\ StoredIn(cal') = StoredIn(cal)
  BY <1>1, <1>2, <1>3
<1>5. StoreTypeOK'
  BY <1>1, <1>4 DEF StoreTypeOK, Stages, Pages
<1>6. stage \in {"program cal", "program cleared"} => cal'[job.slot] # job.rec
  BY <1>1, <1>2, RecordsReadable DEF JobFits
<1>7. AtomicStep
  BY <1>4, <1>6, ReadsPages DEF AtomicStep
<1> QED
  BY <1>1, <1>4, <1>5, <1>7 DEF JobFits, Measuring, Writing, ValidIsStored, ResetIsWhole, DirsFollow

LEMMA StoreStep == ASSUME StoreInv, [StoreNext]_storeVars PROVE StoreInv' /\ [AtomicStep]_storeVars
<1>1. CASE StoreNext
  BY <1>1, BootInv, MeasuredInv, RestInv, EraseCalInv, ProgramCalInv, LearnInv, DirsInv, ResetInv, PowerCutInv
  DEF StoreNext
<1>2. CASE UNCHANGED storeVars
  BY <1>2, ReadsPages
  DEF StoreInv, storeVars, InOrder, Spare, HaveIn, LatestIn, StoredIn, ReadableIn, StoreTypeOK,
      JobFits, Measuring, Writing, ValidIsStored, ResetIsWhole, DirsFollow
<1> QED BY <1>1, <1>2

\* What the invariant says of the pages of a running or restarted controller.
LEMMA InvAgrees == StoreInv => StoreTypeOK /\ PagesAgree
  BY ReadsPages DEF StoreInv, PagesAgree, ResetClearsBoth, RunsOnStored, ValidIsStored, ResetIsWhole, DirsFollow

(* The inductive invariant, from which the theorems below follow.           *)
THEOREM StoreInvariance == StoreSpec => []StoreInv
<1>1. StoreInv /\ [StoreNext]_storeVars => StoreInv'
  BY StoreStep
<1> QED BY <1>1, StoreInitInv, PTL DEF StoreSpec

(* The two pages are in order across every wrap of the numbers, a restart   *)
(* by the gesture finds both cleared, and the controller runs on what the   *)
(* flash holds, whatever power cuts and flash errors came before            *)
(* (nvm_cal_write_slot, calibration_reset_and_reboot, MOTOR_get_dir).       *)
THEOREM PagesAlwaysAgree == StoreSpec => []PagesAgree
  BY InvAgrees, StoreInvariance, PTL

(* Every variable of the pages keeps its type, among them that only         *)
(* inserted channels are taken for calibrated.                              *)
THEOREM StoreTyped == StoreSpec => []StoreTypeOK
  BY InvAgrees, StoreInvariance, PTL

(* The calibration the next boot reads changes in one step, with the word   *)
(* that completes a record (cal_commit), for every point at which power or  *)
(* flash may fail.                                                          *)
THEOREM AtomicAlways == StoreSpec => CalibrationIsAtomic
<1>1. StoreInv /\ [StoreNext]_storeVars =>
        [IF stage \in {"program cal", "program cleared"} /\ cal'[job.slot] = job.rec
         THEN Have' /\ Stored' = job.rec.valid
         ELSE Have => Have' /\ Stored' = Stored]_storeVars
  BY StoreStep DEF AtomicStep
<1> QED BY <1>1, StoreInvariance, PTL DEF StoreSpec, CalibrationIsAtomic

-----------------------------------------------------------------------------
(* The test of the directions.  A channel's gear is y counts from its      *)
(* last_angle: rel is y around the turn, and x counts it in the direction   *)
(* that the motor turns.                                                    *)

Around(y) == IF y < 0 THEN y + Turn ELSE y

Tests == [test : BOOLEAN, phase : 0..4, rel : 0..(Turn - 1), candidate : {0, 1, -1}, dir : {0, 1, -1},
          pwm : BOOLEAN, way : Ways, bad : 0..MaxBad, fair : BOOLEAN]

\* The gear has gone from lo to hi counts the motor's way.
Gone(s, lo, hi) == \E x \in lo..hi : s.rel = Around(s.way * x)

\* How far one corrupted read lets the gear be, before it is found to move.
Low(s)  == IF s.bad = 0 THEN 0 ELSE -Quarter
High(s) == IF s.bad = 0 THEN Detect ELSE Detect + Speed

Orderly(s) ==
  /\ s \in Tests
  /\ s.pwm => s.phase = 2 /\ s.test
  /\ s.dir # 0 => s.phase = 4 /\ ~s.test

\* With one corrupted read at most, the candidate is right, or that read gave it and the
\* gear has not gone the other way.
Right(s) ==
  s.bad <= 1 =>
    /\ s.phase = 0 \/ (s.phase = 1 /\ s.bad = 0) => s.rel = 0
    /\ s.phase = 2 /\ s.test => Gone(s, Low(s), High(s))
    /\ s.phase = 3 /\ s.test => s.candidate = s.way \/ (s.bad = 1 /\ Gone(s, 0, Detect + Speed))
    /\ s.phase = 4 /\ s.test => s.candidate = s.way
    /\ s.dir # 0 => s.dir = s.way

\* After n steps a gear that turns freely and reads true has gone n - 2 counts at least.
OnTime(s, n) ==
  s.fair =>
    /\ s.bad = 0
    /\ ~s.test => s.dir = s.way
    /\ s.test /\ s.phase = 0 => n = 0
    /\ s.test /\ s.phase = 1 => n = 1
    /\ s.test /\ s.phase = 2 => s.pwm /\ n >= 2 /\ Gone(s, n - 2, Detect)
    /\ s.test /\ s.phase \in 3..4 =>
         n <= Detect + s.phase /\ s.candidate = s.way /\ Gone(s, Detect + 1, Detect + Speed)

DirectionInv ==
  /\ stepped \in 0..Steps /\ over \in BOOLEAN
  /\ \A i \in Motors :
       /\ Orderly(tests[i]) /\ Right(tests[i])
       /\ ~over => OnTime(tests[i], stepped)
       /\ over => ~tests[i].pwm /\ (tests[i].fair /\ Steps >= Detect + 5 => tests[i].dir = tests[i].way)

-----------------------------------------------------------------------------
LEMMA Gears ==
  /\ Half \in Nat \ {0} /\ Detect \in Nat /\ Quarter \in 0..Detect /\ Speed \in Nat /\ MaxBad \in Nat
  /\ Steps \in Nat /\ Turn = 2 * Half /\ Turn \in Nat \ {0}
  /\ Detect + Speed < Half /\ Quarter < Half
  /\ MaxBad >= 1 => Detect + 2 * Speed < Half
<1>1. /\ Speed \in Nat /\ MaxBad \in Nat /\ Half \in Nat /\ Detect \in Nat /\ Quarter \in 0..Detect /\ Steps \in Nat
      /\ Detect + (MaxBad + 1) * Speed + Quarter < Half
  BY DirectionAssumption
<1>2. (MaxBad + 1) * Speed = MaxBad * Speed + Speed /\ MaxBad * Speed \in Nat
  BY <1>1, SMT
<1>3. MaxBad >= 1 => MaxBad * Speed >= Speed
  BY <1>1, SMT
<1> HIDE DEF Turn
<1> QED BY <1>1, <1>2, <1>3, SMT DEF Turn

\* The angle read from a gear y counts away is y.
LEMMA DiffAround ==
  ASSUME NEW y \in (1 - Half)..(Half - 1)
  PROVE  Around(y) \in 0..(Turn - 1) /\ Diff(Around(y)) = y
  BY Gears, SMT DEF Around, Diff

\* A gear that turns on is so much further away.
LEMMA TurnOn ==
  ASSUME NEW y \in (1 - Half)..(Half - 1), NEW k \in Int, y + k \in (1 - Half)..(Half - 1)
  PROVE  (Around(y) + k) % Turn = Around(y + k)
<1> DEFINE z == Around(y) + k
<1>1. Turn \in Nat \ {0} /\ Turn = 2 * Half /\ Half \in Nat
  BY Gears
<1>2. z \in {y + k, y + k + Turn}
  BY <1>1 DEF Around
<1>3. z \in -Turn..(2 * Turn - 1)
  BY <1>1, <1>2
<1>4. z % Turn = IF z < 0 THEN z + Turn ELSE IF z < Turn THEN z ELSE z - Turn
  <2> HIDE DEF z
  <2> QED BY <1>1, <1>3, SMT
<1> HIDE DEF z
<1>5. z % Turn = Around(y + k)
  BY <1>1, <1>2, <1>4 DEF Around
<1> QED BY <1>5 DEF z

\* Both ways are the same for distances.
LEMMA WayTimes ==
  ASSUME NEW w \in Ways, NEW x \in Int
  PROVE  /\ w * x \in Int /\ w * (w * x) = x /\ (x = 0 => w * x = 0)
         /\ Mag(w * x) = Mag(x) /\ (x > 0 => Sign(w * x) = w) /\ (x < 0 => Sign(w * x) = -w)
  BY SMT DEF Ways, Mag, Sign

\* What a true read sees of a gear that has gone x.
LEMMA GoneRead ==
  ASSUME NEW w \in Ways, NEW x \in (1 - Half)..(Half - 1)
  PROVE  Around(w * x) \in 0..(Turn - 1) /\ Diff(Around(w * x)) = w * x
<1>1. w * x \in (1 - Half)..(Half - 1)
  BY Gears, SMT DEF Ways
<1> QED BY <1>1, DiffAround

LEMMA GoneOn ==
  ASSUME NEW w \in Ways, NEW x \in (1 - Half)..(Half - 1), NEW v \in Int, x + v \in (1 - Half)..(Half - 1)
  PROVE  (Around(w * x) + w * v) % Turn = Around(w * (x + v))
<1>1. /\ w * x \in (1 - Half)..(Half - 1) /\ w * v \in Int /\ w * (x + v) = w * x + w * v
      /\ w * (x + v) \in (1 - Half)..(Half - 1)
  BY Gears, SMT DEF Ways
<1> QED BY <1>1, TurnOn

\* Rebasing on a corrupted read d leaves the gear -d away, on a true one where it is.
LEMMA Rebased ==
  ASSUME NEW d \in 0..(Turn - 1)
  PROVE  /\ (d - d) % Turn = 0 /\ (0 - d) % Turn \in 0..(Turn - 1)
         /\ Mag(Diff(d)) <= Quarter => \E y \in -Quarter..Quarter : (0 - d) % Turn = Around(y)
<1>1. Turn \in Nat \ {0} /\ Turn = 2 * Half /\ Half \in Nat /\ Quarter \in Nat /\ Quarter < Half
  BY Gears
<1>2. 0 % Turn = 0 /\ d - d = 0 /\ (0 - d) % Turn = IF d = 0 THEN 0 ELSE Turn - d
  BY <1>1, SMT
<1>3. ASSUME Mag(Diff(d)) <= Quarter
      PROVE  \E y \in -Quarter..Quarter : (0 - d) % Turn = Around(y)
  <2> DEFINE y == IF d > Half THEN Turn - d ELSE -d
  <2>1. y \in -Quarter..Quarter /\ (0 - d) % Turn = Around(y)
    BY <1>1, <1>2, <1>3, SMT DEF Diff, Mag, Around
  <2> QED BY <2>1
<1> QED BY <1>1, <1>2, <1>3, SMT

-----------------------------------------------------------------------------
(* One step of one channel.                                                *)

\* Where the gear may be once it has moved, before it is read.
Moving(s, n) ==
  /\ s \in Tests /\ s.test /\ s.dir = 0 /\ (s.pwm => s.phase = 2)
  /\ s.bad <= 1 =>
       /\ s.phase = 0 \/ (s.phase = 1 /\ s.bad = 0) => s.rel = 0
       /\ s.phase = 2 => Gone(s, Low(s), High(s) + Speed)
       /\ s.phase = 3 => s.candidate = s.way \/ (s.bad = 1 /\ Gone(s, 0, Detect + Speed))
       /\ s.phase = 4 => s.candidate = s.way
  /\ s.fair =>
       /\ s.bad = 0
       /\ s.phase = 0 => n = 0
       /\ s.phase = 1 => n = 1
       /\ s.phase = 2 => s.pwm /\ n >= 2 /\ n <= Detect + 2 /\ Gone(s, n - 1, Detect + Speed)
       /\ s.phase \in 3..4 =>
            n <= Detect + s.phase /\ s.candidate = s.way /\ Gone(s, Detect + 1, Detect + Speed)

LEMMA GoneFurther ==
  ASSUME NEW s \in Tests, NEW t, NEW lo \in Int, NEW hi \in Int, NEW v \in 0..Speed,
         1 - Half <= lo, hi + v < Half, Gone(s, lo, hi),
         t.way = s.way, t.rel = (s.rel + s.way * v) % Turn
  PROVE  Gone(t, lo + v, hi + v)
<1>1. PICK x \in lo..hi : s.rel = Around(s.way * x)
  BY DEF Gone
<1>2. s.way \in Ways /\ v \in Int /\ x \in Int
  BY Gears DEF Tests
<1>3. x \in (1 - Half)..(Half - 1) /\ x + v \in (1 - Half)..(Half - 1)
  BY Gears, SMT
<1>4. t.rel = Around(t.way * (x + v))
  BY <1>1, <1>2, <1>3, GoneOn
<1>5. x + v \in (lo + v)..(hi + v)
  BY Gears, SMT
<1> QED BY <1>4, <1>5 DEF Gone

LEMMA GoneWithin ==
  ASSUME NEW s, NEW lo \in Int, NEW hi \in Int, NEW lo2 \in Int, NEW hi2 \in Int,
         lo2 <= lo, hi <= hi2, Gone(s, lo, hi)
  PROVE  Gone(s, lo2, hi2)
<1>1. PICK x \in lo..hi : s.rel = Around(s.way * x)
  BY DEF Gone
<1>2. x \in lo2..hi2
  BY <1>1
<1> QED BY <1>1, <1>2 DEF Gone

LEMMA Bounds ==
  ASSUME NEW s \in Tests, s.bad <= 1
  PROVE  /\ Low(s) \in Int /\ High(s) \in Int /\ 1 - Half <= Low(s) /\ High(s) + Speed < Half
         /\ s.bad \in {0, 1} /\ (s.bad = 1 => MaxBad >= 1)
<1>1. s.bad \in 0..MaxBad
  BY DEF Tests
<1> QED BY <1>1, Gears, SMT DEF Low, High

LEMMA MovedMoving ==
  ASSUME NEW s, NEW n \in Nat, Orderly(s), Right(s), OnTime(s, n), s.test,
         NEW v \in (IF s.pwm THEN 0..Speed ELSE {0})
  PROVE  Moving(Moved(s, v), n)
<1> DEFINE m == Moved(s, v)
<1>1. s \in Tests /\ s.dir = 0 /\ s.phase \in 0..4
  BY DEF Orderly, Tests
<1>2. CASE ~s.pwm
  <2>1. m = s
    BY <1>2 DEF Moved
  <2>2. s.bad <= 1 /\ s.phase = 2 => Gone(s, Low(s), High(s) + Speed)
    <3> SUFFICES ASSUME s.bad <= 1, s.phase = 2 PROVE Gone(s, Low(s), High(s) + Speed)
      OBVIOUS
    <3>1. Gone(s, Low(s), High(s))
      BY DEF Right
    <3>2. Low(s) \in Int /\ High(s) \in Int /\ High(s) + Speed \in Int /\ High(s) <= High(s) + Speed
      BY <1>1, Bounds, Gears
    <3> QED BY <1>1, <3>1, <3>2, GoneWithin
  <2>3. s.fair => s.phase # 2
    BY <1>2 DEF OnTime
  <2> QED BY <1>1, <1>2, <2>1, <2>2, <2>3 DEF Moving, Right, OnTime
<1>3. CASE s.pwm
  <2>1. s.phase = 2 /\ v \in 0..Speed
    BY <1>3 DEF Orderly
  <2>2. m = [s EXCEPT !.rel = (@ + s.way * v) % Turn, !.fair = @ /\ v > 0]
    BY <1>3 DEF Moved
  <2>3. /\ m.rel = (s.rel + s.way * v) % Turn /\ m.fair = (s.fair /\ v > 0)
        /\ m.test = s.test /\ m.dir = s.dir /\ m.pwm = s.pwm /\ m.phase = s.phase /\ m.bad = s.bad
        /\ m.way = s.way /\ m.candidate = s.candidate
    BY <1>1, <2>2 DEF Tests
  <2>4. m.rel \in 0..(Turn - 1)
    <3>1. s.rel + s.way * v \in Int
      <4>1. s.rel \in Int /\ s.way \in Ways /\ v \in Int
        BY <1>1, <2>1, Gears DEF Tests
      <4> QED BY <4>1, SMT DEF Ways
    <3> QED BY <2>3, <3>1, ModRange, Gears
  <2>5. m \in Tests
    <3>1. (s.fair /\ v > 0) \in BOOLEAN
      OBVIOUS
    <3> QED BY <1>1, <2>2, <2>3, <2>4, Zenon DEF Tests
  <2> HIDE DEF m
  <2>6. m.bad <= 1 => Gone(m, Low(m), High(m) + Speed)
    <3> SUFFICES ASSUME m.bad <= 1 PROVE Gone(m, Low(m), High(m) + Speed)
      OBVIOUS
    <3>1. Gone(s, Low(s), High(s)) /\ s.bad <= 1
      BY <2>1, <2>3 DEF Right
    <3>2. Low(s) \in Int /\ High(s) \in Int /\ 1 - Half <= Low(s) /\ High(s) + Speed < Half
      BY <1>1, <3>1, Bounds
    <3>3. Gone(m, Low(s) + v, High(s) + v)
      BY <1>1, <2>1, <2>3, <3>1, <3>2, GoneFurther, Gears
    <3>4. Low(m) = Low(s) /\ High(m) = High(s)
      BY <2>3 DEF Low, High
    <3> QED BY <2>1, <3>2, <3>3, <3>4, GoneWithin, Gears
  <2>7. m.fair => n >= 2 /\ n <= Detect + 2 /\ Gone(m, n - 1, Detect + Speed)
    <3> SUFFICES ASSUME m.fair PROVE n >= 2 /\ n <= Detect + 2 /\ Gone(m, n - 1, Detect + Speed)
      OBVIOUS
    <3>1. s.fair /\ v > 0 /\ n >= 2 /\ Gone(s, n - 2, Detect)
      BY <2>1, <2>3 DEF OnTime
    <3>2. n <= Detect + 2
      BY <3>1, Gears DEF Gone
    <3>3. Gone(m, (n - 2) + v, Detect + v)
      BY <1>1, <2>1, <2>3, <3>1, GoneFurther, Gears
    <3> QED BY <2>1, <3>1, <3>2, <3>3, GoneWithin, Gears
  <2>8. m.fair => m.bad = 0
    BY <2>3 DEF OnTime
  <2>9. m.test /\ m.dir = 0 /\ m.pwm /\ m.phase = 2
    BY <1>1, <1>3, <2>1, <2>3
  <2>10. Moving(m, n)
    BY <2>5, <2>6, <2>7, <2>8, <2>9, SMT DEF Moving
  <2> QED BY <2>10 DEF m
<1> QED BY <1>2, <1>3

\* What a read of d does to a channel under test.
LEMMA ReadFields ==
  ASSUME NEW m \in Tests, NEW d \in 0..(Turn - 1), m.test, m.dir = 0, m.pwm => m.phase = 2
  PROVE  LET r == Read(m, d)
         IN  /\ Orderly(r) /\ r.way = m.way /\ r.bad = m.bad /\ r.fair = m.fair
             /\ m.phase = 0 => r.test /\ r.phase = 1 /\ r.rel = (m.rel - d) % Turn /\ r.dir = 0
             /\ m.phase = 1 =>
                  /\ r.test /\ r.rel = (m.rel - d) % Turn /\ r.dir = 0
                  /\ IF Mag(Diff(d)) <= Quarter THEN r.phase = 2 /\ r.pwm ELSE r.phase = 1
             /\ m.phase = 2 =>
                  IF Mag(Diff(d)) > Detect
                  THEN r.test /\ r.phase = 3 /\ r.candidate = Sign(Diff(d)) /\ r.rel = m.rel /\ r.dir = 0
                  ELSE r = m
             /\ m.phase \in 3..4 =>
                  IF ~Confirms(m, d) THEN ~r.test /\ r.phase = m.phase /\ r.dir = 0
                  ELSE IF m.phase = 3
                  THEN r.test /\ r.phase = 4 /\ r.candidate = m.candidate /\ r.rel = m.rel /\ r.dir = 0
                  ELSE ~r.test /\ r.phase = 4 /\ r.dir = m.candidate
<1> DEFINE r == Read(m, d)
<1>1. (m.rel - d) % Turn \in 0..(Turn - 1)
  <2>1. m.rel - d \in Int
    BY Gears DEF Tests
  <2> QED BY <2>1, ModRange, Gears
<1>2. Sign(Diff(d)) \in {1, -1}
  BY DEF Sign
<1> /\ 1 \in 0..4 /\ 2 \in 0..4 /\ 3 \in 0..4 /\ 4 \in 0..4 /\ TRUE \in BOOLEAN /\ FALSE \in BOOLEAN
      /\ 1 \in {0, 1, -1} /\ -1 \in {0, 1, -1} /\ Sign(Diff(d)) \in {0, 1, -1}
  BY <1>2
<1>3. CASE m.phase = 0
  <2>1. r = [m EXCEPT !.rel = (@ - d) % Turn, !.phase = 1]
    BY <1>3 DEF Read, Baseline, Rebase, Tests
  <2>2. r \in Tests
    BY <1>1, <2>1, Zenon DEF Tests
  <2>3. /\ r.way = m.way /\ r.bad = m.bad /\ r.fair = m.fair /\ r.test /\ r.phase = 1
        /\ r.rel = (m.rel - d) % Turn /\ r.dir = 0 /\ r.pwm = m.pwm
    BY <2>1 DEF Tests
  <2> HIDE DEF r
  <2>4. Orderly(r)
    BY <1>3, <2>2, <2>3 DEF Orderly
  <2> QED BY <1>3, <2>3, <2>4 DEF r
<1>4. CASE m.phase = 1
  <2> DEFINE still == Mag(Diff(d)) <= Quarter
  <2>1. r = IF still THEN [m EXCEPT !.rel = (@ - d) % Turn, !.phase = 2, !.pwm = TRUE]
            ELSE [m EXCEPT !.rel = (@ - d) % Turn]
    BY <1>4 DEF Read, Still, Rebase, Tests
  <2> HIDE DEF r
  <2>2. r \in Tests
    <3>1. CASE still
      <4>1. r = [m EXCEPT !.rel = (@ - d) % Turn, !.phase = 2, !.pwm = TRUE]
        BY <2>1, <3>1
      <4> QED BY <1>1, <4>1, Zenon DEF Tests
    <3>2. CASE ~still
      <4>1. r = [m EXCEPT !.rel = (@ - d) % Turn]
        BY <2>1, <3>2
      <4> QED BY <1>1, <4>1, Zenon DEF Tests
    <3> QED BY <3>1, <3>2
  <2>3. /\ r.way = m.way /\ r.bad = m.bad /\ r.fair = m.fair /\ r.test /\ r.dir = 0
        /\ r.rel = (m.rel - d) % Turn
        /\ IF still THEN r.phase = 2 /\ r.pwm ELSE r.phase = 1 /\ r.pwm = m.pwm
    BY <1>4, <2>1 DEF Tests
  <2>4. Orderly(r)
    BY <1>4, <2>2, <2>3 DEF Orderly
  <2> QED BY <1>4, <2>3, <2>4 DEF r
<1>5. CASE m.phase = 2
  <2> DEFINE moved == Mag(Diff(d)) > Detect
  <2>1. r = IF moved THEN [m EXCEPT !.pwm = FALSE, !.candidate = Sign(Diff(d)), !.phase = 3] ELSE m
    BY <1>5 DEF Read, Detected, Tests
  <2> HIDE DEF r
  <2>2. r \in Tests
    <3>1. CASE moved
      <4>1. r = [m EXCEPT !.pwm = FALSE, !.candidate = Sign(Diff(d)), !.phase = 3]
        BY <2>1, <3>1
      <4> QED BY <4>1, Zenon DEF Tests
    <3>2. CASE ~moved
      BY <2>1, <3>2
    <3> QED BY <3>1, <3>2
  <2>3. /\ r.way = m.way /\ r.bad = m.bad /\ r.fair = m.fair /\ r.test /\ r.dir = 0 /\ r.rel = m.rel
        /\ IF moved THEN r.phase = 3 /\ ~r.pwm /\ r.candidate = Sign(Diff(d)) ELSE r = m
    BY <2>1 DEF Tests
  <2>4. Orderly(r)
    BY <1>5, <2>2, <2>3 DEF Orderly
  <2> QED BY <1>5, <2>3, <2>4 DEF r
<1>6. CASE m.phase \in 3..4
  <2>1. r = IF ~Confirms(m, d) THEN [m EXCEPT !.test = FALSE]
            ELSE IF m.phase = 3 THEN [m EXCEPT !.phase = 4]
            ELSE [m EXCEPT !.test = FALSE, !.dir = m.candidate]
    BY <1>6 DEF Read, Confirmed, Tests
  <2> HIDE DEF r
  <2>2. m.candidate \in {0, 1, -1}
    BY DEF Tests
  <2>3. r \in Tests
    <3>1. CASE ~Confirms(m, d)
      <4>1. r = [m EXCEPT !.test = FALSE]
        BY <2>1, <3>1
      <4> QED BY <4>1, Zenon DEF Tests
    <3>2. CASE Confirms(m, d) /\ m.phase = 3
      <4>1. r = [m EXCEPT !.phase = 4]
        BY <2>1, <3>2
      <4> QED BY <4>1, Zenon DEF Tests
    <3>3. CASE Confirms(m, d) /\ m.phase # 3
      <4>1. r = [m EXCEPT !.test = FALSE, !.dir = m.candidate]
        BY <2>1, <3>3
      <4> QED BY <2>2, <4>1, Zenon DEF Tests
    <3> QED BY <3>1, <3>2, <3>3
  <2>4. /\ r.way = m.way /\ r.bad = m.bad /\ r.fair = m.fair /\ r.pwm = m.pwm
        /\ r.candidate = m.candidate /\ r.rel = m.rel
        /\ IF ~Confirms(m, d) THEN ~r.test /\ r.phase = m.phase /\ r.dir = 0
           ELSE IF m.phase = 3 THEN r.test /\ r.phase = 4 /\ r.dir = 0
           ELSE ~r.test /\ r.phase = m.phase /\ r.dir = m.candidate
    BY <1>6, <2>1 DEF Tests
  <2>5. Orderly(r)
    BY <1>6, <2>3, <2>4 DEF Orderly
  <2> QED BY <1>6, <2>4, <2>5 DEF r
<1> QED BY <1>3, <1>4, <1>5, <1>6 DEF Tests

\* The gear is seen to have moved beyond a distance that it cannot have gone backwards.
LEMMA SeenForward ==
  ASSUME NEW s \in Tests, NEW lo \in Int, NEW hi \in Int, 1 - Half <= lo, hi < Half, Gone(s, lo, hi),
         NEW b \in Nat, -b <= lo
  PROVE  /\ Mag(Diff(s.rel)) > b => Sign(Diff(s.rel)) = s.way
         /\ ~(Mag(Diff(s.rel)) > b) => Gone(s, lo, b)
         /\ lo > b => Mag(Diff(s.rel)) > b
<1>1. PICK x \in lo..hi : s.rel = Around(s.way * x)
  BY DEF Gone
<1>2. s.way \in Ways /\ x \in Int /\ x \in (1 - Half)..(Half - 1)
  BY Gears DEF Tests
<1>3. Diff(s.rel) = s.way * x
  BY <1>1, <1>2, GoneRead
<1>4. Mag(s.way * x) = Mag(x) /\ (x > 0 => Sign(s.way * x) = s.way)
  BY <1>2, WayTimes
<1>5. Mag(x) > b => x > b
  BY <1>1, <1>2, SMT DEF Mag
<1>6. ~(Mag(x) > b) => x \in lo..b
  BY <1>1, <1>2, SMT DEF Mag
<1>7. lo > b => Mag(x) > b
  BY <1>1, <1>2, SMT DEF Mag
<1> QED BY <1>1, <1>2, <1>3, <1>4, <1>5, <1>6, <1>7 DEF Gone

\* The gear at its last angle.
LEMMA GoneNowhere ==
  ASSUME NEW s \in Tests, s.rel = 0, NEW lo \in Int, NEW hi \in Int, lo <= 0, 0 <= hi
  PROVE  Gone(s, lo, hi)
<1>1. 0 \in lo..hi /\ s.way * 0 = 0
  BY SMT DEF Tests, Ways
<1>2. Around(s.way * 0) = 0
  BY <1>1 DEF Around
<1> QED BY <1>1, <1>2 DEF Gone

\* The true read keeps what is known, one step on.
LEMMA TrueRead ==
  ASSUME NEW m, NEW n \in Nat, Moving(m, n)
  PROVE  LET r == Read(m, m.rel)
         IN  Orderly(r) /\ Right(r) /\ OnTime(r, n + 1)
<1> DEFINE r == Read(m, m.rel)
           d == m.rel
<1>1. m \in Tests /\ m.test /\ m.dir = 0 /\ (m.pwm => m.phase = 2) /\ d \in 0..(Turn - 1) /\ m.phase \in 0..4
  BY DEF Moving, Tests
<1>2. /\ Orderly(r) /\ r.way = m.way /\ r.bad = m.bad /\ r.fair = m.fair
      /\ m.phase = 0 => r.test /\ r.phase = 1 /\ r.rel = (m.rel - d) % Turn /\ r.dir = 0
      /\ m.phase = 1 =>
           /\ r.test /\ r.rel = (m.rel - d) % Turn /\ r.dir = 0
           /\ IF Mag(Diff(d)) <= Quarter THEN r.phase = 2 /\ r.pwm ELSE r.phase = 1
      /\ m.phase = 2 =>
           IF Mag(Diff(d)) > Detect
           THEN r.test /\ r.phase = 3 /\ r.candidate = Sign(Diff(d)) /\ r.rel = m.rel /\ r.dir = 0
           ELSE r = m
      /\ m.phase \in 3..4 =>
           IF ~Confirms(m, d) THEN ~r.test /\ r.phase = m.phase /\ r.dir = 0
           ELSE IF m.phase = 3
           THEN r.test /\ r.phase = 4 /\ r.candidate = m.candidate /\ r.rel = m.rel /\ r.dir = 0
           ELSE ~r.test /\ r.phase = 4 /\ r.dir = m.candidate
  BY <1>1, ReadFields
<1> HIDE DEF r
<1>3. r \in Tests
  BY <1>2 DEF Orderly
<1>4. (m.rel - d) % Turn = 0
  BY <1>1, Rebased
<1>5. CASE m.phase = 0
  BY <1>2, <1>4, <1>5 DEF Moving, Right, OnTime, r
<1>6. CASE m.phase = 1
  <2>1. Mag(Diff(0)) = 0
    BY Gears DEF Diff, Mag
  <2>2. CASE ~(Mag(Diff(d)) <= Quarter)
    <3>1. ~m.fair
      BY <1>6, <2>1, <2>2, Gears DEF Moving
    <3> QED BY <1>2, <1>4, <1>6, <2>2, <3>1 DEF Right, OnTime, r
  <2>3. CASE Mag(Diff(d)) <= Quarter
    <3>1. r.bad <= 1 => Gone(r, Low(r), High(r))
      BY <1>2, <1>3, <1>4, <1>6, GoneNowhere, Gears DEF Low, High
    <3>2. n = 1 => Gone(r, n + 1 - 2, Detect)
      BY <1>2, <1>3, <1>4, <1>6, GoneNowhere, Gears
    <3>3. r.phase = 2 /\ r.pwm /\ r.test /\ r.dir = 0
      BY <1>2, <1>6, <2>3
    <3>4. Right(r)
      BY <3>1, <3>3 DEF Right
    <3>5. r.fair => n = 1 /\ r.bad = 0
      BY <1>2, <1>6 DEF Moving
    <3>6. OnTime(r, n + 1)
      BY <3>2, <3>3, <3>5 DEF OnTime
    <3> QED BY <1>2, <3>4, <3>6 DEF r
  <2> QED BY <2>2, <2>3
<1>7. CASE m.phase = 2
  <2>1. m.bad <= 1 => /\ Mag(Diff(d)) > Detect => Sign(Diff(d)) = m.way
                      /\ ~(Mag(Diff(d)) > Detect) => Gone(m, Low(m), Detect)
    <3> SUFFICES ASSUME m.bad <= 1
                 PROVE  /\ Mag(Diff(d)) > Detect => Sign(Diff(d)) = m.way
                        /\ ~(Mag(Diff(d)) > Detect) => Gone(m, Low(m), Detect)
      OBVIOUS
    <3>1. Gone(m, Low(m), High(m) + Speed)
      BY <1>7 DEF Moving
    <3>2. Low(m) \in Int /\ High(m) + Speed \in Int /\ 1 - Half <= Low(m) /\ High(m) + Speed < Half
      BY <1>1, Bounds, Gears
    <3>3. Detect \in Nat /\ -Detect <= Low(m)
      BY Gears DEF Low
    <3> QED BY <1>1, <3>1, <3>2, <3>3, SeenForward
  <2>2. m.fair => /\ m.bad = 0 /\ m.pwm /\ n >= 2 /\ n <= Detect + 2
                  /\ Gone(m, n - 1, Detect + Speed)
                  /\ Mag(Diff(d)) > Detect => Gone(m, Detect + 1, Detect + Speed)
                  /\ ~(Mag(Diff(d)) > Detect) => Gone(m, n - 1, Detect)
    <3> SUFFICES ASSUME m.fair
                 PROVE  /\ m.bad = 0 /\ m.pwm /\ n >= 2 /\ n <= Detect + 2
                        /\ Gone(m, n - 1, Detect + Speed)
                        /\ Mag(Diff(d)) > Detect => Gone(m, Detect + 1, Detect + Speed)
                        /\ ~(Mag(Diff(d)) > Detect) => Gone(m, n - 1, Detect)
      OBVIOUS
    <3>1. m.bad = 0 /\ m.pwm /\ n >= 2 /\ n <= Detect + 2 /\ Gone(m, n - 1, Detect + Speed)
      BY <1>7 DEF Moving
    <3>2. ~(Mag(Diff(d)) > Detect) => Gone(m, n - 1, Detect)
      BY <1>1, <3>1, SeenForward, Gears
    <3>3. Mag(Diff(d)) > Detect => Gone(m, Detect + 1, Detect + Speed)
      <4> SUFFICES ASSUME Mag(Diff(d)) > Detect PROVE Gone(m, Detect + 1, Detect + Speed)
        OBVIOUS
      <4>1. PICK x \in (n - 1)..(Detect + Speed) : m.rel = Around(m.way * x)
        BY <3>1 DEF Gone
      <4>2. m.way \in Ways /\ x \in Int /\ x \in (1 - Half)..(Half - 1)
        BY <1>1, <3>1, Gears DEF Tests
      <4>3. Mag(x) > Detect
        BY <4>1, <4>2, GoneRead, WayTimes
      <4>4. x \in (Detect + 1)..(Detect + Speed)
        BY <3>1, <4>1, <4>3, Gears DEF Mag
      <4> QED BY <4>1, <4>4 DEF Gone
    <3> QED BY <3>1, <3>2, <3>3
  <2>3. CASE Mag(Diff(d)) > Detect
    <3>1. r.test /\ r.phase = 3 /\ r.candidate = Sign(Diff(d)) /\ r.rel = m.rel /\ r.dir = 0
      BY <1>2, <1>7, <2>3
    <3>2. Right(r)
      BY <1>2, <2>1, <2>3, <3>1 DEF Right
    <3>3. m.fair => Gone(r, Detect + 1, Detect + Speed) /\ n + 1 <= Detect + 3 /\ m.bad <= 1
      BY <1>2, <2>2, <2>3, <3>1, Gears DEF Gone
    <3>4. OnTime(r, n + 1)
      BY <1>2, <2>1, <2>2, <2>3, <3>1, <3>3 DEF OnTime
    <3> QED BY <1>2, <3>2, <3>4 DEF r
  <2>4. CASE ~(Mag(Diff(d)) > Detect)
    <3>1. r = m
      BY <1>2, <1>7, <2>4
    <3>2. m.bad <= 1 => Gone(m, Low(m), High(m))
      <4> SUFFICES ASSUME m.bad <= 1 PROVE Gone(m, Low(m), High(m))
        OBVIOUS
      <4>1. Gone(m, Low(m), Detect)
        BY <2>1, <2>4
      <4>2. Low(m) \in Int /\ High(m) \in Int /\ Detect <= High(m)
        BY <1>1, Bounds, Gears DEF High
      <4> QED BY <4>1, <4>2, GoneWithin, Gears
    <3>3. Right(r)
      BY <1>1, <1>7, <3>1, <3>2 DEF Right
    <3>4. OnTime(r, n + 1)
      BY <1>1, <1>7, <2>2, <2>4, <3>1 DEF OnTime
    <3> QED BY <1>2, <3>3, <3>4 DEF r
  <2> QED BY <2>3, <2>4
<1>8. CASE m.phase \in 3..4
  <2>1. m.bad <= 1 /\ Confirms(m, d) => m.candidate = m.way
    <3> SUFFICES ASSUME m.bad <= 1, Confirms(m, d), m.candidate # m.way PROVE FALSE
      OBVIOUS
    <3>1. m.bad = 1 /\ Gone(m, 0, Detect + Speed)
      BY <1>8 DEF Moving
    <3>2. Mag(Diff(d)) > Quarter => Sign(Diff(d)) = m.way
      BY <1>1, <3>1, SeenForward, Gears
    <3> QED BY <3>2 DEF Confirms
  <2>2. m.fair => Confirms(m, d) /\ n <= Detect + m.phase /\ m.candidate = m.way /\ m.bad = 0
                  /\ Gone(m, Detect + 1, Detect + Speed)
    <3> SUFFICES ASSUME m.fair
                 PROVE  Confirms(m, d) /\ n <= Detect + m.phase /\ m.candidate = m.way /\ m.bad = 0
                        /\ Gone(m, Detect + 1, Detect + Speed)
      OBVIOUS
    <3>1. n <= Detect + m.phase /\ m.candidate = m.way /\ m.bad = 0 /\ Gone(m, Detect + 1, Detect + Speed)
      BY <1>8 DEF Moving
    <3>2. Mag(Diff(d)) > Quarter /\ Sign(Diff(d)) = m.way
      BY <1>1, <3>1, SeenForward, Gears
    <3> QED BY <3>1, <3>2 DEF Confirms
  <2>3. CASE ~Confirms(m, d)
    BY <1>2, <1>8, <2>2, <2>3 DEF Right, OnTime, r
  <2>4. CASE Confirms(m, d) /\ m.phase = 3
    <3>1. r.test /\ r.phase = 4 /\ r.candidate = m.candidate /\ r.rel = m.rel /\ r.dir = 0
      BY <1>2, <2>4
    <3>2. Right(r)
      BY <1>2, <2>1, <2>4, <3>1 DEF Right
    <3>3. m.fair => Gone(r, Detect + 1, Detect + Speed) /\ n + 1 <= Detect + 4
      BY <1>2, <2>2, <2>4, <3>1, Gears DEF Gone
    <3>4. OnTime(r, n + 1)
      BY <1>2, <2>2, <3>1, <3>3 DEF OnTime
    <3> QED BY <1>2, <3>2, <3>4 DEF r
  <2>5. CASE Confirms(m, d) /\ m.phase = 4
    <3>1. ~r.test /\ r.phase = 4 /\ r.dir = m.candidate
      BY <1>2, <2>5
    <3> QED BY <1>2, <2>1, <2>2, <2>5, <3>1 DEF Right, OnTime, r
  <2> QED BY <1>8, <2>3, <2>4, <2>5
<1> QED BY <1>1, <1>5, <1>6, <1>7, <1>8 DEF r

\* A corrupted read: the first one leaves the gear or the candidate in doubt, not both.
LEMMA BadRead ==
  ASSUME NEW m, NEW n \in Nat, Moving(m, n), m.bad # MaxBad, NEW d \in 0..(Turn - 1)
  PROVE  LET r == [Read(m, d) EXCEPT !.bad = @ + 1, !.fair = FALSE]
         IN  Orderly(r) /\ Right(r) /\ OnTime(r, n + 1)
<1> DEFINE q == Read(m, d)
           r == [q EXCEPT !.bad = @ + 1, !.fair = FALSE]
<1>1. m \in Tests /\ m.test /\ m.dir = 0 /\ (m.pwm => m.phase = 2) /\ m.phase \in 0..4 /\ m.bad \in 0..MaxBad
  BY DEF Moving, Tests
<1>2. /\ Orderly(q) /\ q.way = m.way /\ q.bad = m.bad
      /\ m.phase = 0 => q.test /\ q.phase = 1 /\ q.rel = (m.rel - d) % Turn /\ q.dir = 0
      /\ m.phase = 1 =>
           /\ q.test /\ q.rel = (m.rel - d) % Turn /\ q.dir = 0
           /\ IF Mag(Diff(d)) <= Quarter THEN q.phase = 2 /\ q.pwm ELSE q.phase = 1
      /\ m.phase = 2 =>
           IF Mag(Diff(d)) > Detect
           THEN q.test /\ q.phase = 3 /\ q.candidate = Sign(Diff(d)) /\ q.rel = m.rel /\ q.dir = 0
           ELSE q = m
      /\ m.phase \in 3..4 =>
           IF ~Confirms(m, d) THEN ~q.test /\ q.phase = m.phase /\ q.dir = 0
           ELSE IF m.phase = 3
           THEN q.test /\ q.phase = 4 /\ q.candidate = m.candidate /\ q.rel = m.rel /\ q.dir = 0
           ELSE ~q.test /\ q.phase = 4 /\ q.dir = m.candidate
  BY <1>1, ReadFields
<1> HIDE DEF q
<1>3. r \in Tests
  <2>1. q \in Tests /\ q.bad + 1 \in 0..MaxBad /\ FALSE \in BOOLEAN
    BY <1>1, <1>2, Gears DEF Orderly
  <2> QED BY <2>1, Zenon DEF Tests
<1>4. /\ r.bad = m.bad + 1 /\ ~r.fair /\ r.test = q.test /\ r.phase = q.phase /\ r.rel = q.rel
      /\ r.candidate = q.candidate /\ r.dir = q.dir /\ r.pwm = q.pwm /\ r.way = m.way
  BY <1>2 DEF Orderly, Tests
<1> HIDE DEF r
<1>5. Orderly(r)
  BY <1>2, <1>3, <1>4 DEF Orderly
<1>6. OnTime(r, n + 1)
  BY <1>4 DEF OnTime
<1>7. Right(r)
  <2>1. SUFFICES ASSUME r.bad <= 1 PROVE Right(r)
    BY DEF Right
  <2>2. m.bad = 0 /\ r.bad = 1
    BY <1>1, <1>4, <2>1, Gears
  <2>3. CASE m.phase = 0
    BY <1>2, <1>4, <2>2, <2>3 DEF Right
  <2>4. CASE m.phase = 1
    <3>1. m.rel = 0
      BY <2>2, <2>4 DEF Moving
    <3>2. CASE ~(Mag(Diff(d)) <= Quarter)
      BY <1>2, <1>4, <2>2, <2>4, <3>2 DEF Right
    <3>3. CASE Mag(Diff(d)) <= Quarter
      <4>1. r.phase = 2 /\ r.test /\ r.dir = 0 /\ r.rel = (0 - d) % Turn
        BY <1>2, <1>4, <2>4, <3>1, <3>3
      <4>2. PICK y \in -Quarter..Quarter : r.rel = Around(y)
        BY <3>3, <4>1, Rebased
      <4>3. y \in Int /\ r.way \in Ways
        BY <1>3, <4>2, Gears DEF Tests
      <4>4. r.way * y \in -Quarter..(Detect + Speed) /\ r.way * (r.way * y) = y
        BY <4>2, <4>3, Gears, SMT DEF Ways
      <4>5. Gone(r, -Quarter, Detect + Speed)
        BY <4>2, <4>4 DEF Gone
      <4> QED BY <2>2, <4>1, <4>5 DEF Right, Low, High
    <3> QED BY <3>2, <3>3
  <2>5. CASE m.phase = 2
    <3>1. Gone(m, 0, Detect + Speed)
      BY <2>2, <2>5 DEF Moving, Low, High
    <3>2. Gone(r, 0, Detect + Speed) /\ r.dir = 0 /\ r.test /\ r.phase \in {2, 3}
      BY <1>1, <1>2, <1>4, <2>5, <3>1 DEF Gone
    <3>3. Gone(r, -Quarter, Detect + Speed)
      BY <3>2, GoneWithin, Gears
    <3> QED BY <2>2, <3>2, <3>3 DEF Right, Low, High
  <2>6. CASE m.phase \in 3..4
    <3>1. m.candidate = m.way
      BY <2>2, <2>6 DEF Moving
    <3> QED BY <1>2, <1>4, <2>2, <2>6, <3>1 DEF Right
  <2> QED BY <1>1, <2>3, <2>4, <2>5, <2>6
<1> QED BY <1>5, <1>6, <1>7 DEF r, q

\* The sensor is lost.
LEMMA LostRead ==
  ASSUME NEW m, NEW n \in Nat, Moving(m, n)
  PROVE  LET r == [Aborted(m) EXCEPT !.fair = FALSE]
         IN  Orderly(r) /\ Right(r) /\ OnTime(r, n + 1)
<1> DEFINE r == [m EXCEPT !.test = FALSE, !.pwm = FALSE, !.fair = FALSE]
<1>1. m \in Tests /\ m.dir = 0
  BY DEF Moving
<1>2. [Aborted(m) EXCEPT !.fair = FALSE] = r
  BY <1>1 DEF Aborted, Tests
<1>3. r \in Tests
  BY <1>1, Zenon DEF Tests
<1>4. ~r.test /\ ~r.pwm /\ ~r.fair /\ r.bad = m.bad /\ r.rel = m.rel /\ r.phase = m.phase /\ r.dir = 0
  BY <1>1 DEF Tests
<1> HIDE DEF r
<1>5. Orderly(r) /\ OnTime(r, n + 1)
  BY <1>3, <1>4 DEF Orderly, OnTime
<1>6. Right(r)
  BY <1>4 DEF Moving, Right
<1> QED BY <1>2, <1>5, <1>6

LEMMA TestedStep ==
  ASSUME NEW s, NEW n \in Nat, Orderly(s), Right(s), OnTime(s, n), NEW t \in Tested(s)
  PROVE  Orderly(t) /\ Right(t) /\ OnTime(t, n + 1)
<1>1. CASE ~s.test
  <2>1. t = s
    BY <1>1 DEF Tested
  <2> QED BY <1>1, <2>1 DEF OnTime
<1>2. CASE s.test
  <2>1. PICK v \in (IF s.pwm THEN 0..Speed ELSE {0}) :
          LET m == Moved(s, v)
          IN  t \in {Read(m, m.rel), [Aborted(m) EXCEPT !.fair = FALSE]}
                    \cup (IF m.bad = MaxBad THEN {}
                          ELSE {[Read(m, d) EXCEPT !.bad = @ + 1, !.fair = FALSE] : d \in 0..(Turn - 1)})
    BY <1>2 DEF Tested
  <2> DEFINE m == Moved(s, v)
  <2>2. Moving(m, n)
    BY <1>2, MovedMoving
  <2>3. t \in {Read(m, m.rel), [Aborted(m) EXCEPT !.fair = FALSE]}
              \cup (IF m.bad = MaxBad THEN {}
                    ELSE {[Read(m, d) EXCEPT !.bad = @ + 1, !.fair = FALSE] : d \in 0..(Turn - 1)})
    BY <2>1
  <2> HIDE DEF m
  <2>4. CASE t = Read(m, m.rel)
    BY <2>2, <2>4, TrueRead
  <2>5. CASE t = [Aborted(m) EXCEPT !.fair = FALSE]
    BY <2>2, <2>5, LostRead
  <2>6. ASSUME m.bad # MaxBad, NEW d \in 0..(Turn - 1),
               t = [Read(m, d) EXCEPT !.bad = @ + 1, !.fair = FALSE]
        PROVE  Orderly(t) /\ Right(t) /\ OnTime(t, n + 1)
    BY <2>2, <2>6, BadRead
  <2>7. \/ t = Read(m, m.rel) \/ t = [Aborted(m) EXCEPT !.fair = FALSE]
        \/ m.bad # MaxBad /\ \E d \in 0..(Turn - 1) : t = [Read(m, d) EXCEPT !.bad = @ + 1, !.fair = FALSE]
    BY <2>3
  <2> QED BY <2>4, <2>5, <2>6, <2>7
<1> QED BY <1>1, <1>2

-----------------------------------------------------------------------------
LEMMA DirectionInit == TestInit => DirectionInv
<1> SUFFICES ASSUME TestInit PROVE DirectionInv
  OBVIOUS
<1>1. stepped = 0 /\ over = FALSE /\ stepped \in 0..Steps
  BY Gears DEF TestInit
<1>2. ASSUME NEW i \in Motors
      PROVE  Orderly(tests[i]) /\ Right(tests[i]) /\ OnTime(tests[i], 0)
  <2>1. tests[i] \in [test : {TRUE}, phase : {0}, rel : {0}, candidate : {0}, dir : {0},
                      pwm : {FALSE}, way : Ways, bad : {0}, fair : {TRUE}]
    BY <1>2 DEF TestInit
  <2>2. PICK w \in Ways :
          tests[i] = [test |-> TRUE, phase |-> 0, rel |-> 0, candidate |-> 0, dir |-> 0,
                      pwm |-> FALSE, way |-> w, bad |-> 0, fair |-> TRUE]
    BY <2>1
  <2>3. 0 \in 0..4 /\ 0 \in 0..(Turn - 1) /\ 0 \in 0..MaxBad /\ 0 \in {0, 1, -1}
    BY Gears
  <2>4. tests[i] \in Tests
    BY <2>2, <2>3, SMT DEF Tests
  <2>5. /\ tests[i].test /\ tests[i].phase = 0 /\ tests[i].rel = 0 /\ tests[i].dir = 0
        /\ ~tests[i].pwm /\ tests[i].bad = 0
    BY <2>2
  <2> QED BY <2>4, <2>5 DEF Orderly, Right, OnTime
<1> QED BY <1>1, <1>2 DEF DirectionInv

LEMMA StepKeeps == ASSUME DirectionInv, Step PROVE DirectionInv'
<1>1. /\ ~over /\ stepped < Steps /\ stepped' = stepped + 1 /\ over' = over
      /\ \A i \in Motors : tests'[i] \in Tested(tests[i])
  BY DEF Step
<1>2. stepped \in Nat /\ stepped' \in 0..Steps /\ over' \in BOOLEAN
  BY <1>1, Gears DEF DirectionInv
<1>3. ASSUME NEW i \in Motors
      PROVE  Orderly(tests'[i]) /\ Right(tests'[i]) /\ OnTime(tests'[i], stepped')
  <2>1. Orderly(tests[i]) /\ Right(tests[i]) /\ OnTime(tests[i], stepped)
    BY <1>1 DEF DirectionInv
  <2> QED BY <1>1, <1>2, <2>1, TestedStep
<1> QED BY <1>1, <1>2, <1>3 DEF DirectionInv

\* A gear that is on time is found before the last step.
LEMMA FoundInTime ==
  ASSUME NEW s, NEW n \in Nat, Orderly(s), OnTime(s, n), s.fair, s.test
  PROVE  n < Detect + 5
<1>1. s.phase \in 0..4
  BY DEF Orderly, Tests
<1>2. CASE s.phase = 2
  BY <1>2, Gears DEF OnTime, Gone
<1> QED BY <1>1, <1>2, Gears DEF OnTime

LEMMA EndKeeps == ASSUME DirectionInv, End PROVE DirectionInv'
<1>1. /\ ~over /\ (stepped = Steps \/ \A i \in Motors : ~tests[i].test)
      /\ over' = TRUE /\ stepped' = stepped /\ tests' = [i \in Motors |-> Halted(tests[i])]
  BY DEF End
<1>2. stepped \in Nat /\ stepped \in 0..Steps
  BY Gears DEF DirectionInv
<1>3. ASSUME NEW i \in Motors
      PROVE  /\ Orderly(tests'[i]) /\ Right(tests'[i]) /\ ~tests'[i].pwm
             /\ tests'[i].fair /\ Steps >= Detect + 5 => tests'[i].dir = tests'[i].way
  <2> DEFINE s == tests[i]
             t == tests'[i]
  <2>1. Orderly(s) /\ Right(s) /\ OnTime(s, stepped) /\ s \in Tests
    BY <1>1 DEF DirectionInv, Orderly
  <2>2. t = IF s.test THEN [s EXCEPT !.pwm = FALSE] ELSE s
    BY <1>1 DEF Halted
  <2> HIDE DEF s, t
  <2>3. t \in Tests
    <3>1. CASE s.test
      <4>1. t = [s EXCEPT !.pwm = FALSE]
        BY <2>2, <3>1
      <4> QED BY <2>1, <4>1, Zenon DEF Tests
    <3> QED BY <2>1, <2>2, <3>1
  <2>4. /\ t.test = s.test /\ t.phase = s.phase /\ t.rel = s.rel /\ t.candidate = s.candidate
        /\ t.dir = s.dir /\ t.way = s.way /\ t.bad = s.bad /\ t.fair = s.fair /\ ~t.pwm
    BY <2>1, <2>2 DEF Orderly, Tests
  <2>5. Orderly(t)
    BY <2>1, <2>3, <2>4 DEF Orderly
  <2>6. Right(t)
    BY <2>1, <2>4 DEF Right, Gone, Low, High
  <2>7. s.fair /\ Steps >= Detect + 5 => s.dir = s.way
    <3> SUFFICES ASSUME s.fair, Steps >= Detect + 5 PROVE s.dir = s.way
      OBVIOUS
    <3>1. CASE s.test
      <4>1. stepped = Steps
        BY <1>1, <3>1 DEF s
      <4> QED BY <1>2, <2>1, <3>1, <4>1, FoundInTime, Gears
    <3>2. CASE ~s.test
      BY <2>1, <3>2 DEF OnTime
    <3> QED BY <3>1, <3>2
  <2> QED BY <2>4, <2>5, <2>6, <2>7 DEF t
<1> QED BY <1>1, <1>2, <1>3 DEF DirectionInv

LEMMA DirectionStep == DirectionInv /\ [TestNext]_testVars => DirectionInv'
<1> SUFFICES ASSUME DirectionInv, [TestNext]_testVars PROVE DirectionInv'
  OBVIOUS
<1>1. CASE UNCHANGED testVars
  BY <1>1 DEF testVars, DirectionInv
<1> QED BY <1>1, StepKeeps, EndKeeps DEF TestNext

LEMMA InvIsRight == DirectionInv => DirectionTypeOK /\ DirectionIsRight
<1> SUFFICES ASSUME DirectionInv PROVE DirectionTypeOK /\ DirectionIsRight
  OBVIOUS
<1>1. \A i \in Motors : Orderly(tests[i]) /\ Right(tests[i]) /\ tests[i] \in Tests
  BY DEF DirectionInv, Orderly
<1>2. DirectionTypeOK
  BY <1>1 DEF DirectionInv, DirectionTypeOK, Orderly, Tests, Ways
<1>3. RightDirection
  BY <1>1 DEF RightDirection, Right
<1>4. EndsBraked /\ FreeGearIsFound
  BY DEF DirectionInv, EndsBraked, FreeGearIsFound
<1> QED BY <1>2, <1>3, <1>4 DEF DirectionIsRight

(* No channel with one corrupted read is given a wrong direction, none is   *)
(* left running, and a gear that turns freely and reads true is always      *)
(* found (MOTOR_get_dir), for every turn, speed, threshold and number of    *)
(* steps that leave the detection less than half a turn away.               *)
THEOREM DirectionsAreRight == TestSpec => []DirectionIsRight
  BY DirectionInit, DirectionStep, InvIsRight, PTL DEF TestSpec

-----------------------------------------------------------------------------
(* The load gesture, for every number of channels, every choice of its times *)
(* and any gap between two passes.                                          *)
Gestures == [step : 0..2, t0 : Nat, active : BOOLEAN, since : Nat]
Histories == [loose : Nat, most : Nat, span : Nat, down : [Channels -> Nat]]

TypeInv ==
  /\ gap \in 0..MaxGap
  /\ gst \in [Channels -> Gestures]
  /\ hist \in Histories

(* A pretence is older than its time only by what has passed since the last *)
(* pass; a gesture that has begun is not younger than the last press seen.  *)
PretenceInv == \A c \in Channels : gst[c].active => gst[c].since <= Load + gap
PressInv == \A c \in Channels : gst[c].step # 0 => hist.down[c] <= gst[c].t0

Inv == TypeInv /\ PretenceInv /\ PressInv

LEMMA Numbers == Hold \in Nat /\ Settle \in Nat /\ Return \in Nat /\ Load \in Nat /\ Stale \in Nat /\ MaxGap \in Nat
BY GestureAssumption

(* The records that the code makes of a gesture. *)
LEMMA Restarted ==
  ASSUME NEW g \in Gestures, NEW a \in 0..2, NEW h, h = [g EXCEPT !.step = a, !.t0 = 0]
  PROVE  h \in Gestures /\ h.step = a /\ h.t0 = 0 /\ h.active = g.active /\ h.since = g.since
<1>1. \A b \in Nat : [g EXCEPT !.step = a, !.t0 = b] \in Gestures
  BY Zenon DEF Gestures
<1>2. [g EXCEPT !.step = a, !.t0 = 0] \in Gestures
  <2>1. 0 \in Nat
    OBVIOUS
  <2> QED BY <1>1, <2>1, Zenon
<1> QED BY <1>2 DEF Gestures

LEMMA StoppedGesture ==
  ASSUME NEW g \in Gestures
  PROVE  /\ Stopped(g) \in Gestures /\ Stopped(g).step = g.step /\ Stopped(g).t0 = g.t0
         /\ Stopped(g).active = FALSE
<1>1. \A v \in BOOLEAN, n \in Nat : [g EXCEPT !.active = v, !.since = n] \in Gestures
  BY Zenon DEF Gestures
<1>2. Stopped(g) \in Gestures
  <2>1. 0 \in Nat /\ FALSE \in BOOLEAN
    OBVIOUS
  <2> QED BY <1>1, <2>1, Zenon DEF Stopped
<1> QED BY <1>2 DEF Gestures, Stopped

(* A gesture that is not complete, after a pass. *)
LEMMA ArmedGesture ==
  ASSUME NEW g \in Gestures, NEW x, ~g.active
  PROVE  /\ Armed(g, x) \in Gestures
         /\ Armed(g, x).active => g.step = 2 /\ g.t0 <= Return /\ Armed(g, x).since = 0
         /\ Armed(g, x).step # 0 => \/ x.hand = "down"
                                    \/ g.step # 0 /\ Armed(g, x).t0 = g.t0
<1> USE Numbers
<1>0. /\ g.step \in 0..2 /\ g.t0 \in Nat /\ g.since \in Nat /\ g.active = FALSE
      /\ g = [step |-> g.step, t0 |-> g.t0, active |-> g.active, since |-> g.since]
  BY DEF Gestures
<1>1. CASE g.step = 0
  <2>1. Armed(g, x) = IF x.hand = "down" THEN [g EXCEPT !.step = 1, !.t0 = 0] ELSE g
    BY <1>1 DEF Armed
  <2>2. CASE x.hand = "down"
    <3>1. Armed(g, x) = [g EXCEPT !.step = 1, !.t0 = 0] /\ 1 \in 0..2
      BY <2>1, <2>2
    <3>2. Armed(g, x) \in Gestures /\ Armed(g, x).active = g.active
      BY <1>0, <3>1, Restarted, Zenon
    <3> QED BY <1>0, <2>2, <3>2
  <2>3. CASE x.hand # "down"
    BY <1>0, <1>1, <2>1, <2>3
  <2> QED BY <2>2, <2>3
<1>2. CASE g.step = 1
  <2>1. Armed(g, x) = IF x.hand \in {"down", "low"}
                      THEN IF g.t0 >= Settle THEN [g EXCEPT !.step = 2] ELSE g
                      ELSE [g EXCEPT !.step = 0, !.t0 = 0]
    BY <1>2 DEF Armed
  <2>2. CASE x.hand \in {"down", "low"} /\ g.t0 >= Settle
    BY <1>0, <1>2, <2>1, <2>2 DEF Gestures
  <2>3. CASE x.hand \in {"down", "low"} /\ ~(g.t0 >= Settle)
    BY <1>0, <1>2, <2>1, <2>3
  <2>4. CASE x.hand \notin {"down", "low"}
    <3>1. Armed(g, x) = [g EXCEPT !.step = 0, !.t0 = 0] /\ 0 \in 0..2
      BY <2>1, <2>4
    <3>2. Armed(g, x) \in Gestures /\ Armed(g, x).active = g.active /\ Armed(g, x).step = 0
      BY <1>0, <3>1, Restarted, Zenon
    <3> QED BY <1>0, <3>2
  <2> QED BY <2>2, <2>3, <2>4
<1>3. CASE g.step = 2
  <2>1. Armed(g, x) = IF g.t0 > Return THEN [g EXCEPT !.step = 0, !.t0 = 0]
                      ELSE IF x.hand = "rest" THEN [Idle EXCEPT !.active = TRUE] ELSE g
    BY <1>3 DEF Armed, Late
  <2>2. CASE g.t0 > Return
    <3>1. Armed(g, x) = [g EXCEPT !.step = 0, !.t0 = 0] /\ 0 \in 0..2
      BY <2>1, <2>2
    <3>2. Armed(g, x) \in Gestures /\ Armed(g, x).active = g.active /\ Armed(g, x).step = 0
      BY <1>0, <3>1, Restarted, Zenon
    <3> QED BY <1>0, <3>2
  <2>3. CASE ~(g.t0 > Return) /\ x.hand = "rest"
    <3>1. Armed(g, x) = [Idle EXCEPT !.active = TRUE] /\ Idle \in Gestures
      BY <2>1, <2>3 DEF Idle, Gestures
    <3>2. Armed(g, x) \in Gestures /\ Armed(g, x).step = 0 /\ Armed(g, x).since = 0
      BY <3>1 DEF Idle, Gestures
    <3> QED BY <1>0, <1>3, <2>3, <3>2
  <2>4. CASE ~(g.t0 > Return) /\ x.hand # "rest"
    BY <1>0, <1>3, <2>1, <2>4
  <2> QED BY <2>2, <2>3, <2>4
<1> QED BY <1>0, <1>1, <1>2, <1>3

(* What a gesture is after a pass. *)
LEMMA GestureAfter ==
  ASSUME TypeInv, NEW c \in Channels
  PROVE  /\ Gesture(c) \in Gestures
         /\ Gesture(c).active => Gesture(c).since <= Load
         /\ Gesture(c).active /\ ~gst[c].active => gst[c].step = 2 /\ gst[c].t0 <= Return
         /\ Gesture(c).step # 0 => \/ shown[c].hand = "down"
                                   \/ gst[c].step # 0 /\ Gesture(c).t0 = gst[c].t0
<1> DEFINE free == IF latch[c] THEN Idle ELSE gst[c]
           armed == IF free.active THEN free ELSE Armed(free, shown[c])
<1>1. Idle \in Gestures /\ Idle.step = 0 /\ Idle.active = FALSE
  BY DEF Idle, Gestures
<1>2. /\ free \in Gestures
      /\ free.active => gst[c].active
      /\ free.step # 0 => free = gst[c]
  BY <1>1 DEF TypeInv
<1>3. /\ armed \in Gestures
      /\ armed.active /\ ~gst[c].active => free.step = 2 /\ free.t0 <= Return
      /\ armed.step # 0 => \/ shown[c].hand = "down"
                           \/ free.step # 0 /\ armed.t0 = free.t0
  <2>1. CASE free.active
    BY <1>2, <2>1
  <2>2. CASE ~free.active
    BY <1>2, <2>2, ArmedGesture
  <2> QED BY <2>1, <2>2
<1>4. Gesture(c) = Ended(armed, shown[c])
  BY DEF Gesture
<1> HIDE DEF free, armed
<1>5. /\ Ended(armed, shown[c]) \in Gestures
      /\ Ended(armed, shown[c]).active => armed.active /\ Ended(armed, shown[c]).since <= Load
      /\ Ended(armed, shown[c]).step = armed.step /\ Ended(armed, shown[c]).t0 = armed.t0
  <2>1. CASE armed.active /\ (shown[c].key = 1 \/ armed.since > Load)
    <3>1. Ended(armed, shown[c]) = Stopped(armed)
      BY <2>1 DEF Ended
    <3> QED BY <1>3, <3>1, StoppedGesture
  <2>2. CASE ~(armed.active /\ (shown[c].key = 1 \/ armed.since > Load))
    <3>1. Ended(armed, shown[c]) = armed
      BY <2>2 DEF Ended
    <3> QED BY <1>3, <2>2, <3>1, Numbers DEF Gestures
  <2> QED BY <2>1, <2>2
<1> QED BY <1>2, <1>3, <1>4, <1>5

LEMMA InitInv == Init => Inv
<1> SUFFICES ASSUME Init PROVE Inv
  OBVIOUS
<1> USE Numbers
<1>1. gap = 0 /\ gst = [c \in Channels |-> Idle] /\ hist = Clean
  BY DEF Init
<1>2. TypeInv
  BY <1>1 DEF TypeInv, Idle, Clean, Gestures, Histories
<1>3. PretenceInv /\ PressInv
  BY <1>1 DEF PretenceInv, PressInv, Idle
<1> QED BY <1>2, <1>3 DEF Inv

LEMMA TickInv == Inv /\ Tick => Inv'
<1> SUFFICES ASSUME Inv, Tick PROVE Inv'
  OBVIOUS
<1> USE Numbers
<1>0. TypeInv /\ PretenceInv /\ PressInv
  BY DEF Inv
<1>a. /\ gap < MaxGap /\ gap' = gap + 1 /\ gap \in Nat /\ gap' \in Nat /\ gap' <= MaxGap
  <2>1. gap < MaxGap /\ gap' = gap + 1
    BY DEF Tick
  <2> QED BY <1>0, <2>1 DEF TypeInv
<1>1. gst' = [c \in Channels |-> [gst[c] EXCEPT !.t0 = IF gst[c].step = 0 THEN 0 ELSE Capped(@, Return + 1),
                                            !.since = IF gst[c].active THEN Capped(@, SinceMost) ELSE 0]]
  BY DEF Tick
<1>2. PICK loose \in Nat, most \in Nat, span \in Nat :
        hist' = [hist EXCEPT !.loose = loose, !.most = most, !.span = span,
                             !.down = [c \in Channels |-> Capped(@[c], Return + 1)]]
  <2> DEFINE loose == IF LooseNow(world') THEN Capped(hist.loose, LooseMost) ELSE 0
             most == IF loose > hist.most THEN loose ELSE hist.most
             span == IF hold.ch = None THEN 0 ELSE Capped(hist.span, Hold)
  <2>1. loose \in Nat /\ most \in Nat /\ span \in Nat
    BY <1>0 DEF Capped, TypeInv, Histories, LooseMost
  <2>2. hist' = [hist EXCEPT !.loose = loose, !.most = most, !.span = span,
                             !.down = [c \in Channels |-> Capped(@[c], Return + 1)]]
    BY DEF Tick
  <2> HIDE DEF loose, most, span
  <2> QED BY <2>1, <2>2
<1>3. ASSUME NEW c \in Channels
      PROVE  /\ gst'[c] \in Gestures
             /\ gst'[c].active = gst[c].active /\ gst'[c].step = gst[c].step
             /\ gst[c].active => gst'[c].since <= gst[c].since + 1
             /\ gst[c].step # 0 => gst'[c].t0 = Capped(gst[c].t0, Return + 1)
  <2>1. gst[c] \in Gestures /\ gst[c].t0 \in Nat /\ gst[c].since \in Nat /\ SinceMost \in Nat
    BY <1>0 DEF TypeInv, Gestures, SinceMost
  <2>2. /\ Capped(gst[c].t0, Return + 1) \in Nat
        /\ Capped(gst[c].since, SinceMost) \in Nat /\ Capped(gst[c].since, SinceMost) <= gst[c].since + 1
    BY <2>1 DEF Capped
  <2>3. gst'[c] = [gst[c] EXCEPT !.t0 = IF gst[c].step = 0 THEN 0 ELSE Capped(@, Return + 1),
                                 !.since = IF gst[c].active THEN Capped(@, SinceMost) ELSE 0]
    BY <1>1
  <2> DEFINE b == IF gst[c].step = 0 THEN 0 ELSE Capped(gst[c].t0, Return + 1)
             n == IF gst[c].active THEN Capped(gst[c].since, SinceMost) ELSE 0
  <2>4. b \in Nat /\ n \in Nat /\ gst'[c] = [gst[c] EXCEPT !.t0 = b, !.since = n]
    BY <2>2, <2>3
  <2>5. (gst[c].active => n <= gst[c].since + 1) /\ (gst[c].step # 0 => b = Capped(gst[c].t0, Return + 1))
    BY <2>2
  <2> HIDE DEF b, n
  <2>6. /\ gst'[c] \in Gestures /\ gst'[c].step = gst[c].step /\ gst'[c].t0 = b
        /\ gst'[c].active = gst[c].active /\ gst'[c].since = n
    <3>1. PICK g \in Gestures : g = gst[c]
      BY <2>1
    <3>2. PICK h : h = gst'[c]
      OBVIOUS
    <3>3. h = [g EXCEPT !.t0 = b, !.since = n] /\ b \in Nat /\ n \in Nat
      BY <2>4, <3>1, <3>2, Zenon
    <3>4. \A p, q \in Nat : [g EXCEPT !.t0 = p, !.since = q] \in Gestures
      BY Zenon DEF Gestures
    <3>5. h \in Gestures
      BY <3>3, <3>4, Zenon
    <3>6. h.step = g.step /\ h.t0 = b /\ h.active = g.active /\ h.since = n
      BY <3>3 DEF Gestures
    <3> QED BY <3>1, <3>2, <3>5, <3>6, Zenon
  <2> QED BY <2>5, <2>6
<1>4. ASSUME NEW c \in Channels
      PROVE  hist'.down[c] = Capped(hist.down[c], Return + 1) /\ hist'.down[c] \in Nat
  BY <1>0, <1>2 DEF Capped, TypeInv, Histories
<1>5. hist' \in Histories
  <2>1. \A c \in Channels : Capped(hist.down[c], Return + 1) \in Nat
    BY <1>0 DEF Capped, TypeInv, Histories
  <2> QED BY <1>0, <1>2, <2>1 DEF TypeInv, Histories
<1>6. TypeInv'
  <2>1. gst' \in [Channels -> Gestures]
    BY <1>1, <1>3
  <2> QED BY <1>a, <1>5, <2>1 DEF TypeInv
<1>7. PretenceInv'
  <2> SUFFICES ASSUME NEW c \in Channels, gst'[c].active PROVE gst'[c].since <= Load + gap'
    BY DEF PretenceInv
  <2>1. gst[c].active /\ gst'[c].since <= gst[c].since + 1 /\ gst[c].since \in Nat /\ gst'[c].since \in Nat
    BY <1>0, <1>3 DEF TypeInv, Gestures
  <2>2. gst[c].since <= Load + gap
    BY <1>0, <2>1 DEF PretenceInv
  <2> QED BY <1>a, <2>1, <2>2
<1>8. PressInv'
  <2> SUFFICES ASSUME NEW c \in Channels, gst'[c].step # 0 PROVE hist'.down[c] <= gst'[c].t0
    BY DEF PressInv
  <2>1. /\ gst[c].step # 0 /\ hist.down[c] \in Nat /\ gst[c].t0 \in Nat
        /\ gst'[c].t0 = Capped(gst[c].t0, Return + 1)
        /\ hist'.down[c] = Capped(hist.down[c], Return + 1)
    BY <1>0, <1>3, <1>4 DEF TypeInv, Gestures, Histories
  <2> QED BY <1>0, <2>1 DEF Capped, PressInv
<1> QED BY <1>6, <1>7, <1>8 DEF Inv

LEMMA PassInv ==
  ASSUME Inv, NEW idle \in BOOLEAN, NEW failed \in [Channels -> BOOLEAN], Pass(idle, failed)
  PROVE  Inv' /\ \A c \in Channels : ~gst[c].active /\ gst'[c].active => hist.down[c] <= Return
<1> USE Numbers
<1>0. TypeInv /\ PretenceInv /\ PressInv
  BY DEF Inv
<1>1. gap' = 0 /\ gst' = [c \in Channels |-> Gesture(c)]
  BY DEF Pass
<1>2. /\ hist' \in Histories
      /\ \A c \in Channels : hist'.down[c] = IF shown[c].hand = "down" THEN 0 ELSE hist.down[c]
  BY <1>0 DEF Pass, TypeInv, Histories
<1>3. TypeInv'
  BY <1>0, <1>1, <1>2, GestureAfter DEF TypeInv
<1>4. PretenceInv'
  BY <1>0, <1>1, GestureAfter DEF PretenceInv
<1>5. PressInv'
  <2> SUFFICES ASSUME NEW c \in Channels, gst'[c].step # 0 PROVE hist'.down[c] <= gst'[c].t0
    BY DEF PressInv
  <2>1. gst'[c] = Gesture(c) /\ gst'[c].t0 \in Nat
    BY <1>0, <1>1, GestureAfter DEF Gestures
  <2>2. CASE shown[c].hand = "down"
    BY <1>2, <2>1, <2>2
  <2>3. CASE gst[c].step # 0 /\ Gesture(c).t0 = gst[c].t0 /\ shown[c].hand # "down"
    BY <1>0, <1>2, <2>1, <2>3 DEF PressInv
  <2> QED BY <1>0, <2>1, <2>2, <2>3, GestureAfter
<1>6. ASSUME NEW c \in Channels, ~gst[c].active, gst'[c].active PROVE hist.down[c] <= Return
  <2>1. gst[c].step = 2 /\ gst[c].t0 <= Return
    BY <1>0, <1>1, <1>6, GestureAfter
  <2>2. hist.down[c] <= gst[c].t0 /\ hist.down[c] \in Nat /\ gst[c].t0 \in Nat
    BY <1>0, <2>1 DEF PressInv, TypeInv, Gestures, Histories
  <2> QED BY <2>1, <2>2
<1> QED BY <1>3, <1>4, <1>5, <1>6 DEF Inv

LEMMA GestureRest == Inv /\ (Cleared \/ ClearFails \/ UNCHANGED vars) => Inv' /\ UNCHANGED gst
<1> SUFFICES ASSUME Inv, Cleared \/ ClearFails \/ UNCHANGED vars PROVE Inv' /\ UNCHANGED gst
  OBVIOUS
<1>1. /\ UNCHANGED <<gap, gst>>
      /\ hist' = hist \/ hist' = [hist EXCEPT !.loose = 0, !.most = 0, !.span = 0]
  BY DEF Cleared, ClearFails, vars
<1>2. hist' \in Histories /\ hist'.down = hist.down
  <2>1. hist \in Histories
    BY DEF Inv, TypeInv
  <2>2. \A a, b, d \in Nat : [hist EXCEPT !.loose = a, !.most = b, !.span = d] \in Histories
    BY <2>1, Zenon DEF Histories
  <2>3. 0 \in Nat
    OBVIOUS
  <2>4. hist' \in Histories
    BY <1>1, <2>1, <2>2, <2>3, Zenon
  <2> QED BY <1>1, <2>1, <2>4 DEF Histories
<1> QED BY <1>1, <1>2 DEF Inv, TypeInv, PretenceInv, PressInv

(* What a step may start. *)
LEMMA StepInv ==
  ASSUME Inv, [Next]_vars
  PROVE  Inv' /\ \A c \in Channels : ~gst[c].active /\ gst'[c].active => hist.down[c] <= Return
<1>1. CASE Tick
  <2>1. Inv'
    BY <1>1, TickInv
  <2>2. ASSUME NEW c \in Channels PROVE gst'[c].active = gst[c].active
    <3>1. gst[c] \in Gestures
      BY DEF Inv, TypeInv
    <3>2. gst'[c] = [gst[c] EXCEPT !.t0 = IF gst[c].step = 0 THEN 0 ELSE Capped(@, Return + 1),
                                   !.since = IF gst[c].active THEN Capped(@, SinceMost) ELSE 0]
      BY <1>1 DEF Tick
    <3> QED BY <3>1, <3>2 DEF Gestures
  <2> QED BY <2>1, <2>2
<1>2. CASE SomePass
  <2>1. PICK idle \in BOOLEAN, failed \in [Channels -> BOOLEAN] : Pass(idle, failed)
    BY <1>2 DEF SomePass
  <2> QED BY <2>1, PassInv
<1>3. CASE Cleared \/ ClearFails \/ UNCHANGED vars
  BY <1>3, GestureRest
<1> QED BY <1>1, <1>2, <1>3 DEF Next

THEOREM InvAlways == Spec => []Inv
<1>1. Inv /\ [Next]_vars => Inv'
  BY StepInv
<1> QED BY <1>1, InitInv, PTL DEF Spec

(* A pretended filament is gone Load after the gesture and one gap between  *)
(* passes, whatever the times, the readings and the hand.                   *)
THEOREM PretencesEnd == Spec => []PretenceEnds
<1>1. Inv => PretenceEnds
  <2> SUFFICES ASSUME Inv, NEW c \in Channels, gst[c].active PROVE gst[c].since <= Load + MaxGap
    BY DEF PretenceEnds
  <2>1. gst[c].since \in Nat /\ gap \in 0..MaxGap /\ gst[c].since <= Load + gap
    BY DEF Inv, TypeInv, PretenceInv, Gestures
  <2> QED BY <2>1, Numbers
<1> QED BY <1>1, InvAlways, PTL

(* A load starts only within Return of a reading that had the buffer down.  *)
THEOREM LoadsFollowPresses == Spec => LoadFollowsPress
<1>1. Inv /\ [Next]_vars =>
        [\A c \in Channels : ~gst[c].active /\ gst'[c].active => hist.down[c] <= Return]_vars
  BY StepInv
<1> QED BY <1>1, InvAlways, PTL DEF Spec, LoadFollowsPress

(* The gesture asks for what the hand did, and for no longer.               *)
THEOREM LoadGestureTrue == Spec => LoadGestureIsTrue
  BY PretencesEnd, LoadsFollowPresses DEF LoadGestureIsTrue

-----------------------------------------------------------------------------
(* The press that clears, for every choice of the times and any gap.       *)

Shows(h) == Pressed(shown[h.ch]) /\ Empty(shown)

Holdings == [ch : Channels \cup {None}, t : 0..Hold]

(* A hold is as long as its history says.  While the last readings show the *)
(* press, what has been loose since is no older than they are; a loose      *)
(* spell that no readings can have hidden is still going on.                *)
HeldInv ==
  /\ hold \in Holdings /\ age \in Nat
  /\ hold.ch # None =>
       /\ hist.span = hold.t
       /\ Shows(hold) /\ age <= Stale => hist.loose <= age
       /\ hist.loose <= Stale + gap
       /\ hist.most < LooseMost \/ hist.loose = LooseMost
  /\ at # "run" => hist.most < LooseMost /\ hist.span >= Hold

(* The channel of a press that a pass goes by is one that is pressed. *)
LEMMA FirstPressed ==
  ASSUME Presses # {}
  PROVE  First \in Calibrated /\ Pressed(shown[First])
<1>1. Presses \subseteq Nat
  BY GestureAssumption DEF Presses
<1>2. \E c \in Presses : \A d \in Presses : c <= d
  BY <1>1, MinExists
<1>3. First \in Presses
  BY <1>2, Zenon DEF First
<1> QED
  BY <1>3 DEF Presses

(* A hold that goes on after a pass was shown by it. *)
LEMMA HoldAfter ==
  ASSUME TypeInv, HeldInv, NEW keys, keys = [c \in Channels |-> Seen(Gesture(c), shown[c])]
  PROVE  /\ Holds(keys) \in Holdings
         /\ Holds(keys).ch # None =>
              /\ Shows(Holds(keys)) /\ age <= Stale
              /\ \/ Holds(keys) = hold
                 \/ Holds(keys).t = 0 /\ Holds(keys).ch # hold.ch
<1>1. None \notin Nat /\ Channels \subseteq Nat /\ Calibrated \subseteq Channels /\ Hold \in Nat
  BY GestureAssumption DEF None
<1>2. CASE ~MayHold(keys) \/ Presses = {}
  <2>1. Holds(keys) = NoHold
    BY <1>2 DEF Holds
  <2> QED
    BY <1>1, <2>1 DEF NoHold, Holdings
<1>3. CASE MayHold(keys) /\ Presses # {}
  <2>1. First \in Channels /\ Pressed(shown[First])
    BY <1>1, <1>3, FirstPressed
  <2>2. Empty(shown) /\ age <= Stale
    <3>1. \A c \in Channels : keys[c] = 0
      BY <1>3 DEF MayHold
    <3>2. \A c \in Channels : shown[c].key = 0
      BY <3>1 DEF Seen
    <3> QED
      BY <1>3, <3>2 DEF Empty, MayHold
  <2>3. Holds(keys) = IF hold.ch = First THEN hold ELSE [ch |-> First, t |-> 0]
    BY <1>3 DEF Holds
  <2>4. hold \in Holdings /\ [ch |-> First, t |-> 0] \in Holdings
    BY <1>1, <2>1 DEF Holdings, HeldInv
  <2>5. CASE hold.ch = First
    BY <2>1, <2>2, <2>3, <2>4, <2>5 DEF Shows
  <2>6. CASE hold.ch # First
    <3>1. Holds(keys) = [ch |-> First, t |-> 0]
      BY <2>3, <2>6
    <3> QED
      BY <2>1, <2>2, <2>4, <2>6, <3>1 DEF Shows
  <2> QED
    BY <2>5, <2>6
<1> QED
  BY <1>2, <1>3

LEMMA HeldStart == Init => HeldInv
BY Numbers, GestureAssumption DEF Init, HeldInv, Holdings, NoHold, None, Clean, Empty

LEMMA HeldTick ==
  ASSUME TypeInv, HeldInv, Tick
  PROVE  HeldInv'
<1> USE Numbers
<1> DEFINE loose == IF LooseNow(world') THEN Capped(hist.loose, LooseMost) ELSE 0
           most  == IF loose > hist.most THEN loose ELSE hist.most
           span  == IF hold.ch = None THEN 0 ELSE Capped(hist.span, Hold)
           time  == IF hold.ch = None THEN hold.t ELSE Capped(hold.t, Hold)
<1>1. /\ at = "run" /\ at' = "run" /\ gap < MaxGap /\ gap' = gap + 1 /\ gap \in Nat /\ MaxGap \in Nat
  <2>1. at = "run" /\ at' = at /\ gap < MaxGap /\ gap' = gap + 1
    BY Zenon DEF Tick
  <2>2. gap \in Nat
    BY DEF TypeInv
  <2> QED
    BY <2>1, <2>2
<1>2. /\ hist.loose \in Nat /\ hist.most \in Nat /\ hist.span \in Nat /\ hist \in Histories
      /\ hold \in Holdings /\ hold.t \in 0..Hold /\ age \in Nat
  BY DEF TypeInv, Histories, HeldInv, Holdings
<1>3. hist'.loose = loose /\ hist'.most = most /\ hist'.span = span
  BY <1>2 DEF Tick, Histories
<1>4. hold' = [ch |-> hold.ch, t |-> time]
  BY <1>2 DEF Tick, Holdings
<1>5. time \in 0..Hold /\ (hold.ch # None /\ hist.span = hold.t => span = time)
  BY <1>2 DEF Capped
<1>6. \/ shown' = world' /\ age' = 0
      \/ shown' = shown /\ age' = Capped(age, OldAge)
  BY DEF Tick
<1>7. age' \in Nat /\ (age' <= Stale => age' = 0 \/ age' = age + 1)
  BY <1>2, <1>6 DEF Capped, OldAge
<1>8. hold' \in Holdings /\ hold'.ch = hold.ch /\ hold'.t = time
  BY <1>2, <1>4, <1>5 DEF Holdings
<1> HIDE DEF span, time
<1>9. ASSUME hold'.ch # None
      PROVE  /\ hist'.span = hold'.t
             /\ Shows(hold)' /\ age' <= Stale => hist'.loose <= age'
             /\ hist'.loose <= Stale + gap'
             /\ hist'.most < LooseMost \/ hist'.loose = LooseMost
  <2>1. /\ hist.span = hold.t
        /\ Shows(hold) /\ age <= Stale => hist.loose <= age
        /\ hist.loose <= Stale + gap
        /\ hist.most < LooseMost \/ hist.loose = LooseMost
    BY <1>8, <1>9 DEF HeldInv
  <2>2. LooseMost = Stale + MaxGap /\ loose \in Nat /\ loose <= hist.loose + 1
    BY <1>2 DEF LooseMost, Capped
  <2>3. hist.most < LooseMost /\ loose <= Stale + gap'
    BY <1>1, <1>2, <2>1, <2>2
  <2>4. hist'.most < LooseMost \/ hist'.loose = LooseMost
    <3>1. loose <= LooseMost
      BY <1>1, <2>2, <2>3
    <3> QED
      BY <1>2, <1>3, <2>2, <2>3, <3>1
  <2>5. Shows(hold)' /\ age' <= Stale => hist'.loose <= age'
    <3> SUFFICES ASSUME Shows(hold)', age' <= Stale PROVE loose <= age'
      BY <1>3
    <3>1. CASE shown' = world' /\ age' = 0
      <4>1. ~LooseNow(world')
        BY <1>8, <3>1 DEF Shows, LooseNow
      <4> QED
        BY <3>1, <4>1
    <3>2. CASE shown' = shown /\ age' = Capped(age, OldAge)
      <4>1. Shows(hold)
        BY <1>8, <3>2 DEF Shows
      <4>2. age' = age + 1 /\ age <= Stale
        BY <1>2, <3>2 DEF Capped, OldAge
      <4> QED
        BY <1>2, <2>1, <2>2, <4>1, <4>2
    <3> QED
      BY <1>6, <3>1, <3>2
  <2>6. hist'.loose <= Stale + gap'
    BY <1>3, <2>3
  <2>7. hist'.span = hold'.t
    BY <1>3, <1>5, <1>8, <1>9, <2>1
  <2> QED
    BY <2>4, <2>5, <2>6, <2>7
<1> QED
  BY <1>1, <1>7, <1>8, <1>9 DEF HeldInv

LEMMA HeldPass ==
  ASSUME TypeInv, HeldInv, NEW idle \in BOOLEAN, NEW failed \in [Channels -> BOOLEAN], Pass(idle, failed)
  PROVE  HeldInv'
<1> USE Numbers
<1> DEFINE h == Holds(key')
           due == hold.ch # None /\ h.ch = hold.ch /\ h.t >= Hold
           kept == h.ch = hold.ch /\ h.t > 0
<1>1. /\ gap > 0 /\ gap' = 0 /\ gap \in 0..MaxGap /\ at = "run" /\ shown' = shown /\ age' = age
      /\ gst' = [c \in Channels |-> Gesture(c)] /\ key' = [c \in Channels |-> Seen(gst'[c], shown[c])]
  BY DEF Pass, TypeInv
<1>2. key' = [c \in Channels |-> Seen(Gesture(c), shown[c])]
  BY <1>1
<1>3. /\ h \in Holdings
      /\ h.ch # None => /\ Shows(h) /\ age <= Stale
                        /\ h = hold \/ (h.t = 0 /\ h.ch # hold.ch)
  BY <1>2, HoldAfter
<1>4. /\ hist.loose \in Nat /\ hist.most \in Nat /\ hist.span \in Nat /\ hist \in Histories
      /\ hold \in Holdings /\ age \in Nat /\ h.t \in Nat
  BY <1>3 DEF TypeInv, Histories, HeldInv, Holdings
<1>5. /\ hold' = h /\ at' = (IF due /\ idle THEN "clear" ELSE "run")
      /\ hist'.loose = (IF kept THEN hist.loose ELSE 0)
      /\ hist'.most = (IF kept THEN hist.most ELSE 0)
      /\ hist'.span = (IF h.ch = hold.ch THEN hist.span ELSE 0)
  BY <1>4 DEF Pass, Histories
<1>6. Shows(hold)' <=> Shows(h)
  BY <1>1, <1>5 DEF Shows, Empty
<1> HIDE DEF h
<1>7. ASSUME h.ch # None
      PROVE  /\ hist'.span = h.t /\ hist'.loose <= age /\ age <= Stale /\ hist'.most < LooseMost
  <2>1. LooseMost = Stale + MaxGap /\ MaxGap \in Nat /\ MaxGap > 0
    BY <1>1 DEF LooseMost
  <2>2. CASE h = hold
    <3>1. /\ hist.span = hold.t /\ hist.loose <= age /\ age <= Stale
          /\ hist.most < LooseMost \/ hist.loose = LooseMost
      BY <1>3, <1>7, <2>2 DEF HeldInv
    <3>2. hist.most < LooseMost
      BY <1>4, <2>1, <3>1
    <3> QED
      BY <1>4, <1>5, <2>1, <2>2, <3>1, <3>2
  <2>3. CASE h.t = 0 /\ h.ch # hold.ch
    BY <1>3, <1>4, <1>5, <1>7, <2>1, <2>3
  <2> QED
    BY <1>3, <1>7, <2>2, <2>3
<1>8. at' # "run" => hist'.most < LooseMost /\ hist'.span >= Hold
  <2> SUFFICES ASSUME due PROVE hist'.most < LooseMost /\ hist'.span >= Hold
    BY <1>5
  <2> QED
    BY <1>4, <1>7
<1> QED
  BY <1>1, <1>3, <1>4, <1>5, <1>6, <1>7, <1>8 DEF HeldInv

LEMMA HeldRest == TypeInv /\ HeldInv /\ (Cleared \/ ClearFails \/ UNCHANGED vars) => HeldInv'
<1> SUFFICES ASSUME TypeInv, HeldInv, Cleared \/ ClearFails \/ UNCHANGED vars PROVE HeldInv'
  OBVIOUS
<1>1. CASE Cleared
  BY <1>1 DEF Cleared, HeldInv, Shows, Empty
<1>2. CASE ClearFails
  BY <1>2, Numbers DEF ClearFails, HeldInv, Holdings, NoHold
<1>3. CASE UNCHANGED vars
  BY <1>3 DEF vars, HeldInv, Shows, Empty
<1> QED
  BY <1>1, <1>2, <1>3

LEMMA HeldStep == TypeInv /\ HeldInv /\ [Next]_vars => HeldInv'
<1> SUFFICES ASSUME TypeInv, HeldInv, [Next]_vars PROVE HeldInv'
  OBVIOUS
<1>1. CASE SomePass
  <2>1. PICK idle \in BOOLEAN, failed \in [Channels -> BOOLEAN] : Pass(idle, failed)
    BY <1>1 DEF SomePass
  <2> QED
    BY <2>1, HeldPass
<1> QED
  BY <1>1, HeldTick, HeldRest DEF Next

(* What clears the calibration was a press that nobody let go, nor put a    *)
(* filament in, for as long as old readings and a gap can hide.             *)
THEOREM ClearsAreHeld == Spec => []ClearIsAHeldPress
<1>1. Inv => TypeInv
  BY DEF Inv
<1>2. HeldInv => ClearIsAHeldPress
  BY DEF HeldInv, ClearIsAHeldPress
<1> QED
  BY <1>1, <1>2, InvAlways, HeldStart, HeldStep, PTL DEF Spec
=============================================================================
