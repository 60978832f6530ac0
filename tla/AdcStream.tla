------------------------------ MODULE AdcStream ------------------------------
(***************************************************************************)
(* The stream of buffer and switch readings (ADC_DMA.cpp, adc_stream.h):   *)
(* the DMA fills a buffer of two halves on its own, ADC_DMA_poll takes the *)
(* halves whose flags are set into an average of the last NBlocks, and     *)
(* Motion_control_run stops the motors and restarts the stream when no     *)
(* half comes any more.                                                    *)
(*                                                                         *)
(* Time is counted in halves (1.19 ms).  The hardware goes on between any  *)
(* two steps of the program.  The boot has found the stream alive and has  *)
(* filled the average.                                                     *)
(***************************************************************************)
EXTENDS Integers, Sequences, SequencesExt

CONSTANTS NBlocks,      \* ADC_DMA_FILTER_BLOCKS
          Stale,        \* ADC_STREAM_STALE_MS
          Restart,      \* ADC_STREAM_RESTART_MS
          MaxGap,       \* bound: time from one judgement of the stream to the next
          Sums          \* bound: the sums a half can have

ASSUME StreamAssumption ==
  /\ NBlocks \in Nat \ {0} /\ Stale \in Nat /\ Restart \in Nat /\ MaxGap \in Nat \ {0}
  /\ Stale < Restart
  /\ Sums \subseteq Nat /\ Sums # {}

Halves == {0, 1}

VARIABLES
  runs, begun,      \* the conversions and the DMA go on; a half is being filled from its start
  fills,            \* the half being filled
  buf,              \* the sums in the buffer
  flags, te,        \* the halves whose flags are set (HT1, TC1), and the error flag (TE1)
  ring, idx, acc, scale,    \* g_ring_sum, g_ring_idx, g_acc_sum, g_blocks_filled (behind g_scale)
  dirty,            \* g_acc_dirty
  value,            \* g_v: the sum and the count it is divided by
  halfAge,          \* now - g_half_ticks
  restartAge,       \* now - g_restart_ticks
  at, guard,        \* where the pass is; turns of ADC_DMA_poll's loop
  stale,            \* g_adc_stale
  inPass,           \* bound: a half has ended since the pass began, which takes less than two
  gap,              \* time since the stream was judged
  recent,           \* ghost: the sums taken since the ring was reset, the last NBlocks
  bufAge, seenAge, shownAge,    \* ghost: how old the halves in the buffer, the newest one taken
                                \* and the newest one in the readings are
  dropped,          \* ghost: halves were taken that no reading has shown, and dropped by a restart
  live              \* ghost: how long the stream has run without a fault or a restart

dma    == <<runs, begun, fills, buf, flags, te>>
filter == <<ring, idx, acc, scale, dirty, recent, dropped>>
times  == <<halfAge, restartAge, gap, bufAge, seenAge, shownAge, live, inPass>>
vars   == <<dma, filter, value, at, guard, stale, times>>

\* Ages are counted up to a bound past all limits.
Cap == Restart + 2 * MaxGap + 1
Older(age) == IF age < Cap THEN age + 1 ELSE age
Total(s) == FoldSeq(LAMBDA x, y : x + y, 0, s)

Init ==
  /\ runs = TRUE /\ begun = TRUE /\ fills = 0
  /\ buf \in [Halves -> Sums] /\ flags = {} /\ te = FALSE
  /\ \E s \in Sums : /\ ring = [i \in 1 .. NBlocks |-> s]
                     /\ recent = ring
                     /\ acc = NBlocks * s
  /\ idx = 1 /\ scale = NBlocks /\ dirty = FALSE
  /\ value = [sum |-> acc, count |-> scale]
  /\ halfAge = 0 /\ restartAge = 0 /\ gap = 0
  /\ bufAge = [h \in Halves |-> 0] /\ seenAge = 0 /\ shownAge = 0 /\ live = 0 /\ dropped = FALSE /\ inPass = FALSE
  /\ at = "rest" /\ guard = 0 /\ stale = FALSE

-----------------------------------------------------------------------------
(* The hardware.                                                           *)

\* The time of a half passes; a stream that runs completes the half it fills.
Tick ==
  /\ gap < MaxGap /\ gap' = gap + 1
  /\ at # "rest" => ~inPass
  /\ inPass' = (at # "rest")
  /\ halfAge' = Older(halfAge) /\ restartAge' = Older(restartAge)
  /\ seenAge' = Older(seenAge) /\ shownAge' = Older(shownAge) /\ live' = IF runs THEN Older(live) ELSE 0
  /\ IF runs /\ begun
     THEN /\ \E s \in Sums : buf' = [buf EXCEPT ![fills] = s]
          /\ flags' = flags \cup {fills} /\ fills' = 1 - fills
          /\ bufAge' = [h \in Halves |-> IF h = fills THEN 0 ELSE Older(bufAge[h])]
     ELSE /\ bufAge' = [h \in Halves |-> Older(bufAge[h])]
          /\ UNCHANGED <<buf, flags, fills>>
  /\ begun' = runs
  /\ UNCHANGED <<runs, te, filter, value, at, guard, stale>>

\* The conversions stop, or the DMA with a transfer error.
Fault ==
  /\ runs /\ runs' = FALSE
  /\ te' \in BOOLEAN
  /\ live' = 0
  /\ UNCHANGED <<begun, fills, buf, flags, filter, value, at, guard, stale,
                 halfAge, restartAge, gap, bufAge, seenAge, shownAge, inPass>>

-----------------------------------------------------------------------------

\* Variant for mutation: what was to be published still is.
RingResetStillDirty ==
  /\ ring' = [i \in 1 .. NBlocks |-> 0] /\ idx' = 1 /\ acc' = 0 /\ scale' = 0
  /\ recent' = << >>
  /\ UNCHANGED <<dirty, dropped>>

\* ring_reset: the readings keep their last values.
RingReset ==
  /\ ring' = [i \in 1 .. NBlocks |-> 0] /\ idx' = 1 /\ acc' = 0 /\ scale' = 0
  /\ dirty' = FALSE
  /\ recent' = << >> /\ dropped' = (dropped \/ dirty)

\* adc_dma_restart: from the start of the buffer, all flags clear; the ADCs may still be dead.
adc_dma_restart(works) ==
  /\ runs' = works /\ begun' = FALSE /\ fills' = 0 /\ flags' = {} /\ te' = FALSE
  /\ live' = 0
  /\ RingReset
  /\ restartAge' = 0
  /\ UNCHANGED <<buf, bufAge, seenAge, shownAge, halfAge>>

\* process_half_update_filter.
Take(h) ==
  /\ flags' = flags \ {h}
  /\ ring' = [ring EXCEPT ![idx] = buf[h]]
  /\ acc' = acc - ring[idx] + buf[h]
  /\ idx' = IF idx = NBlocks THEN 1 ELSE idx + 1
  /\ scale' = IF scale < NBlocks THEN scale + 1 ELSE scale
  /\ dirty' = TRUE
  /\ recent' = IF Len(recent) = NBlocks THEN Append(Tail(recent), buf[h])
               ELSE Append(recent, buf[h])
  /\ seenAge' = IF bufAge[h] < seenAge THEN bufAge[h] ELSE seenAge
  /\ halfAge' = 0
  /\ UNCHANGED <<dropped, runs, begun, fills, buf, te, restartAge, bufAge, shownAge, live>>

\* ADC_DMA_poll, one turn of its loop.
Poll(works) ==
  /\ at = "poll"
  /\ UNCHANGED <<value, stale, gap, inPass>>
  /\ \/ /\ te
        /\ adc_dma_restart(works) /\ at' = "publish" /\ guard' = 0
     \/ /\ ~te /\ flags # {}
        /\ Take(IF 0 \in flags THEN 0 ELSE 1)
        /\ IF guard = 3 THEN at' = "publish" /\ guard' = 0 ELSE guard' = guard + 1 /\ UNCHANGED at
     \/ /\ ~te /\ flags = {}
        /\ at' = "publish" /\ guard' = 0
        /\ UNCHANGED <<dma, filter, halfAge, restartAge, bufAge, seenAge, shownAge, live>>

\* ADC_DMA_get_value.
Publish ==
  /\ at = "publish" /\ at' = "judge"
  /\ IF dirty THEN value' = [sum |-> acc, count |-> scale] /\ shownAge' = seenAge
     ELSE UNCHANGED <<value, shownAge>>
  /\ dirty' = FALSE
  /\ dropped' = (dropped /\ ~dirty)
  /\ UNCHANGED <<dma, ring, idx, acc, scale, recent, guard, stale,
                 halfAge, restartAge, gap, bufAge, seenAge, live, inPass>>

\* adc_stream_restart_due.
RestartDue == halfAge > Restart /\ restartAge > Restart

\* Motion_control_run: the age, and the restart of a stale stream.
Judge(works) ==
  /\ at = "judge" /\ at' = "rest"
  /\ stale' = (halfAge > Stale)
  /\ IF stale' /\ RestartDue
     THEN adc_dma_restart(works)
     ELSE UNCHANGED <<dma, filter, halfAge, restartAge, bufAge, seenAge, shownAge, live>>
  /\ gap' = 0 /\ inPass' = FALSE
  /\ UNCHANGED <<value, guard>>

\* The next pass.
Pass == at = "rest" /\ at' = "poll" /\ UNCHANGED <<dma, filter, value, guard, stale, times>>

Next == Tick \/ Fault \/ Pass \/ Publish \/ \E works \in BOOLEAN : Poll(works) \/ Judge(works)

Spec == Init /\ [][Next]_vars

-----------------------------------------------------------------------------
TypeOK ==
  /\ runs \in BOOLEAN /\ begun \in BOOLEAN /\ fills \in Halves
  /\ buf \in [Halves -> Sums] /\ flags \subseteq Halves /\ te \in BOOLEAN
  /\ ring \in [1 .. NBlocks -> Sums \cup {0}] /\ idx \in 1 .. NBlocks
  /\ acc \in Nat /\ scale \in 0 .. NBlocks /\ dirty \in BOOLEAN
  /\ dropped \in BOOLEAN
  /\ inPass \in BOOLEAN
  /\ at \in {"rest", "poll", "publish", "judge"} /\ guard \in 0 .. 3 /\ stale \in BOOLEAN
  /\ halfAge \in 0 .. Cap /\ restartAge \in 0 .. Cap /\ gap \in 0 .. MaxGap

\* The sum kept up to date half by half is that of the halves since the last restart, and the
\* scale counts just these, wherever in a poll the stream broke.
AverageIsOfRecent == acc = Total(recent) /\ scale = Len(recent)

\* The readings are never an average of nothing: a restart in the middle of a poll that had
\* taken a half publishes no zero, which would read as an empty switch.
ReadingsAreReal == value.count > 0

\* The motors run on readings of the last Stale halves and three passes at most, whatever the
\* stream does and however often it is restarted in vain; but for halves that came together
\* with the error of their stream.
DrivesOnRecent == at = "rest" /\ ~stale /\ ~dropped => shownAge <= Stale + 2 * MaxGap + gap

\* A stream that has run for longer than two passes is not called stale, however late the pass.
LiveIsNotStale == [][at = "judge" /\ at' = "rest" /\ live > 2 * MaxGap => ~stale']_vars

FairSpec ==
  /\ Spec
  /\ WF_vars(Tick) /\ WF_vars(Pass) /\ WF_vars(Publish)
  /\ WF_vars(\E works \in BOOLEAN : Poll(works)) /\ WF_vars(\E works \in BOOLEAN : Judge(works))
  /\ SF_vars(te /\ Poll(TRUE)) /\ SF_vars(halfAge > Stale /\ RestartDue /\ Judge(TRUE))

\* Once the hardware has no more faults, and does start when it is restarted again and again,
\* the readings come back for good.
StreamComesBack == <>[][~Fault]_vars => <>[]~stale
==============================================================================
