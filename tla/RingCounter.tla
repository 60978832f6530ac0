---------------------------- MODULE RingCounter ----------------------------
(***************************************************************************)
(* How many bytes the receive DMA has written: rx_produced() makes it from *)
(* the counter of the channel, its flag of a completed round and the count *)
(* of rounds the interrupt keeps, one read after the other while the       *)
(* hardware goes on; bus_rx_poll() reads the ring up to it                 *)
(* (_bus_hardware.cpp).                                                    *)
(*                                                                         *)
(* Positions are kept modulo CountRange (2^32 in the code).  Of the        *)
(* hardware it is assumed that the flag is set when the counter reaches    *)
(* zero or with its reload, and that the interrupt is served within a      *)
(* round (18 ms).                                                          *)
(***************************************************************************)
EXTENDS Integers

CONSTANTS Size,   \* RX_SIZE
          Rounds, \* CountRange = Size * Rounds
          Every,  \* the drain samples again every so many bytes: 128
          Ahead   \* bound: bytes not read yet

ASSUME RingAssumption ==
  /\ Size \in Nat /\ Rounds \in Nat /\ Every \in Nat \ {0} /\ Ahead \in Nat
  /\ Size > 1 /\ Rounds > 2 /\ Ahead < Size * (Rounds - 1)

CountRange == Size * Rounds

VARIABLES remaining, \* DMA1_Channel5->CNTR
          flag,      \* DMA1_FLAG_TC5
          late,      \* the flag of this round is set with the reload
          paced,     \* the line takes longer for a byte than the drain for one of the ring
          wraps,     \* rx_wraps
          unread,    \* bytes the DMA has written and the drain not taken
          consumed,  \* rx_consumed
          produced,  \* the last sample
          end,       \* where the drain of this poll ends
          step,      \* the main loop
          before, read, retry, \* locals of rx_produced
          since,     \* history: bytes since the sample began
          quiet      \* history: no byte came since the poll began or the drain took one

hw   == <<remaining, flag, late, paced>>
loop == <<consumed, produced, end, step, before, read, retry>>
ringVars == <<hw, wraps, unread, loop, since, quiet>>

Sampling == {"before", "remaining", "after"}
Masked   == step \in Sampling   \* interrupts are off

RingInit ==
  /\ paced \in BOOLEAN
  /\ remaining = Size /\ flag = FALSE /\ late = FALSE /\ wraps = 0
  /\ unread = 0 /\ consumed = 0 /\ produced = 0
  /\ step = "poll" /\ before = FALSE /\ read = 0 /\ retry = 0 /\ since = 0 /\ quiet = TRUE /\ end = 0
-----------------------------------------------------------------------------
(* The hardware writes a byte. *)
Byte ==
  /\ remaining > 0 /\ unread < Ahead
  /\ remaining = 1 => ~flag
  /\ paced /\ step # "poll" => quiet
  /\ quiet' = FALSE
  /\ remaining' = remaining - 1
  /\ late' \in IF remaining = 1 THEN BOOLEAN ELSE {FALSE}
  /\ flag' = (flag \/ (remaining = 1 /\ ~late'))
  /\ unread' = unread + 1
  /\ since' = IF Masked \/ step = "sampled" THEN since + 1 ELSE 0
  /\ UNCHANGED <<paced, wraps, loop>>

Reload ==
  /\ remaining = 0
  /\ remaining' = Size /\ flag' = (flag \/ late) /\ late' = FALSE
  /\ UNCHANGED <<paced, wraps, unread, loop, since, quiet>>

DMA1_Channel5_IRQHandler ==
  /\ flag /\ ~Masked
  /\ flag' = FALSE /\ wraps' = (wraps + 1) % Rounds
  /\ UNCHANGED <<remaining, late, paced, unread, loop, since, quiet>>
-----------------------------------------------------------------------------
(* rx_produced.  The drain calls it too, every so many bytes. *)
rx_produced == step' = "before" /\ retry' = 0 /\ since' = 0

Poll ==
  /\ step = "poll" /\ rx_produced /\ quiet' = TRUE /\ end' = consumed
  /\ UNCHANGED <<hw, wraps, unread, consumed, produced, before, read>>

ReadBefore ==
  /\ step = "before" /\ step' = "remaining"
  /\ before' = flag
  /\ UNCHANGED <<hw, wraps, unread, consumed, produced, end, read, retry, since, quiet>>

ReadRemaining ==
  /\ step = "remaining" /\ step' = "after"
  /\ read' = remaining
  /\ UNCHANGED <<hw, wraps, unread, consumed, produced, end, before, retry, since, quiet>>

(* Mutant: the flag is read once. *)
TornReload(b, r, a) == r = 0

Torn(b, r, a) == b # a \/ r = 0

Count(r, a) == ((wraps + (IF a THEN 1 ELSE 0)) * Size + Size - r) % CountRange

ReadAfter ==
  /\ step = "after"
  /\ IF ~Torn(before, read, flag) THEN produced' = Count(read, flag) /\ step' = "sampled" /\ UNCHANGED retry
     ELSE IF retry < 3 THEN retry' = retry + 1 /\ step' = "before" /\ UNCHANGED produced
     ELSE produced' = consumed /\ step' = "sampled" /\ UNCHANGED retry
  /\ UNCHANGED <<hw, wraps, unread, consumed, end, before, read, since, quiet>>

Overrun(n) == n >= Size

(* A ring that was overrun is restarted, with nothing in it; else the drain *)
(* begins, or goes on to where it was to end.                               *)
Sampled ==
  /\ step = "sampled"
  /\ IF Overrun((produced - consumed) % CountRange)
     THEN /\ step' = "poll" /\ remaining' = Size /\ flag' = FALSE /\ late' = FALSE
          /\ wraps' = 0 /\ consumed' = 0 /\ produced' = 0 /\ end' = 0 /\ unread' = 0 /\ since' = 0
     ELSE /\ IF end = consumed THEN step' = "drain" /\ end' = produced ELSE step' = "take" /\ UNCHANGED end
          /\ since' = 0
          /\ UNCHANGED <<hw, wraps, unread, consumed, produced>>
  /\ UNCHANGED <<paced, before, read, retry, quiet>>

Look ==
  /\ step = "drain" /\ consumed # end /\ consumed % Every = 0 /\ rx_produced
  /\ UNCHANGED <<hw, wraps, unread, consumed, produced, end, before, read, quiet>>

Take ==
  /\ step = "take" \/ (step = "drain" /\ consumed # end /\ consumed % Every # 0)
  /\ step' = "drain" /\ quiet' = TRUE
  /\ consumed' = (consumed + 1) % CountRange /\ unread' = unread - 1
  /\ UNCHANGED <<hw, wraps, produced, end, before, read, retry, since>>

Drained ==
  /\ step = "drain" /\ consumed = end /\ step' = "poll"
  /\ UNCHANGED <<hw, wraps, unread, consumed, produced, end, before, read, retry, since, quiet>>

RingNext ==
  \/ Byte \/ Reload \/ DMA1_Channel5_IRQHandler
  \/ Poll \/ ReadBefore \/ ReadRemaining \/ ReadAfter \/ Sampled \/ Look \/ Take \/ Drained

RingSpec == RingInit /\ [][RingNext]_ringVars
-----------------------------------------------------------------------------
RingTypeOK ==
  /\ paced \in BOOLEAN
  /\ remaining \in 0..Size /\ flag \in BOOLEAN /\ late \in BOOLEAN /\ wraps \in 0..(Rounds - 1)
  /\ unread \in 0..Ahead /\ consumed \in 0..(CountRange - 1) /\ produced \in 0..(CountRange - 1)
  /\ step \in Sampling \cup {"poll", "sampled", "drain", "take"} /\ end \in 0..(CountRange - 1)
  /\ before \in BOOLEAN /\ read \in 0..Size /\ retry \in 0..3 /\ since \in 0..Ahead /\ quiet \in BOOLEAN

(* A sample is a number of bytes that had been written at some moment while *)
(* it was taken, or it was given up and says that nothing is new.           *)
SampleIsTrue ==
  step = "sampled" =>
    \/ produced = consumed
    \/ \E n \in (unread - since)..unread : produced = (consumed + n) % CountRange

(* On a line slower than the drain a byte of the ring is taken before the   *)
(* DMA writes over it, and never one it has not written.                    *)
TakesWhatIsThere == Take /\ paced => unread \in 1..Size

(* What is taken from the ring is what the line has sent.                   *)
RingIsTrue == [][SampleIsTrue' /\ TakesWhatIsThere]_ringVars
=============================================================================
