------------------------------- MODULE NvStore -------------------------------
(***************************************************************************)
(* What a journal of the NVM sector promises to the rest of the firmware:  *)
(* a set of registers, written one at a time in the background, whose      *)
(* stored value after a power cut at any moment is the old one or the new  *)
(* one.  FlashSaves implements it twice: once for the four filament        *)
(* records, once for the loaded-channel log.                               *)
(***************************************************************************)
CONSTANTS Regs,      \* the registers
          Vals,      \* what a register can hold
          NoPending  \* no write under way

VARIABLES stored,   \* what a boot would find now
          known,    \* what the firmware believes is stored
          pending,  \* the write under way, <<register, value>>
          stuck     \* no further write until the next boot

vars == <<stored, known, pending, stuck>>

TypeOK ==
  /\ stored \in [Regs -> Vals]
  /\ known \in [Regs -> Vals]
  /\ pending \in (Regs \X Vals) \cup {NoPending}
  /\ stuck \in BOOLEAN

Init ==
  /\ stored \in [Regs -> Vals]
  /\ known = stored
  /\ pending = NoPending
  /\ stuck = FALSE

Committed == [stored EXCEPT ![pending[1]] = pending[2]]

\* A write is accepted only when no other is under way.
Queue ==
  /\ pending = NoPending
  /\ ~stuck
  /\ \E r \in Regs, v \in Vals : pending' = <<r, v>>
  /\ UNCHANGED <<stored, known, stuck>>

\* The one moment at which the stored value changes.
Commit ==
  /\ pending # NoPending
  /\ stored' = Committed
  /\ UNCHANGED <<known, pending, stuck>>

\* The firmware learns of it, and may then write again.
Acknowledge ==
  /\ pending # NoPending
  /\ ~stuck
  /\ stored = Committed
  /\ known' = [known EXCEPT ![pending[1]] = pending[2]]
  /\ pending' = NoPending
  /\ UNCHANGED <<stored, stuck>>

\* The flash misbehaved: writing stops, the write under way may be dropped.
Stick ==
  /\ stuck' = TRUE
  /\ pending' \in {pending, NoPending}
  /\ UNCHANGED <<stored, known>>

\* Power is lost, and the next boot reads the old or the new value.
Crash ==
  /\ stored' \in {stored} \cup (IF pending = NoPending THEN {} ELSE {Committed})
  /\ known' = stored'
  /\ pending' = NoPending
  /\ stuck' = FALSE

Next == Queue \/ Commit \/ Acknowledge \/ Stick \/ Crash

Spec == Init /\ [][Next]_vars
==============================================================================
