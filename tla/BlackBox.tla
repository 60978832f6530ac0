------------------------------- MODULE BlackBox -------------------------------
(***************************************************************************)
(* The fault record in the backup registers (blackbox.h, watchdog.cpp): a   *)
(* boot writes the header of its run, the main loop its phase and longest   *)
(* pass, a trap its place and cause, all by plain stores of 16 bits, and a  *)
(* reset of any kind may come between any two of them.                      *)
(*                                                                         *)
(* A check word is modelled by the words it is the check of; that the check *)
(* of other words comes out as the same number is left out.                 *)
(***************************************************************************)
EXTENDS Naturals, Sequences

CONSTANTS
  HalfRange, \* values of one half of a value of 32 bits
  Phases,    \* blackbox_phase, "boot" left out
  Places,    \* values of mepc, as their two halves
  Causes,    \* codes of mcause
  ResetsMax  \* BLACKBOX_RESETS_MAX

ASSUME BlackBoxAssumption ==
  /\ HalfRange \in Nat \ {0} /\ ResetsMax \in Nat \ {0} /\ "boot" \notin Phases
  /\ Places \subseteq (0..(HalfRange - 1)) \X (0..(HalfRange - 1))

VARIABLES bkp,    \* the backup registers
          flags,  \* RCC_RSTSCKR
          cpu,    \* the running boot: where it is and what it holds in RAM
          own,    \* history: what the run whose record is in bkp really did
          earlier  \* history: did the run whose record the boot found trap?

boxVars == <<bkp, flags, cpu, own, earlier>>

Flags == {"por", "pin", "iwdg"}
Halves == 0..(HalfRange - 1)
Number(p) == p[1] + HalfRange * p[2]

-----------------------------------------------------------------------------
(* The words, in their order. *)
Words == <<"magic", "reset", "check", "phase", "lo", "hi", "pcLo", "pcHi", "cause", "trapCheck">>

NoWord == [set |-> {}, n |-> 0]
Ones == [set |-> Flags, n |-> ResetsMax]
NoCause == "none"
NoTrapCheck == <<>>

(* A cold domain: zeros, whose check would be that of ones. *)
Cold == [magic |-> FALSE, reset |-> NoWord, check |-> Ones, phase |-> "none", lo |-> 0, hi |-> 0,
         pcLo |-> 0, pcHi |-> 0, cause |-> NoCause, trapCheck |-> NoTrapCheck]

blackbox_decode(w) ==
  LET valid == w.magic /\ w.check = w.reset
  IN [valid   |-> valid,
      resets  |-> w.reset.n,
      flags   |-> w.reset.set,
      phase   |-> w.phase,
      pass    |-> Number(<<w.lo, w.hi>>),
      trapped |-> valid /\ w.trapCheck = <<w.pcLo, w.pcHi, w.cause>>,
      pc      |-> <<w.pcLo, w.pcHi>>,
      cause   |-> w.cause]

ResetsNext(last, rst) ==
  IF "por" \in rst THEN 0
  ELSE IF ~last.valid THEN 1
  ELSE IF last.resets < ResetsMax THEN last.resets + 1 ELSE ResetsMax

blackbox_boot_words(last, rst) ==
  LET reset == [set |-> rst, n |-> ResetsNext(last, rst)]
  IN [Cold EXCEPT !.magic = TRUE, !.reset = reset, !.check = reset, !.phase = "boot"]

BOOT_STORES == Len(Words) + 1

\* Variant for mutation: the words in their order, the magic among them.
StoredInOrder(w, next, k) ==
  IF k < Len(Words) THEN [w EXCEPT ![Words[k + 1]] = next[Words[k + 1]]] ELSE w

(* Store k of the boot: the magic is cleared first and written last. *)
blackbox_boot_store(w, next, k) ==
  IF k = 0 THEN [w EXCEPT !.magic = FALSE]
  ELSE IF k < Len(Words) THEN [w EXCEPT ![Words[k + 1]] = next[Words[k + 1]]]
  ELSE [w EXCEPT !.magic = next.magic]

blackbox_boot_flash(last, rst) ==
  IF "iwdg" \notin rst THEN "none" ELSE IF last.trapped THEN "trap" ELSE "watchdog"

-----------------------------------------------------------------------------
NoRun == [known |-> FALSE, flags |-> {}, phase |-> "none", longest |-> 0,
          trapped |-> FALSE, pc |-> <<0, 0>>, cause |-> NoCause]

(* at: the step main() or the trap handler is about to take; the counter of *)
(* its stores; clocked: the backup domain can be written; iwdg: the         *)
(* watchdog runs; rst, next, flash: of the boot; max: the longest pass.     *)
Reset0 == [at |-> "take", k |-> 0, clocked |-> FALSE, iwdg |-> FALSE, rst |-> {}, next |-> Cold,
           flash |-> "none", max |-> 0, pc |-> <<0, 0>>, cause |-> NoCause]

BoxInit ==
  /\ bkp = Cold /\ flags = {"por"} /\ cpu = Reset0 /\ own = NoRun /\ earlier = FALSE

(* The next boot sees only its own reset. *)
watchdog_reset_flags_take ==
  /\ cpu.at = "take"
  /\ cpu' = [cpu EXCEPT !.at = "boot", !.rst = flags] /\ flags' = {}
  /\ UNCHANGED <<bkp, own, earlier>>

(* blackbox_boot, up to its stores. *)
BootRead ==
  /\ cpu.at = "boot"
  /\ LET last == blackbox_decode(bkp)
     IN cpu' = [cpu EXCEPT !.at = "store", !.k = 0, !.clocked = TRUE,
                           !.next = blackbox_boot_words(last, cpu.rst),
                           !.flash = blackbox_boot_flash(last, cpu.rst)]
  /\ earlier' = (own.known /\ own.trapped)
  /\ UNCHANGED <<bkp, flags, own>>

BootStore ==
  /\ cpu.at = "store"
  /\ bkp' = blackbox_boot_store(bkp, cpu.next, cpu.k)
  /\ cpu' = [cpu EXCEPT !.k = @ + 1, !.at = IF cpu.k + 1 = BOOT_STORES THEN "run" ELSE "store"]
  /\ own' = IF cpu.k + 1 = BOOT_STORES
            THEN [NoRun EXCEPT !.known = TRUE, !.flags = cpu.rst, !.phase = "boot"]
            ELSE NoRun
  /\ UNCHANGED <<flags, earlier>>

(* blackbox_phase_set. *)
Phase ==
  /\ cpu.at = "run"
  /\ \E p \in Phases : bkp' = [bkp EXCEPT !.phase = p] /\ own' = [own EXCEPT !.phase = p]
  /\ UNCHANGED <<flags, cpu, earlier>>

watchdog_start ==
  /\ cpu.at = "run" /\ ~cpu.iwdg
  /\ cpu' = [cpu EXCEPT !.iwdg = TRUE]
  /\ UNCHANGED <<bkp, flags, own, earlier>>

(* blackbox_pass_mark: a pass longer than all before, in two stores. *)
PassEnds ==
  /\ cpu.at = "run" /\ cpu.iwdg
  /\ \E dt \in (cpu.max + 1)..(HalfRange * HalfRange - 1) :
       /\ cpu' = [cpu EXCEPT !.at = "lo", !.max = dt]
       /\ own' = [own EXCEPT !.longest = dt]
  /\ UNCHANGED <<bkp, flags, earlier>>

MarkFirst(w, dt) == [w EXCEPT !.lo = dt % HalfRange]

PassMark ==
  /\ UNCHANGED <<flags, own, earlier>>
  /\ \/ /\ cpu.at = "lo"
        /\ bkp' = MarkFirst(bkp, cpu.max) /\ cpu' = [cpu EXCEPT !.at = "hi"]
     \/ /\ cpu.at = "hi"
        /\ bkp' = [bkp EXCEPT !.lo = cpu.max % HalfRange, !.hi = cpu.max \div HalfRange]
        /\ cpu' = [cpu EXCEPT !.at = "run"]

-----------------------------------------------------------------------------

(* failsafe_stop first sees to it that the chip is reset. *)
FailsafeArms(c) == [c EXCEPT !.iwdg = TRUE]

(* Where the code may trap or hang: blackbox_boot only accesses registers. *)
Code == {"take", "boot", "run", "lo", "hi"}

Trap ==
  /\ cpu.at \in Code
  /\ \E pc \in Places, cause \in Causes :
       cpu' = [FailsafeArms(cpu) EXCEPT !.at = "trap", !.k = 0, !.pc = pc, !.cause = cause]
  /\ UNCHANGED <<bkp, flags, own, earlier>>

(* The words of a trap, its check last. *)
TrapStored(w, k) ==
  CASE k = 0 -> [w EXCEPT !.pcLo = cpu.pc[1]]
    [] k = 1 -> [w EXCEPT !.pcHi = cpu.pc[2]]
    [] k = 2 -> [w EXCEPT !.cause = cpu.cause]
    [] k = 3 -> [w EXCEPT !.trapCheck = <<cpu.pc[1], cpu.pc[2], cpu.cause>>]

TrapStore ==
  /\ cpu.at = "trap" /\ cpu.clocked /\ cpu.k < 4
  /\ bkp' = TrapStored(bkp, cpu.k) /\ cpu' = [cpu EXCEPT !.k = @ + 1]
  /\ own' = IF cpu.k = 3 THEN [own EXCEPT !.trapped = TRUE, !.pc = cpu.pc, !.cause = cpu.cause] ELSE own
  /\ UNCHANGED <<flags, earlier>>

(* The main loop or the boot stands still. *)
Hang ==
  /\ cpu.at \in Code
  /\ cpu' = [cpu EXCEPT !.at = "hung"]
  /\ UNCHANGED <<bkp, flags, own, earlier>>

(* Resets: by the watchdog, by the pin (one by software does the same but   *)
(* for the flag's name), or by the power, which clears the                  *)
(* other flags and may clear the backup domain.                             *)
IwdgReset ==
  /\ cpu.iwdg /\ cpu.at \in {"trap", "hung"}
  /\ flags' = flags \cup {"iwdg"} /\ cpu' = Reset0
  /\ UNCHANGED <<bkp, own, earlier>>

PinReset ==
  /\ flags' = flags \cup {"pin"} /\ cpu' = Reset0
  /\ UNCHANGED <<bkp, own, earlier>>

PowerReset ==
  /\ flags' = {"por"} /\ cpu' = Reset0
  /\ \/ bkp' = Cold /\ own' = NoRun
     \/ UNCHANGED <<bkp, own>>
  /\ UNCHANGED earlier

BoxNext ==
  \/ watchdog_reset_flags_take \/ BootRead \/ BootStore \/ Phase \/ watchdog_start \/ PassEnds \/ PassMark
  \/ Trap \/ TrapStore \/ Hang
  \/ IwdgReset \/ PinReset \/ PowerReset

BoxSpec == BoxInit /\ [][BoxNext]_boxVars

-----------------------------------------------------------------------------
AllPhases == Phases \cup {"boot", "none"}

(* A magic with unmatched checks is never left in the registers. *)
BoxTypeOK ==
  /\ bkp.lo \in Halves /\ bkp.hi \in Halves /\ bkp.phase \in AllPhases
  /\ bkp.reset.set \subseteq Flags /\ bkp.reset.n \in 0..ResetsMax
  /\ flags \subseteq Flags /\ cpu.k \in 0..BOOT_STORES
  /\ cpu.at \in {"take", "boot", "store", "run", "lo", "hi", "trap", "hung"}
  /\ bkp.magic => bkp.check = bkp.reset

(* A record that checks belongs to one run throughout: the flags that       *)
(* started it, its phase, and a trap only if it trapped, there and so.  The *)
(* header of a run is never seen over the trap of an older one.             *)
RecordIsOfOneRun ==
  LET r == blackbox_decode(bkp)
  IN r.valid => /\ own.known /\ r.flags = own.flags /\ r.phase = own.phase
                /\ r.trapped => own.trapped /\ r.pc = own.pc /\ r.cause = own.cause

(* The longest pass is never overstated, also by a reset between its two    *)
(* stores.                                                                  *)
PassNeverOverstated ==
  LET r == blackbox_decode(bkp) IN r.valid => r.pass <= own.longest

(* The blue flash shows exactly when the watchdog has reset a chip whose    *)
(* last recorded run had its trap stored whole.                             *)
BootFlashIsTrue ==
  cpu.at \in {"store", "run"} =>
    (cpu.flash = "trap" <=> "iwdg" \in cpu.rst /\ earlier)

(* What the next boot reads is true of one run, whatever reset came between *)
(* which stores.                                                            *)
RecordIsTrue == BoxTypeOK /\ RecordIsOfOneRun /\ PassNeverOverstated /\ BootFlashIsTrue

=============================================================================
