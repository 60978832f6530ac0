----------------------------- MODULE FilamentInfo -----------------------------
(***************************************************************************)
(* The filament record of every channel: set by the printer in RAM at any  *)
(* time, saved by the main loop one channel after the other while the      *)
(* flash is free, and read back at boot (main.cpp).  The journals are      *)
(* NvStore, which FlashSaves implements.                                   *)
(***************************************************************************)
EXTENDS Integers, FiniteSetsExt

CONSTANTS NumChannels,
          Infos,         \* the records
          Default,       \* what _filament.init() gives
          NoInfo,        \* no record in flash
          Terminate,     \* a record with its name cut to 19 characters
          NoPending

Channels == 0 .. NumChannels - 1

InfoAssumption ==
  /\ NumChannels \in Nat
  /\ Default \in Infos /\ NoInfo \notin Infos
  /\ Terminate \in [Infos -> Infos]
  /\ \A i \in Infos : Terminate[Terminate[i]] = Terminate[i]
  /\ NoPending \notin Channels \X (Infos \cup {NoInfo})

VARIABLES
  running,         \* the main loop runs
  info,       \* the records in RAM (ams[].filament[])
  dirty,      \* g_fil_dirty
  logTakes,      \* the loaded-channel log has the flash job
  filStored, filKnown, filPending, filStuck      \* the filament journals

journals == <<filStored, filKnown, filPending, filStuck>>
vars == <<running, info, dirty, logTakes, journals>>

Journals == INSTANCE NvStore WITH
              Regs <- Channels, Vals <- Infos \cup {NoInfo},
              stored <- filStored, known <- filKnown, pending <- filPending, stuck <- filStuck

TypeOK ==
  /\ running \in BOOLEAN
  /\ info \in [Channels -> Infos]
  /\ dirty \in SUBSET Channels
  /\ logTakes \in BOOLEAN
  /\ Journals!TypeOK

\* ams_init.
InfoInit == [c \in Channels |-> Default]

\* flashinfo_to_ram, which ends the name.
FromFlash(i) == IF i = NoInfo THEN Default ELSE Terminate[i]

Init ==
  /\ running = FALSE /\ info = InfoInit /\ dirty = {} /\ logTakes = FALSE
  /\ Journals!Init

\* ams_datas_read.
Boot ==
  /\ ~running /\ running' = TRUE
  /\ info' = [c \in Channels |-> FromFlash(filKnown[c])]
  /\ UNCHANGED <<dirty, logTakes, journals>>

\* get_package_set_filament and its long form, and the AHUB host's: the record first, then the mark.
SetFilament(c, i) ==
  /\ running
  /\ info' = [info EXCEPT ![c] = i]
  /\ dirty' = dirty \cup {c}
  /\ UNCHANGED <<running, logTakes, journals>>

\* Variant for mutation: a channel without a record in flash is left alone.
SaveKnownOnly ==
  /\ running /\ dirty # {}
  /\ filPending = NoPending /\ ~logTakes /\ ~filStuck
  /\ LET c == Min(dirty)
     IN  IF filKnown[c] = info[c] THEN dirty' = dirty \ {c} /\ UNCHANGED journals
         ELSE /\ filKnown[c] # NoInfo
              /\ Journals!Queue /\ filPending' = <<c, info[c]>>
              /\ UNCHANGED dirty
  /\ UNCHANGED <<running, info, logTakes>>

\* ams_datas_save_run: the lowest marked channel, until flash holds what RAM holds now.
Save ==
  /\ running /\ dirty # {}
  /\ filPending = NoPending /\ ~logTakes /\ ~filStuck
  /\ LET c == Min(dirty)
     IN  IF filKnown[c] = info[c] THEN dirty' = dirty \ {c} /\ UNCHANGED journals
         ELSE Journals!Queue /\ filPending' = <<c, info[c]>> /\ UNCHANGED dirty
  /\ UNCHANGED <<running, info, logTakes>>

\* ams_state_save_run asks first on every pass, and then has the flash job till it ends.
LogTakes == running /\ filPending = NoPending /\ ~logTakes /\ logTakes' = TRUE /\ UNCHANGED <<running, info, dirty, journals>>
LogEnds  == logTakes /\ logTakes' = FALSE /\ UNCHANGED <<running, info, dirty, journals>>

JournalCommit == Journals!Commit /\ UNCHANGED <<running, info, dirty, logTakes>>
JournalAcknowledge == Journals!Acknowledge /\ UNCHANGED <<running, info, dirty, logTakes>>
JournalStick == ~filStuck /\ Journals!Stick /\ UNCHANGED <<running, info, dirty, logTakes>>

PowerCut ==
  /\ running /\ running' = FALSE
  /\ Journals!Crash
  /\ info' = InfoInit /\ dirty' = {} /\ logTakes' = FALSE

Next ==
  \/ Boot \/ Save \/ LogTakes \/ LogEnds \/ PowerCut
  \/ \E c \in Channels, i \in Infos : SetFilament(c, i)
  \/ JournalCommit \/ JournalAcknowledge \/ JournalStick

Spec == Init /\ [][Next]_vars

\* The log's jobs end and its saves are rare; a filament save finds the bus quiet again and again.
Fairness ==
  /\ WF_vars(Boot) /\ SF_vars(Save) /\ WF_vars(LogEnds)
  /\ WF_vars(JournalCommit) /\ WF_vars(JournalAcknowledge)

FairSpec == Spec /\ Fairness

-----------------------------------------------------------------------------

\* Once the printer sets no record any more and the power stays on, every record is saved:
\* the channels with higher numbers wait for the lower ones, but not for ever.
AllSavedInTheEnd ==
  <>[]running /\ <>[][info' = info /\ dirty' \subseteq dirty]_<<info, dirty>>
    => <>[](filStuck \/ dirty = {})

\* A record not marked is the one in flash, whatever was set while a job for an older one
\* was under way: a power cut loses no change that the firmware takes for saved.
UnmarkedIsStored ==
  running => \A c \in Channels \ dirty :
          info[c] = filKnown[c] \/ info[c] = FromFlash(filKnown[c])
==============================================================================
