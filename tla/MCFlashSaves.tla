---------------------------- MODULE MCFlashSaves ----------------------------
(***************************************************************************)
(* The journals of the NVM sector.  A behaviour writes filament records,   *)
(* with the log pages erased at its start, or the loaded channel, with the *)
(* other pages erased: the two share one job and the recovery.  Erases of  *)
(* the log are torn where it has two values only, for the size.            *)
(*                                                                         *)
(* Or it is one of the records in RAM that are saved to the journals, with *)
(* the sector at rest.                                                     *)
(***************************************************************************)
EXTENDS FlashSavesStore, TLC

CONSTANTS recA, recB, recLong    \* records in RAM; the last has a name too long

VARIABLES running, info, dirty, logTakes, filStored, filKnown, filPending, filStuck,
          part

MCAllInfos == Infos
MCAllLoaded == Loaded
RamRecords == {recA, recB, recLong}

Filaments == INSTANCE FilamentInfo WITH
               Infos <- RamRecords, Default <- recA,
               Terminate <- [i \in RamRecords |-> IF i = recLong THEN recB ELSE i]

ASSUME Filaments!InfoAssumption

\* Its comparison is no order, but the scan of nvm_sta_scan, slot by slot, ends on the
\* record StaScan takes for the newest, in whatever log has one.
ASSUME ScanAssumption ==
  \A cells \in [StaSlots -> {StaRecord(q, 0) : q \in 0..(SeqMod - 1)} \cup {Erased}] :
    LET f == [x \in Addrs |-> IF \E s \in StaSlots : x = StaAddr(s)
                             THEN cells[CHOOSE s \in StaSlots : x = StaAddr(s)] ELSE Erased]
    IN  StaNewest(f) \subseteq {StaScanLoop(f)}

filVars == <<running, info, dirty, logTakes, filStored, filKnown, filPending, filStuck>>

MCInit ==
  /\ Init /\ Filaments!Init
  /\ \/ part = "filaments" /\ \A s \in StaSlots : flash[StaAddr(s)] = Erased
     \/ /\ part \in {"loaded", "loaded, torn"}
        /\ \A x \in Addrs : flash[x] = Torn => x \in {StaAddr(s) : s \in StaSlots}
     \/ part = "records" /\ flash = [x \in Addrs |-> Erased]
  /\ part # "records" => filStored = [c \in Channels |-> NoInfo]

MCNext ==
  /\ UNCHANGED part
  /\ \/ /\ part # "records" /\ UNCHANGED filVars
        /\ \/ Boot \/ Recover \/ PowerCut \/ FlashDone \/ Flash_background_run
           \/ /\ part = "filaments"
              /\ \E c \in Channels, i \in FilWrites : Flash_AMS_filament_write(c, i)
           \/ part = "loaded" /\ \E l \in StaWrites : Flash_AMS_state_write(l)
           \/ part = "loaded, torn" /\ \E l \in {0, NoneLoaded} : Flash_AMS_state_write(l)
        /\ part = "loaded" => staTears' = 0
     \/ part = "records" /\ Filaments!Next /\ UNCHANGED vars

MCSpec == MCInit /\ [][MCNext]_<<vars, filVars, part>> /\ Fairness
          /\ (part = "records" => Filaments!Fairness)

-----------------------------------------------------------------------------
\* Every job ends, a record not marked is the one in flash, and every marked one is saved.
RecordsAreSaved ==
  /\ JobEnds
  /\ part = "records" => []Filaments!UnmarkedIsStored /\ Filaments!AllSavedInTheEnd
==============================================================================
