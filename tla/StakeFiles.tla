------------------------------ MODULE StakeFiles ------------------------------
(***************************************************************************)
(* stake_vote/src/bootstrap.rs, leader_schedule.rs and utils.rs: the two   *)
(* files with the stakes of the current and of the next epoch, from which  *)
(* the leader schedules are had after a restart.  They are written by the  *)
(* calculation at the end of an epoch, which a crash may interrupt, and    *)
(* read twice, by the program as it starts and by its stake loop as it     *)
(* boots; without them the schedules come from RPC.                        *)
(*                                                                         *)
(* A file is the epoch it holds the stakes for, a schedule the epoch it is *)
(* said to be of and the one whose slots it has.                           *)
(***************************************************************************)
EXTENDS Integers

CONSTANTS
  FileSlots, \* slots of an epoch, more than there are epochs, as in the cluster
  MaxEpoch   \* bound of the epochs

ASSUME FilesAssumption == MaxEpoch \in Nat \ {0}

Epoch == 1 .. MaxEpoch
NoFile == 0
Torn == -1 \* created, not yet written
Schedule(e, of) == [epoch |-> e, of |-> of]
NoSchedule == Schedule(0, 0)
Nothing == [current |-> NoSchedule, next |-> NoSchedule]

VARIABLES
  epoch,    \* of the cluster, confirmed
  current,  \* current_vote_stakes.json
  next,     \* next_vote_stakes.json
  process,  \* where the program is; "down" after a crash
  known,    \* the epoch it goes by
  read,     \* what it has read to load
  loaded,   \* leader_schedule of the data cache
  calc,     \* the calculation and its epoch
  early     \* history: it has crashed before the epoch began it had calculated for

fileVars == <<epoch, current, next, process, known, read, loaded, calc, early>>

NotCalculating == [at |-> "idle", epoch |-> 0]

FilesInit ==
  /\ epoch = 1 /\ known = 1
  /\ current = NoFile /\ next = NoFile
  /\ process = "down"
  /\ read = Nothing /\ loaded = Nothing
  /\ calc = NotCalculating
  /\ early = FALSE

EpochChanges ==
  /\ epoch < MaxEpoch
  /\ epoch' = epoch + 1
  /\ UNCHANGED <<current, next, process, known, read, loaded, calc, early>>

(* Memory is lost, the files stay.                                          *)
Crash ==
  /\ process # "down"
  /\ process' = "down"
  /\ read' = Nothing /\ loaded' = Nothing /\ calc' = NotCalculating
  /\ early' = (early \/ known > epoch)
  /\ UNCHANGED <<epoch, current, next, known>>

------------------------------------------------------------------------------
(* Mutant: the file of the next epoch need not be readable.                 *)
CurrentScheduleOfOne(loading, slots) ==
  IF current \in Epoch /\ loading = current
  THEN [current |-> Schedule(current, current), next |-> Schedule(next, next)]
  ELSE Nothing

(* bootstrap_current_leader_schedule: both files must be readable, and the  *)
(* first of the epoch of loading.                                           *)
CurrentSchedule(loading, slots) ==
  IF current \in Epoch /\ next \in 1 .. MaxEpoch + 1 /\ loading = current
  THEN [current |-> Schedule(current, current), next |-> Schedule(next, next)]
  ELSE Nothing

(* bootstrap_leaderschedule_from_files passes its arguments the other way   *)
(* round.                                                                   *)
FromFiles(loading, slots) == CurrentSchedule(slots, loading)

Start ==
  /\ process = "down"
  /\ known' = epoch
  /\ LET found == FromFiles(epoch, FileSlots)
     IN  /\ loaded' = found
         /\ process' = IF found = Nothing THEN "asksEpoch" ELSE "boots"
  /\ UNCHANGED <<epoch, current, next, read, calc, early>>

(* bootstrap_leaderschedule_from_rpc: the epoch, the schedule without an    *)
(* epoch, which is that of the moment, and that of the first slot of the    *)
(* epoch after the one it was told.  Any of the calls may fail.             *)
AskEpoch ==
  /\ process = "asksEpoch"
  /\ process' = "asksCurrent"
  /\ read' = [read EXCEPT !.current.epoch = epoch]
  /\ UNCHANGED <<epoch, current, next, known, loaded, calc, early>>

AskCurrent ==
  /\ process = "asksCurrent"
  /\ process' = "asksNext"
  /\ read' = [read EXCEPT !.current.of = epoch]
  /\ UNCHANGED <<epoch, current, next, known, loaded, calc, early>>

AskNext ==
  /\ process = "asksNext"
  /\ process' = "boots"
  /\ LET e == read.current.epoch
     IN  loaded' = [current |-> read.current, next |-> Schedule(e + 1, e + 1)]
  /\ read' = Nothing
  /\ UNCHANGED <<epoch, current, next, known, calc, early>>

AskFails ==
  /\ process \in {"asksEpoch", "asksCurrent", "asksNext"}
  /\ process' = "boots"
  /\ read' = Nothing
  /\ UNCHANGED <<epoch, current, next, known, loaded, calc, early>>

------------------------------------------------------------------------------
(* The stake loop boots: it reads the files with the epoch it began with,   *)
(* in a task; then the schedules are loaded, if there are any, and the      *)
(* epoch is looked at anew.                                                 *)
LoopStarts ==
  /\ process = "boots"
  /\ process' = "fetches"
  /\ known' = epoch
  /\ UNCHANGED <<epoch, current, next, read, loaded, calc, early>>

ReadFiles ==
  /\ process = "fetches"
  /\ process' = "merges"
  /\ read' = CurrentSchedule(known, FileSlots)
  /\ UNCHANGED <<epoch, current, next, known, loaded, calc, early>>

LoadSchedules ==
  /\ process = "merges"
  /\ process' = "runs"
  /\ loaded' = IF read = Nothing THEN loaded ELSE read
  /\ read' = Nothing
  /\ known' = epoch
  /\ UNCHANGED <<epoch, current, next, calc, early>>

(* The calculation begins with the last slot of an epoch or any later one,  *)
(* and is for the epoch after the one that begins.                          *)
Calculate ==
  /\ process = "runs"
  /\ calc = NotCalculating
  /\ known <= epoch /\ known < MaxEpoch
  /\ known' = known + 1
  /\ calc' = [at |-> "rename", epoch |-> known']
  /\ UNCHANGED <<epoch, current, next, process, read, loaded, early>>

(* It may fail, which is logged.                                            *)
RenameFile ==
  /\ calc.at = "rename"
  /\ \/ current' = (IF next = NoFile THEN current ELSE next) /\ next' = NoFile
     \/ UNCHANGED <<current, next>>
  /\ calc' = [calc EXCEPT !.at = "create"]
  /\ UNCHANGED <<epoch, process, known, read, loaded, early>>

(* save_schedule_vote_stakes: the file is created, or emptied, and written. *)
CreateFile ==
  /\ calc.at = "create"
  /\ next' = Torn
  /\ calc' = [calc EXCEPT !.at = "write"]
  /\ UNCHANGED <<epoch, current, process, known, read, loaded, early>>

WriteFile ==
  /\ calc.at = "write"
  /\ next' = calc.epoch + 1
  /\ calc' = [calc EXCEPT !.at = "done"]
  /\ UNCHANGED <<epoch, current, process, known, read, loaded, early>>

Calculated ==
  /\ calc.at = "done"
  /\ loaded' = [current |-> loaded.next, next |-> Schedule(calc.epoch + 1, calc.epoch + 1)]
  /\ calc' = NotCalculating
  /\ UNCHANGED <<epoch, current, next, process, known, read, early>>

FilesNext ==
  \/ EpochChanges \/ Crash
  \/ Start \/ AskEpoch \/ AskCurrent \/ AskNext \/ AskFails
  \/ LoopStarts \/ ReadFiles \/ LoadSchedules
  \/ Calculate \/ RenameFile \/ CreateFile \/ WriteFile \/ Calculated

FilesSpec == FilesInit /\ [][FilesNext]_fileVars

------------------------------------------------------------------------------
(* Schedules from the files are those of two epochs in a row, wherever a    *)
(* crash has interrupted the writing of the files and however long the      *)
(* program was down, unless it crashed after a calculation had begun and    *)
(* before the epoch it was for.                                             *)
ReadInARow ==
  process = "merges" /\ read # Nothing /\ ~early
    => read.next.epoch = read.current.epoch + 1

(* The comment at bootstrap.rs:51 promises the schedules "if the            *)
(* corresponding files exist", so that RPC is asked only without them.      *)
FilesAreUsed ==
  process = "asksEpoch" => CurrentSchedule(known, FileSlots) = Nothing
==============================================================================
