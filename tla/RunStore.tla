------------------------------ MODULE RunStore ------------------------------
(***************************************************************************)
(* AgentRunStore: the in-memory table of agent runs and the JSON files     *)
(* behind it.  src/src/instr_core/agent/store.py                           *)
(*                                                                         *)
(* Every public operation holds the store's RLock from its first read to   *)
(* the end of _persist, so an operation is one step.  It has two outcomes, *)
(* because memory is changed before the file is written: os.replace is     *)
(* reached and both change, or the write raises and only memory does.  A   *)
(* crash inside an operation leaves the old file (the .tmp is removed at   *)
(* startup) and no memory, which is a crash before the operation.          *)
(*                                                                         *)
(* Run ids come from uuid4 and are never issued twice.                     *)
(***************************************************************************)
EXTENDS RunLifecycle, Naturals

CONSTANTS
  Runs,          \* run ids
  Keys,          \* values of the Idempotency-Key header
  Fingerprints,  \* validation-context fingerprints
  None,          \* Python's None
  Absent,        \* no entry in the table, no file in the directory
  Quarantined    \* the file was renamed <run_id>.json.corrupt-<stamp>

ASSUME NoneAssumption ==
  /\ None \notin Keys
  /\ None \notin Fingerprints

(* A run as the store tells runs apart.  valFp and valid are the result of *)
(* the last dry-run (valid: it found no issue; FALSE before there is one), *)
(* key and execFp the execution reservation, linked says that              *)
(* sweep_session_id is set.                                                *)
Run ==
  [ status : RunStatus,
    key    : Keys \union {None},
    execFp : Fingerprints \union {None},
    valFp  : Fingerprints \union {None},
    valid  : BOOLEAN,
    linked : BOOLEAN ]

ASSUME MarkAssumption ==
  /\ Absent \notin Run
  /\ Quarantined \notin Run
  /\ Absent # Quarantined

VARIABLES
  up,      \* the backend process is running
  mem,     \* AgentRunStore._runs
  disk,    \* the files of run_dir
  grants   \* history: how many NEW reservations were returned for a run

vars == <<up, mem, disk, grants>>

TypeOK ==
  /\ up \in BOOLEAN
  /\ mem \in [Runs -> Run \union {Absent}]
  /\ disk \in [Runs -> Run \union {Absent, Quarantined}]
  /\ grants \in [Runs -> Nat]

NewRun ==
  [ status |-> "planned", key |-> None, execFp |-> None,
    valFp |-> None, valid |-> FALSE, linked |-> FALSE ]

Init ==
  /\ up = TRUE
  /\ mem = [r \in Runs |-> Absent]
  /\ disk = [r \in Runs |-> Absent]
  /\ grants = [r \in Runs |-> 0]

-----------------------------------------------------------------------------
(* The table and its file.                                                 *)

Known(r) == up /\ mem[r] # Absent

(* Fault: the file is written in the background, perhaps after the answer. *)
PersistInBackground(r, run, saved) == disk' \in {disk, [disk EXCEPT ![r] = run]}

(* _persist: write, fsync and replace the file, or raise before replacing  *)
(* it.                                                                     *)
Persist(r, run, saved) ==
  disk' = IF saved THEN [disk EXCEPT ![r] = run] ELSE disk

(* Fault: the file is replaced first, and what is raised after that leaves *)
(* memory as it was.                                                       *)
StoreFileFirst(r, run, saved) ==
  /\ Persist(r, run, TRUE)
  /\ mem' = IF saved THEN [mem EXCEPT ![r] = run] ELSE mem
  /\ UNCHANGED up

Store(r, run, saved) ==
  /\ mem' = [mem EXCEPT ![r] = run]
  /\ Persist(r, run, saved)
  /\ UNCHANGED up

-----------------------------------------------------------------------------
(* The operations.                                                         *)

(* create refuses an id that is in the table.                              *)
Create(r, saved) ==
  /\ up
  /\ mem[r] = Absent /\ disk[r] = Absent
  /\ Store(r, NewRun, saved)
  /\ UNCHANGED grants

(* update replaces the record by the caller's copy without looking at it.  *)
Update(r, run, saved) ==
  /\ Known(r)
  /\ Store(r, run, saved)
  /\ UNCHANGED grants

Transition(r, target, saved) ==
  /\ Known(r)
  /\ CanTransition(mem[r].status, target)
  /\ Store(r, [mem[r] EXCEPT !.status = target], saved)
  /\ UNCHANGED grants

(* update_from_sweep raises ValueError unless the sweep is over.           *)
UpdateFromSweep(r, target, saved) ==
  /\ IsTerminal(target)
  /\ Transition(r, target, saved)

(* The four tests reserve_execution makes before it reserves.              *)
MayReserve(run, fp) ==
  /\ run.key = None
  /\ run.status = "dry_run"
  /\ run.valFp = fp
  /\ run.valid

Reserved(run, k, fp) ==
  [run EXCEPT !.key = k, !.execFp = fp, !.status = "running"]

(* Fault: an OSError in _persist is logged and NEW is returned all the     *)
(* same.                                                                   *)
ReserveExecutionUnsaved(r, k, fp, saved) ==
  /\ Known(r)
  /\ MayReserve(mem[r], fp)
  /\ CanTransition(mem[r].status, "running")
  /\ Store(r, Reserved(mem[r], k, fp), saved)
  /\ grants' = [grants EXCEPT ![r] = @ + 1]

(* reserve_execution returning NEW, or raising from _persist after it has  *)
(* changed the record.                                                     *)
ReserveExecution(r, k, fp, saved) ==
  /\ Known(r)
  /\ MayReserve(mem[r], fp)
  /\ CanTransition(mem[r].status, "running")
  /\ Store(r, Reserved(mem[r], k, fp), saved)
  /\ grants' = IF saved THEN [grants EXCEPT ![r] = @ + 1] ELSE grants

(* reserve_execution returning REPLAY: the same key for the same context.  *)
Replays(run, k, fp) == run.key = k /\ run.execFp = fp

-----------------------------------------------------------------------------
(* The process.                                                            *)

Crash ==
  /\ up
  /\ up' = FALSE
  /\ mem' = [r \in Runs |-> Absent]
  /\ UNCHANGED <<disk, grants>>

OnDisk == {r \in Runs : disk[r] \notin {Absent, Quarantined}}

(* Fault: recovery looks for running runs only.                            *)
InterruptedRunning(run) == run.status = "running"

Interrupted(run) == run.status \in Active

(* Fault: recovery gives an interrupted run back for another execution.    *)
RecoveredForRetry(run) ==
  IF Interrupted(run) THEN [run EXCEPT !.status = "dry_run", !.key = None] ELSE run

(* Fault: recovery writes a status of its own, which no enumeration has.   *)
RecoveredAsInterrupted(run) ==
  IF Interrupted(run) THEN [run EXCEPT !.status = "interrupted"] ELSE run

(* recover_interrupted_runs                                                *)
Recovered(run) ==
  IF Interrupted(run) THEN [run EXCEPT !.status = "error"] ELSE run

(* __init__: _load_runs skips the files it cannot read (unread), renaming  *)
(* them except those it cannot even rename (stuck); then the runs found    *)
(* active are recovered one by one, written being those whose write        *)
(* succeeded.  A write that raises ends __init__, and with it the startup. *)
Restart(unread, stuck, written) ==
  LET loaded == OnDisk \ unread
      found  == {r \in loaded : Interrupted(disk[r])}
  IN  /\ ~up
      /\ unread \subseteq OnDisk /\ stuck \subseteq unread /\ written \subseteq found
      /\ up' = (written = found)
      /\ mem' = [r \in Runs |-> IF up' /\ r \in loaded
                                  THEN Recovered(disk[r]) ELSE Absent]
      /\ disk' = [r \in Runs |-> IF r \in written THEN Recovered(disk[r])
                                 ELSE IF r \in unread \ stuck THEN Quarantined
                                 ELSE disk[r]]
      /\ UNCHANGED grants

-----------------------------------------------------------------------------
(* update trusts its callers.  This is what the callers must guarantee for *)
(* the store's promises to hold: a copy that is written back carries the   *)
(* reservation of the record it replaces (and, once there is one, the      *)
(* validation it rests on), and has at most moved along the lifecycle      *)
(* without starting an execution.  Which callers do is checked in          *)
(* AgentExecution, where the route handlers are.                           *)
Respects(old, new) ==
  /\ old.key # None => new.valFp = old.valFp /\ new.valid = old.valid
  /\ old.linked => new.linked
  /\ \/ new.status = old.status
     \/ new.status # "running" /\ CanTransition(old.status, new.status)

RespectfulUpdate(r, saved) ==
  \E s \in RunStatus, fp \in Fingerprints \union {None}, valid, linked \in BOOLEAN :
    LET copy == [mem[r] EXCEPT !.status = s, !.valFp = fp, !.valid = valid,
                               !.linked = linked]
    IN  /\ Known(r)
        /\ Respects(mem[r], copy)
        /\ Update(r, copy, saved)

Operation(r, saved) ==
  \/ Create(r, saved)
  \/ RespectfulUpdate(r, saved)
  \/ \E target \in RunStatus \ {"running"} : Transition(r, target, saved)
  \/ \E target \in RunStatus : UpdateFromSweep(r, target, saved)
  \/ \E k \in Keys, fp \in Fingerprints : ReserveExecution(r, k, fp, saved)

Next ==
  \/ \E r \in Runs, saved \in BOOLEAN : Operation(r, saved)
  \/ Crash
  \/ \E unread, stuck, written \in SUBSET Runs : Restart(unread, stuck, written)

Spec == Init /\ [][Next]_vars

-----------------------------------------------------------------------------
(* Properties.                                                             *)

(* A run that can never be executed again.                                 *)
Spent(entry) ==
  \/ entry = Quarantined
  \/ entry \in Run /\ entry.key # None /\ entry.status \notin Executable

(* Hardware is driven at most once per run: however requests, failed       *)
(* writes, crashes and restarts are ordered, reserve_execution returns NEW *)
(* once.                                                                   *)
AtMostOneGrant == \A r \in Runs : grants[r] <= 1

(* Before a caller learns that it may drive hardware, the reservation is   *)
(* on disk, so no crash can forget it; and it is never undone there.       *)
GrantIsDurable == \A r \in Runs : grants[r] > 0 => Spent(disk[r])

Rank ==
  [ planned |-> 0, dry_run |-> 1, running |-> 2, stopping |-> 3,
    completed |-> 4, aborted |-> 4, error |-> 4 ]

(* entry is run or something run was before.                               *)
Lags(entry, run) ==
  /\ entry.key \in {None, run.key}
  /\ IF IsTerminal(entry.status)
       THEN entry.status = run.status
       ELSE Rank[entry.status] <= Rank[run.status]

(* A write that fails leaves the file behind the table, never ahead of it  *)
(* and never on another branch of the lifecycle: what a restart loads is   *)
(* something the run has been.                                             *)
DiskLags ==
  \A r \in Runs : mem[r] # Absent /\ disk[r] # Absent =>
    /\ disk[r] # Quarantined
    /\ Lags(disk[r], mem[r])

(* The file of a run never loses its reservation, never goes back to a     *)
(* status from which it could be executed again, and never leaves a        *)
(* terminal status; the only way out is quarantine.                        *)
FilesOnlyMoveForward ==
  [][\A r \in OnDisk : \/ disk'[r] = Quarantined
                       \/ disk'[r] # Absent /\ Lags(disk[r], disk'[r])]_vars

(* Nothing is executing in a process that has just started: every active   *)
(* run it shows was recovered to error first (and so no later step of this *)
(* process can mistake it for one of its own).                             *)
RestartRunsNothing ==
  [][~up /\ up' => \A r \in Runs :
        mem'[r] # Absent => /\ mem'[r].status \notin Active
                            /\ disk'[r] = mem'[r]]_vars

(* The abstract run seen through the file and the grant.                   *)
PhaseOf(entry, granted) ==
  IF entry = Absent THEN "open"
  ELSE IF entry = Quarantined THEN "closed"
  ELSE IF entry.key = None THEN "open"
  ELSE IF granted > 0 /\ entry.status \in Active THEN "executing"
  ELSE "closed"

Phase == [r \in Runs |-> PhaseOf(disk[r], grants[r])]

Abstract == INSTANCE ExperimentRun WITH phase <- Phase

(* The store implements the abstract run: a grant is a step from open to   *)
(* executing and nothing else ever opens or reopens a run.                 *)
ImplementsExperimentRun == Abstract!Spec
=============================================================================
