--------------------------- MODULE AgentExecution ---------------------------
(***************************************************************************)
(* The agent routes that plan, validate, execute and stop a run, and the   *)
(* completion callback of its sweep, over the three components they share: *)
(* the run store, the address ownership registry and the sweep engine.     *)
(* src/src/instr_core/api/routes/agent.py                                  *)
(*                                                                         *)
(* A single-device run is executed by a sweep with a thread of its own; a  *)
(* dual-device run is driven by the handler of its request.                *)
(*                                                                         *)
(* Route handlers are plain functions that FastAPI runs in a thread pool,  *)
(* so two requests interleave between any two calls they make to a shared  *)
(* component.  A handler's local variables (the deep copy of the run it    *)
(* read, the fingerprint it computed) are its entry in handler.  A request *)
(* that is refused without touching anything is not a step.                *)
(*                                                                         *)
(* The sweep of run r is the session swp-<r>, so runs name sessions.       *)
(* The emergency stop, which takes addresses away, is InstrumentAccess's.  *)
(***************************************************************************)
EXTENDS RunLifecycle, Naturals

CONSTANTS
  Runs, Keys, Fingerprints, None, Absent, Quarantined,  \* as in RunStore
  Handlers,        \* threads of the pool that serve agent requests
  Addresses,
  Plans,           \* the plans clients make: for one instrument or for two
  DryRunOverlaps,  \* dry-run requests may overlap other requests for the run
  StopsHappen,     \* clients stop runs
  SessionsVanish,  \* a VISA session can be removed or break under a sweep
  WritesFail,      \* _persist can raise
  WrongRoutes      \* clients execute dual-device runs by the other route

(* The source and the meter of a dual plan may have the same address.      *)
ASSUME PlanAssumption ==
  /\ Plans \subseteq [dual : BOOLEAN, addresses : (SUBSET Addresses) \ {{}}]
  /\ \A p \in Plans : ~p.dual => \E a \in Addresses : p.addresses = {a}

ASSUME SwitchAssumption ==
  {DryRunOverlaps, StopsHappen, SessionsVanish, WritesFail, WrongRoutes}
    \subseteq BOOLEAN

VARIABLES
  up, mem, disk, grants,                                      \* RunStore
  sessions, status, event, starter, worker, target, stopper,  \* SweepControl
  owners,                                                     \* AddressOwnership
  handler,   \* where each handler is, with its local variables
  plan,      \* what a run is for; nothing changes it
  callback,  \* where the completion callback of a run's sweep is
  context,   \* the fingerprint of the validation context as it is now
  driven     \* history: how often instruments were driven for a run

Store == INSTANCE RunStore
Sweep == INSTANCE SweepControl WITH Sessions <- Runs, Stoppers <- Handlers, Nobody <- None
Ownership == INSTANCE AddressOwnership WITH Operations <- Runs

ASSUME NoneAssumption == None \notin Keys \union Fingerprints \union Runs

ASSUME MarkAssumption ==
  /\ Absent \notin Store!Run
  /\ Quarantined \notin Store!Run
  /\ Absent # Quarantined

storeVars == <<up, mem, disk, grants>>
sweepVars == <<sessions, status, event, starter, worker, target, stopper>>
vars == <<storeVars, sweepVars, owners, plan, handler, callback, context, driven>>

Places ==
  {"idle", "dryFingerprint", "drySave", "fingerprint", "reserve", "own", "find",
   "link", "start", "launch", "lease", "drive", "release", "save", "undo", "fail",
   "failSave", "stopping", "stopSweep", "stopRuns"}

Handler ==
  [ at : Places, run : Runs \union {None}, copy : Store!Run \union {None},
    key : Keys \union {None}, fp : Fingerprints \union {None} ]

IdleHandler == [at |-> "idle", run |-> None, copy |-> None, key |-> None, fp |-> None]

TypeOK ==
  /\ Store!TypeOK
  /\ Sweep!TypeOK
  /\ Ownership!TypeOK
  /\ plan \in [Runs -> Plans]
  /\ handler \in [Handlers -> Handler]
  /\ callback \in [Runs -> {"health", "sync", "release"}]
  /\ context \in Fingerprints
  /\ driven \in [Runs -> Nat]

Init ==
  /\ Store!Init
  /\ Sweep!Init
  /\ Ownership!Init
  /\ plan \in [Runs -> Plans]
  /\ handler = [h \in Handlers |-> IdleHandler]
  /\ callback = [r \in Runs |-> "health"]
  /\ context \in Fingerprints
  /\ driven = [r \in Runs |-> 0]

-----------------------------------------------------------------------------
(* Handlers.                                                               *)

Saves == IF WritesFail THEN BOOLEAN ELSE {TRUE}

At(h, place) == up /\ handler[h].at = place

(* The handler goes on.                                                    *)
Goes(h, place) == handler' = [handler EXCEPT ![h].at = place]

GoesWith(h, place, copy) ==
  handler' = [handler EXCEPT ![h].at = place, ![h].copy = copy]

(* It answers, or an exception does.                                       *)
Returns(h) == handler' = [handler EXCEPT ![h] = IdleHandler]

Begins(h, place, r, copy, k) ==
  handler' = [handler EXCEPT ![h] =
                [at |-> place, run |-> r, copy |-> copy, key |-> k, fp |-> None]]

Serves(h, r) == handler[h].run = r

(* Unless DryRunOverlaps, a client waits for the answer to a dry-run of a  *)
(* run before it sends anything else about it, and the other way round, as *)
(* the desktop panel does (its buttons are disabled while it is busy).     *)
DryRunMayBegin(r) == DryRunOverlaps \/ ~ \E g \in Handlers : Serves(g, r)

OtherMayBegin(r) ==
  DryRunOverlaps
    \/ ~ \E g \in Handlers : Serves(g, r) /\ handler[g].at \in {"dryFingerprint", "drySave"}

QuietStore == UNCHANGED <<storeVars>>
QuietSweep == UNCHANGED <<sweepVars, callback, driven>>
QuietRest == UNCHANGED <<context>>

-----------------------------------------------------------------------------
(* Planning and dry-run.                                                   *)

(* create_plan, create_multi_plan, create_llm_plan: one store call.        *)
CreatePlan(r, saved) ==
  /\ Store!Create(r, saved)
  /\ QuietSweep /\ UNCHANGED <<owners, handler, context>>

(* dry_run and dry_run_multi: the copy that get returned is validated and  *)
(* moved to DRY_RUN.  Each refuses the runs of the other.                  *)
DryRunReads(h, r, valid) ==
  /\ At(h, "idle") /\ Store!Known(r) /\ DryRunMayBegin(r)
  /\ CanTransition(mem[r].status, "dry_run")
  /\ Begins(h, "dryFingerprint", r,
            [mem[r] EXCEPT !.status = "dry_run", !.valid = valid], None)
  /\ QuietStore /\ QuietSweep /\ UNCHANGED <<owners, context>>

DryRunFingerprints(h) ==
  /\ At(h, "dryFingerprint")
  /\ GoesWith(h, "drySave", [handler[h].copy EXCEPT !.valFp = context])
  /\ QuietStore /\ QuietSweep /\ UNCHANGED <<owners, context>>

DryRunSaves(h, saved) ==
  /\ At(h, "drySave")
  /\ Store!Update(handler[h].run, handler[h].copy, saved)
  /\ Returns(h)
  /\ QuietSweep /\ UNCHANGED <<owners, context>>

-----------------------------------------------------------------------------
(* execute and execute_multi; up to the reservation they are the same.     *)

(* ensure_executable looks at the validation of the copy, not its status.  *)
ExecuteReads(h, r, k) ==
  /\ At(h, "idle") /\ Store!Known(r) /\ OtherMayBegin(r)
  /\ mem[r].valid
  /\ Begins(h, "fingerprint", r, mem[r], k)
  /\ QuietStore /\ QuietSweep /\ UNCHANGED <<owners, context>>

ExecuteFingerprints(h) ==
  /\ At(h, "fingerprint")
  /\ IF handler[h].copy.valFp = context
       THEN handler' = [handler EXCEPT ![h].at = "reserve", ![h].fp = context]
       ELSE Returns(h)
  /\ QuietStore /\ QuietSweep /\ UNCHANGED <<owners, context>>

(* Fault: the handler goes on with the copy it read before the             *)
(* reservation.                                                            *)
ExecuteReservesOldCopy(h, saved) ==
  /\ At(h, "reserve")
  /\ Store!ReserveExecution(handler[h].run, handler[h].key, handler[h].fp, saved)
  /\ IF saved THEN Goes(h, "own") ELSE Returns(h)
  /\ QuietSweep /\ UNCHANGED <<owners, context>>

(* NEW, or an exception from _persist after the record was changed.        *)
ExecuteReserves(h, saved) ==
  LET r == handler[h].run
  IN  /\ At(h, "reserve")
      /\ Store!ReserveExecution(r, handler[h].key, handler[h].fp, saved)
      /\ IF saved THEN GoesWith(h, "own", mem'[r]) ELSE Returns(h)
      /\ QuietSweep /\ UNCHANGED <<owners, context>>

(* REPLAY or IdempotencyConflict: the request is answered.                 *)
ExecuteIsAnswered(h) ==
  /\ At(h, "reserve")
  /\ ~Store!MayReserve(mem[handler[h].run], handler[h].fp)
  /\ Returns(h)
  /\ QuietStore /\ QuietSweep /\ UNCHANGED <<owners, context>>

ExecuteOwns(h) ==
  LET r == handler[h].run
  IN  /\ At(h, "own")
      /\ \/ Ownership!AcquireMany(plan[r].addresses, r) /\ Goes(h, "find")
         \/ /\ Ownership!Conflict(plan[r].addresses, r)
            /\ Goes(h, "fail") /\ UNCHANGED owners
      /\ QuietStore /\ QuietSweep /\ UNCHANGED context

(* execute finds no run.plan.address in a dual-device run: what it raises  *)
(* is caught by nobody, and the run has been reserved.                     *)
ExecuteBreaks(h) ==
  /\ WrongRoutes
  /\ At(h, "own") /\ plan[handler[h].run].dual
  /\ Returns(h)
  /\ QuietStore /\ QuietSweep /\ UNCHANGED <<owners, context>>

(* visa_sessions.get finds the sessions, healthy or not, or raises.        *)
ExecuteFindsSession(h, found) ==
  /\ At(h, "find")
  /\ Goes(h, IF plan[handler[h].run].dual THEN IF found THEN "lease" ELSE "fail"
                                          ELSE IF found THEN "link" ELSE "undo")
  /\ QuietStore /\ QuietSweep /\ UNCHANGED <<owners, context>>

(* sweep_session_id is set on the copy that reserve_execution returned,    *)
(* and the copy is written back.                                           *)
ExecuteLinks(h, saved) ==
  LET linked == [handler[h].copy EXCEPT !.linked = TRUE]
  IN  /\ At(h, "link")
      /\ Store!Update(handler[h].run, linked, saved)
      /\ GoesWith(h, IF saved THEN "start" ELSE "undo", linked)
      /\ QuietSweep /\ UNCHANGED <<owners, context>>

(* start_sweep registers the session, or raises: it already exists.        *)
ExecuteRegisters(h) ==
  LET r == handler[h].run
  IN  /\ At(h, "start")
      /\ \/ Sweep!Register(r) /\ Goes(h, "launch")
         \/ r \in sessions /\ Goes(h, "undo") /\ UNCHANGED sweepVars
      /\ QuietStore /\ UNCHANGED <<owners, callback, driven, context>>

ExecuteLaunches(h) ==
  LET r == handler[h].run
  IN  /\ At(h, "launch")
      /\ \/ /\ Sweep!Prepare(r) \/ Sweep!BeginRunning(r)
            /\ UNCHANGED <<handler, driven>>
         \/ /\ Sweep!Spawn(r)
            /\ driven' = [driven EXCEPT ![r] = @ + 1]
            /\ Returns(h)
      /\ QuietStore /\ UNCHANGED <<owners, callback, context>>

(* Fault: the reserved run is not failed.                                  *)
ExecuteUndoesOwnership(h) ==
  LET r == handler[h].run
  IN  /\ At(h, "undo")
      /\ Ownership!ReleaseMany(plan[r].addresses, r)
      /\ Returns(h)
      /\ QuietStore /\ QuietSweep /\ UNCHANGED context

(* The except branches: ownership is released first.                       *)
ExecuteUndoes(h) ==
  LET r == handler[h].run
  IN  /\ At(h, "undo")
      /\ Ownership!ReleaseMany(plan[r].addresses, r)
      /\ Goes(h, "fail")
      /\ QuietStore /\ QuietSweep /\ UNCHANGED context

(* The handler of a dual-device run is in a try whose finally clause gives *)
(* its addresses back, whatever failing the run raises.                    *)
InFinally(h) ==
  LET r == handler[h].run
  IN  plan[r].dual /\ \A a \in plan[r].addresses : owners[a] = r

FailEnds(h) == IF InFinally(h) THEN Goes(h, "release") ELSE Returns(h)

(* _fail_reserved_run, and the except branch of stop_run: transition to    *)
(* ERROR, then write the returned copy back with the message.              *)
FailTransitions(h, saved) ==
  LET r == handler[h].run
  IN  /\ At(h, "fail")
      /\ Store!Transition(r, "error", saved)
      /\ IF saved THEN GoesWith(h, "failSave", mem'[r]) ELSE FailEnds(h)
      /\ QuietSweep /\ UNCHANGED <<owners, context>>

FailIsRefused(h) ==
  /\ At(h, "fail")
  /\ ~CanTransition(mem[handler[h].run].status, "error")
  /\ FailEnds(h)
  /\ QuietStore /\ QuietSweep /\ UNCHANGED <<owners, context>>

FailSaves(h, saved) ==
  /\ At(h, "failSave")
  /\ Store!Update(handler[h].run, handler[h].copy, saved)
  /\ FailEnds(h)
  /\ QuietSweep /\ UNCHANGED <<owners, context>>

-----------------------------------------------------------------------------
(* The rest of execute_multi: the handler drives the two instruments.      *)

(* A lease that raises fails the run.                                      *)
DualLeases(h, leased) ==
  LET r == handler[h].run
  IN  /\ At(h, "lease")
      /\ Goes(h, IF leased THEN "drive" ELSE "fail")
      /\ driven' = IF leased THEN [driven EXCEPT ![r] = @ + 1] ELSE driven
      /\ QuietStore /\ UNCHANGED <<sweepVars, owners, callback, context>>

(* execute_dual_keithley_run: the copy is completed, or a command or the   *)
(* teardown of the source has raised.                                      *)
DualDrives(h, done) ==
  LET completed == [handler[h].copy EXCEPT !.status = "completed"]
  IN  /\ At(h, "drive")
      /\ IF done /\ CanTransition(handler[h].copy.status, "completed")
           THEN GoesWith(h, "release", completed) ELSE Goes(h, "fail")
      /\ QuietStore /\ QuietSweep /\ UNCHANGED <<owners, context>>

(* The finally clause; only a run that did not fail goes on from it.       *)
DualReleases(h) ==
  LET r == handler[h].run
  IN  /\ At(h, "release")
      /\ Ownership!ReleaseMany(plan[r].addresses, r)
      /\ IF handler[h].copy.status = "completed" THEN Goes(h, "save") ELSE Returns(h)
      /\ QuietStore /\ QuietSweep /\ UNCHANGED context

DualSaves(h, saved) ==
  /\ At(h, "save")
  /\ Store!Update(handler[h].run, handler[h].copy, saved)
  /\ Returns(h)
  /\ QuietSweep /\ UNCHANGED <<owners, context>>

-----------------------------------------------------------------------------
(* stop_run.                                                               *)

StopReads(h, r) ==
  /\ StopsHappen
  /\ At(h, "idle") /\ Store!Known(r) /\ OtherMayBegin(r)
  /\ ~plan[r].dual
  /\ mem[r].status = "running" /\ mem[r].linked
  /\ Begins(h, "stopping", r, mem[r], None)
  /\ QuietStore /\ QuietSweep /\ UNCHANGED <<owners, context>>

StopTransitions(h, saved) ==
  /\ At(h, "stopping")
  /\ Store!Transition(handler[h].run, "stopping", saved)
  /\ IF saved THEN Goes(h, "stopSweep") ELSE Returns(h)
  /\ QuietSweep /\ UNCHANGED <<owners, context>>

StopIsRefused(h) ==
  /\ At(h, "stopping")
  /\ ~CanTransition(mem[handler[h].run].status, "stopping")
  /\ Returns(h)
  /\ QuietStore /\ QuietSweep /\ UNCHANGED <<owners, context>>

StopLooksUp(h) ==
  LET r == handler[h].run
  IN  /\ At(h, "stopSweep")
      /\ \/ Sweep!StopLookup(h, r) /\ Goes(h, "stopRuns")
         \/ r \notin sessions /\ Goes(h, "fail") /\ UNCHANGED sweepVars
      /\ QuietStore /\ UNCHANGED <<owners, callback, driven, context>>

StopRuns(h) ==
  /\ At(h, "stopRuns")
  /\ Sweep!StopStep(h)
  /\ IF stopper'[h].at = "idle" THEN Returns(h) ELSE UNCHANGED handler
  /\ QuietStore /\ UNCHANGED <<owners, callback, driven, context>>

-----------------------------------------------------------------------------
(* The sweep's thread.                                                     *)

SweepWorks(r) ==
  /\ up
  /\ Sweep!Work(r)
  /\ worker[r] = "enter" /\ worker'[r] = "callback" => SessionsVanish
  /\ QuietStore /\ UNCHANGED <<owners, handler, callback, driven, context>>

InCallback(r, place) == up /\ worker[r] = "callback" /\ callback[r] = place

(* Fault: the release is not in a finally clause.                          *)
CallbackMarksHealthAlone(r, found) ==
  /\ InCallback(r, "health")
  /\ IF status[r] = "error" /\ ~found
       THEN Sweep!Finish(r) /\ UNCHANGED callback
       ELSE callback' = [callback EXCEPT ![r] = "sync"] /\ UNCHANGED sweepVars
  /\ QuietStore /\ UNCHANGED <<owners, handler, driven, context>>

(* mark_unhealthy raises when the session is gone, and the rest of the try *)
(* is skipped.                                                             *)
CallbackMarksHealth(r, found) ==
  /\ InCallback(r, "health")
  /\ callback' = [callback EXCEPT ![r] =
                    IF status[r] = "error" /\ ~found THEN "release" ELSE "sync"]
  /\ QuietStore /\ UNCHANGED <<sweepVars, owners, handler, driven, context>>

(* Fault: only completed sweeps are written back.                          *)
CallbackSyncsCompletion(r, saved) ==
  /\ InCallback(r, "sync")
  /\ IF status[r] = "completed" THEN Store!UpdateFromSweep(r, "completed", saved)
                                ELSE QuietStore
  /\ callback' = [callback EXCEPT ![r] = "release"]
  /\ UNCHANGED <<sweepVars, owners, handler, driven, context>>

(* update_from_sweep; whatever it raises, the release follows.             *)
CallbackSyncs(r, saved) ==
  /\ InCallback(r, "sync")
  /\ \/ Store!UpdateFromSweep(r, status[r], saved)
     \/ /\ ~(IsTerminal(status[r]) /\ CanTransition(mem[r].status, status[r]))
        /\ QuietStore
  /\ callback' = [callback EXCEPT ![r] = "release"]
  /\ UNCHANGED <<sweepVars, owners, handler, driven, context>>

CallbackReleases(r) ==
  /\ InCallback(r, "release")
  /\ Ownership!ReleaseMany(plan[r].addresses, r)
  /\ Sweep!Finish(r)
  /\ QuietStore /\ UNCHANGED <<handler, callback, driven, context>>

-----------------------------------------------------------------------------
(* The rest of the world.                                                  *)

(* Schemas are edited, sessions change, commands change tracked state.     *)
ContextChanges ==
  /\ context' \in Fingerprints \ {context}
  /\ QuietStore /\ QuietSweep /\ UNCHANGED <<owners, handler>>

(* The threads and everything but the files are gone.                      *)
Crash ==
  /\ Store!Crash
  /\ sessions' = {}
  /\ status' = [r \in Runs |-> "planned"]
  /\ event' = [r \in Runs |-> "none"]
  /\ starter' = [r \in Runs |-> "idle"]
  /\ worker' = [r \in Runs |-> "none"]
  /\ target' = [r \in Runs |-> "error"]
  /\ stopper' = [h \in Handlers |-> Sweep!IdleStopper]
  /\ owners' = [a \in Addresses |-> None]
  /\ handler' = [h \in Handlers |-> IdleHandler]
  /\ callback' = [r \in Runs |-> "health"]
  /\ UNCHANGED <<context, driven>>

Restart ==
  /\ \E unread, stuck, written \in SUBSET Runs :
       /\ Store!Restart(unread, stuck, written)
       /\ WritesFail \/ (unread = {} /\ up')
  /\ QuietSweep /\ UNCHANGED <<owners, handler, context>>

-----------------------------------------------------------------------------
Handles(h) ==
  \/ DryRunFingerprints(h)
  \/ ExecuteFingerprints(h) \/ ExecuteIsAnswered(h)
  \/ ExecuteOwns(h) \/ ExecuteBreaks(h)
  \/ \E found \in BOOLEAN : ExecuteFindsSession(h, found)
  \/ ExecuteRegisters(h) \/ ExecuteLaunches(h) \/ ExecuteUndoes(h)
  \/ FailIsRefused(h) \/ DualReleases(h)
  \/ \E done \in BOOLEAN : DualLeases(h, done) \/ DualDrives(h, done)
  \/ StopIsRefused(h) \/ StopLooksUp(h) \/ StopRuns(h)
  \/ \E saved \in Saves :
       \/ DryRunSaves(h, saved)
       \/ ExecuteReserves(h, saved) \/ ExecuteLinks(h, saved)
       \/ FailTransitions(h, saved) \/ FailSaves(h, saved)
       \/ DualSaves(h, saved)
       \/ StopTransitions(h, saved)

CallsBack(r) ==
  \/ \E found \in BOOLEAN : (found \/ SessionsVanish) /\ CallbackMarksHealth(r, found)
  \/ \E saved \in Saves : CallbackSyncs(r, saved)
  \/ CallbackReleases(r)

Requests ==
  \/ \E r \in Runs, saved \in Saves : CreatePlan(r, saved)
  \/ \E h \in Handlers, r \in Runs :
       \/ \E valid \in BOOLEAN : DryRunReads(h, r, valid)
       \/ \E k \in Keys : ExecuteReads(h, r, k)
       \/ StopReads(h, r)

Next ==
  /\ \/ Requests
     \/ \E h \in Handlers : Handles(h)
     \/ \E r \in Runs : SweepWorks(r) \/ CallsBack(r)
     \/ ContextChanges
     \/ Crash
     \/ Restart
  /\ UNCHANGED plan

Spec == Init /\ [][Next]_vars

(* A request that was accepted is worked on, and so is a sweep; nobody has *)
(* to send a request, and the process need not crash or come back.         *)
Fairness ==
  /\ \A h \in Handlers : WF_vars(Handles(h) /\ UNCHANGED plan)
  /\ \A r \in Runs : /\ WF_vars(SweepWorks(r) /\ UNCHANGED plan)
                     /\ WF_vars(CallsBack(r) /\ UNCHANGED plan)

FairSpec == Spec /\ Fairness

-----------------------------------------------------------------------------
(* Properties.                                                             *)

(* A validated run drives hardware at most once: whatever overlaps, fails  *)
(* or crashes, at most one sweep is ever started for it.                   *)
AtMostOneSweep == \A r \in Runs : driven[r] <= 1

Driving(r) ==
  \/ worker[r] \notin {"none", "done"}
  \/ \E h \in Handlers : Serves(h, r) /\ handler[h].at = "drive"

(* Who drives instruments has their addresses to itself, for all that other*)
(* agent runs do: a sweep until its callback lets go, the handler of a     *)
(* dual-device run while it drives both.                                   *)
SweepOwnsItsAddresses ==
  \A r \in Runs : Driving(r) => \A a \in plan[r].addresses : owners[a] = r

(* What the handlers and the callback do with the store is what RunStore   *)
(* asks of its callers: no update undoes a reservation.                    *)
ImplementsRunStore == Store!Spec

(* An address is never owned forever: every operation lets go of it.       *)
AddressesComeFree ==
  \A r \in Runs, a \in Addresses : owners[a] = r ~> owners[a] # r

(* The thread is over, and so is whoever was stopping it.                  *)
Settled(r) == worker[r] = "done" /\ ~ \E h \in Handlers : Serves(h, r)

(* Once a sweep is over, the agent's run has its outcome                   *)
(* (...run-lifecycle-idempotency-design.md:502).                           *)
AgentFollowsSweep ==
  \A r \in Runs : Settled(r) => mem[r].status = status[r]

Executing(r) == Store!Known(r) /\ mem[r].status \in Active

(* A run that is executing reaches a terminal state, unless the process    *)
(* stops first (...run-lifecycle-idempotency-design.md:9-12).              *)
RunsSettle == \A r \in Runs : Executing(r) ~> ~Executing(r)
=============================================================================
