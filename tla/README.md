# A verification of instr-core

instr-core lets people and language models plan laboratory experiments, checks
them, and drives VISA instruments. This directory holds TLA+ models of the part
of it that must not go wrong: what is executed, how often, by whom, and in
which state the instruments and the records are left. TLC checks the models on
small instances, TLAPS proves theorems about them for all values of the
constants. Paths below are relative to the repository.

- [1. The system](#1-the-system): components, state, interactions, hazards
- [2. The modules](#2-the-modules): what models what
- [3. The runs](#3-the-runs): what is checked, with which bounds and fairness
- [4. The proofs](#4-the-proofs)
- [5. Where code and documents disagree](#5-where-code-and-documents-disagree)
- [6. What is not modelled](#6-what-is-not-modelled), [7. Plan](#7-plan)

`PROJECT.json` lists components, runs, mutants, theorems and hazards, and maps
every definition to the lines it models. `tlc -config X.cfg M` repeats a run,
`tlapm M.tla` the proofs of a module `M` whose name ends in `Proofs`.

## 1. The system

`src/instr_core` is one Python process. Its FastAPI handlers are plain `def`
functions, so they run concurrently in a thread pool; every single-device sweep
has a daemon thread of its own. The components share memory and call each
other; the run store alone has files. A Tauri desktop application and an MCP
server are clients of the same code.

| Component | State | Operations | What makes it correct |
|---|---|---|---|
| Run lifecycle (`run_lifecycle.py`) | none: a table | `can_transition`, `transition_run` | terminal means terminal |
| Run store (`agent/store.py`) | `_runs`, JSON files | create, get, update, transition, reserve_execution, update_from_sweep, recovery at startup | a run is granted once, durably; files only move forward |
| Sweep engine (`sweep/engine.py`), teardown (`safety.py`) | `_sessions`, status, stop event, thread | start_sweep, stop_sweep, the thread, on_complete | output off or reported; honest outcome; every sweep ends |
| Address ownership (`api/services/ownership_service.py`) | owner per address | acquire(_many), release(_many), snapshot | one owner; always released |
| VISA sessions (`api/services/session_manager.py`) | table, resource, health, lock per session | connect, get, lease, mark_unhealthy, disconnect, shutdown | one published open resource per address; none lost; none closed in use |
| Agent routes (`api/routes/agent.py`, `agent/planner.py`) | locals of a handler | plan, dry-run, execute, stop, the two-device variants | one sweep per run; run and sweep end alike |
| Sweep and VISA routes (`api/routes/{sweep,visa}.py`) | virtual state per address | start, stop; connect, command, disconnect, reconnect, emergency stop | instruments are driven by their owner |
| Validation context (`agent/context.py`) | none: a hash | fingerprint | a stale validation is refused |
| Application state (`api/dependencies.py`) | the singletons above | start, shutdown | outputs off, sessions closed |
| Sweep configuration (`sweep/models.py`, `api/services/sweep_service.py`), previews (`agent/planner.py`) | none | order, limits, points, estimate, preview | levels within limits; the whole range; what is validated is what is sent |
| Validator, schemas, IDN parser, registry client | schema table, cache | validate_command, rules before and after a command | unsafe commands are refused |
| MCP server (`server.py`) | none | validate_command_sequence | its verdict is the dry-run's |
| Goal parser, LLM planner, desktop | client state | | |

How an execution runs through them: `execute` copies the run out of the store,
recomputes the fingerprint, reserves the run (on disk), acquires the address,
finds the session, writes the link to the sweep, and starts the engine's
thread. The thread takes the lease of the session, drives the instrument, turns
the output off, sets its terminal status and calls the completion callback,
which marks the session's health, writes the outcome to the store and releases
the address. `execute_multi`, for a run on two instruments, goes the same way up
to the sessions, and then does everything in its handler: it takes both leases
in the order of their addresses, drives both instruments, turns the source off,
releases the addresses in a `finally`, and only then writes the result. Each of
these is a call to a component with a lock of its own, and
none holds a lock over two calls - except a sweep or a dual run, which holds
its leases while it works.

The hard behaviours follow from that: copies written back after somebody else
changed the record; a stop between two steps of a completion; checks and
assignments separated by a thread switch; sessions removed between a lookup and
the lock; writes and VISA calls that fail, perhaps after they had their effect;
a process that dies with runs active. `PROJECT.json` lists them by line under
"hazards", with the properties that would catch each of them.

## 2. The modules

    RunLifecycle <--- RunStore ---------> ExperimentRun    (refinement)
         ^                ^
         |                |
    SweepControl <--------+--- SweepEngine                 (refinement)
         ^                |
         +--- AgentExecution ---> AddressOwnership <--- InstrumentAccess ---> VisaSessions
                                                                       ^
                      SweepPlan ---> CommandRules <--- CommandPath ----+

**RunLifecycle** is the enumeration and the transition table.
`transition_run` is a check and an assignment: where a lock spans the two they
are a step, where it does not they are two.

**RunStore** models `AgentRunStore`. `mem` is `_runs`, `disk` the directory
(`Quarantined` is a file renamed `.corrupt-*`), `up` the process. Each operation
holds the lock from its first read to the end of `_persist`, so it is one
step, with the two outcomes the code has: memory and file change, or the write
raises and only memory does, because the record is changed before it is
written. A record keeps the fields that decide anything: status, reservation
key and fingerprint, validation fingerprint and result, and whether a sweep
is linked. `update` writes back whatever it is given, so its promise depends on
its callers: `Respects` says what they must do, and AgentExecution checks that
they do. `Restart` is `__init__`: files may be unreadable, may not even be
renamed, and a recovery write may fail, which ends the startup.

**ExperimentRun** is what the store promises: open, executing, closed; one
grant, and no way back. `RunStore!ImplementsExperimentRun` is the refinement:
the phase is a function of the file and of the grant, not of memory.

**SweepControl** is the engine without the instrument: registering, the
start of the thread, the worker's last transition, the callback, and the
concurrent `stop_sweep`. The check and the assignment of `transition_run` are
separate steps, because `stop_sweep` does not take the lock the worker holds.
**SweepEngine** adds the thread's work: seven setup writes, the scan, the three
attempts of `safe_turn_off_output` in the try and in the except branch. `output`
and `limited` are the instrument's. A write that raises may or may not have
reached it. SweepEngine implements SweepControl, with its fairness.

**AddressOwnership** is the registry; every operation is a step.

**AgentExecution** composes store, engine and ownership with the handlers of
`agent.py`: plan, dry-run, execute, stop, and the completion callback. `plan[r]`
says what a run is for: one instrument, whose run gets a sweep with a thread and
a callback, or two, whose run is driven by the handler of its request
(`DualLeases`, `DualDrives`, `DualReleases`, `DualSaves`). The two kinds share
the steps up to the search for the session, as `execute` and `execute_multi`
share their code. `InFinally` is the `finally` that gives the addresses of a dual
run back, whatever failing the run raises. `ExecuteBreaks` is a dual run sent to
`execute`, which dies of an AttributeError behind the reservation. A dual plan
may name one address twice, since nothing refuses it. A handler's locals (its
copy of the run, its fingerprint)
are in `handler`, and two handlers interleave between any two calls they make to
a shared component. A refused request that touches nothing is no step. Sweep
`swp-<run>` carries the name of its run. `context` is the current
fingerprint and may change at any moment. Five switches bound what the world
does: `DryRunOverlaps`, `StopsHappen`, `SessionsVanish`, `WritesFail`,
`WrongRoutes`.

**VisaSessions** models `VisaSessionManager`. A session is named by its
resource. A step is what happens under one lock, or one pyvisa call, so a
thread that has looked a session up waits for its lock in a state of its own.
`LeaseLooks` and `LeaseEnters` are the two halves of `lease`; `Fails` is the
proxy that marks a session unhealthy when a call raises.

**InstrumentAccess** composes VisaSessions and AddressOwnership with everybody
who talks to instruments: sweeps of either kind, dual runs with two leases in
sorted order, connect, command, disconnect and reconnect, the emergency
stop, and the shutdown. `shutdown_app_state` walks over the owned addresses as
the emergency stop does (so it is the same thread, with `estop.final` set), and
then closes every session; sweeps, whose threads are nobody's, go on meanwhile
and may wait for a lease or meet a closed session. `kind` tells the three
completions apart: the agent's callback and the
dual run's `finally` always release the address, the sweep route's does not when
`mark_unhealthy` raises.

**CommandRules** is `validate_command` and `sets_state` as operators over a
command definition and a state: requires, forbidden_when, the rules of a
sequence before and after it, arguments and limits, compliance. It has no state
of its own.

**SweepPlan** is what becomes of a configuration. `Make` is the request's model
with its two validators, `StartDirectly` and `DryRun` are the two ways to be
admitted (limits only, or limits and the validated preview), `SendSetup` and
`Measure` send what the engine or the dual run sends. The formulas that the code
writes more than once (the points in engine.py and planner.py, the setup
in engine.py, planner.py and in two previews, the state of a sequence in
planner.py twice and in server.py) are kept apart where they can differ:
`Setup` is not `Preview`, and `Previewed`, `DryRunState` and `Updated` are three
operators. `route` is how the sweep is started; a dual run sources voltage
whatever its configuration says.

**CommandPath** is one instrument with its virtual state: `POST /command` from
the preflight over lease and write to the update of `address_state` (`tracked`),
connect, disconnect and reconnect, which forget it, and an operation (a sweep in
either mode or an emergency stop) that changes the instrument without updating
it. `device` is what the instrument is really set to. Sessions and leases are
VisaSessions with one address.

The `*Proofs` modules hold the theorems about the module they are named after,
with the inductive invariants and the lemmas: `RunStoreProofs`,
`AgentExecutionProofs` (which uses `RunStoreProofs` for the store in it) and
`AgentOutcomeProofs` on top of it, `SweepEngineProofs`, `VisaSessionsProofs`,
`InstrumentAccessProofs` (which uses `VisaSessionsProofs` for the sessions in
it), `SweepPlanProofs`, `CommandPathProofs`. Section 4 says what they show.

The `MC*` modules give constants their values. Operators marked `Fault:` are
not part of any specification. Each is the mutated form of the definition that
follows it, a plausible mistake in the same code; replacing one by the other
makes a property fail. They show that the properties say something about the
code ("mutants" in `PROJECT.json`, one for every property of a passing run).

## 3. The runs

Twelve runs; eight must pass, four must find the violation they name. Deadlock
is checked in all of them.

| Run | What it shows |
|---|---|
| `run_store` (MCRunStore.cfg) | With failing writes, crashes, unreadable files and failing recoveries: `AtMostOneGrant`, `GrantIsDurable` (a reservation that was answered is on disk and stays spent), `DiskLags` (a file is never ahead of memory nor on another branch), `FilesOnlyMoveForward`, `RestartRunsNothing`, and the refinement of ExperimentRun. |
| `sweep_engine` (MCSweepEngine.cfg) | However a sweep ends, its output is off or reported unsafe (`OffOrReported`); from its reset on it is never on without the compliance limit (`OnlyOnWithLimit`); completed means all levels, aborted means stopped (`OutcomeIsHonest`); the thread implements SweepControl, ends (`SweepEnds`), and a stop that reaches it while it drives ends it as a stop (`StopEndsTheSweep`). |
| `agent_failures` (MCAgentFailures.cfg) | All failures at once, one run of any plan: instruments are driven for it at most once (`AtMostOneSweep`), the handlers use the store as `Respects` demands (`ImplementsRunStore`), and every address is always released (`AddressesComeFree`), by a callback, an except branch or the `finally` of a dual run. |
| `agent_outcome` (MCAgentOutcome.cfg) | Two runs, each for one instrument or for two, compete, without stops and failures outside VISA: a sweep has its address to itself until its callback lets go, a dual run both of its own while it drives them (`SweepOwnsItsAddresses`); every executing run settles, with its sweep's outcome. |
| `visa_sessions` (MCVisaSessions.cfg) | Overlapping connects, leases, failures and disconnects: what is published is open, no healthy open resource is forgotten, nothing is closed under a lease. |
| `instrument_access` (MCInstrumentAccess.cfg) | Whoever has a lease owns its addresses unless an emergency stop took them (`DrivesWhatItOwns`), and nobody waits in a circle for session locks (`NoWaitCycle`), even when a second dual run starts after an emergency stop or a shutdown meets sweeps that still run. When the shutdown is over, nothing is published, what a sweep still holds is closed, and no healthy connection is left open (`DownLeavesNothing`). An operation that is over owns nothing, except a failed sweep that was started directly (`OverOwnsNothing`). |
| `sweep_plan` (MCSweepPlan.cfg) | For every configuration over the bounds, in each direction and mode and by each way to start it: no level that is set exceeds the limit of what is sourced (`LevelsWithinLimits`), the dry-run's estimate is exact (`EstimateIsExact`), both ends of the range are measured and no step is longer than one and a half (`SweepCoversTheRange`), every command of the real setup is allowed where it comes, though another list was validated (`SetupIsValidated`), and the planner and the MCP server find the same commands wanting (`VerdictsAgree`). |
| `command_path` (MCCommandPath.cfg) | With the schema of the Keithley 2600 fixture, a command that needs the output off, or must not meet it on, reaches the instrument only in that state (`OutputAsValidated`), although it is validated against a virtual state that sweeps, emergency stops, failed writes and reconnects do not update. It holds because what they leave on comes with an unhealthy session, and the reconnect forgets what was tracked. |
| `agent_overlap`, `agent_late_stop`, `agent_lost_session`, `instrument_disconnect` | The four disagreements of section 5. |

### Bounds

- `run_store`: two runs, because a restart handles several at once and may
  lose one, recover one and fail on another. One key and one fingerprint: the
  store compares them with `None` and with themselves. Nothing is bounded
  beyond the constants, `grants` included: what keeps it at 1 is proved.
- `sweep_engine`: one sweep (sweeps share only the table), two levels (a first
  and a last), two stops (one can be between its check and its assignment when
  the other has set the event). `Levels` is any positive number in the module.
- `agent_failures`: one run, two contexts, one key, two handlers. Every pair of
  requests overlaps. The run is for one instrument, for two, or for one that is
  named twice (`AnyPlan`). Two runs meet only at their addresses, which is the
  question of `agent_outcome`, so that run has two runs, each for one
  instrument or for both (`SingleOrDual`), and one context.
  `agent_overlap`, `agent_late_stop` and `agent_lost_session` have two keys and
  runs for one instrument.
- `visa_sessions`: one address, three resources, three threads. Two connects
  and a disconnect (or a lease) overlap; three resources let a session be
  replaced twice.
- `instrument_access`: two addresses, two resources, two operations (dual or
  sweep), one client, one emergency stop. Two resources allow two open sessions
  at two addresses for a dual run, or an address that is reconnected under a
  sweep. An operation runs once; a client and the emergency stop repeat, and the
  shutdown is the end.
- `sweep_plan`: eight levels around zero, steps of 1 to 3, three compliance
  limits, a point limit of 6, and the schema of the Keithley 2600 fixture with
  its limits scaled to 3 and 1. There are ranges of no length, shorter than a
  step, of a whole number of steps, and with each remainder that a step of 2 or
  3 leaves, 2 giving the ties of `round`; levels and compliance limits within
  both limits, one, or none; and ranges beyond the point limit. Nothing else is
  bounded: a sweep of six points and back is the longest.
- `command_path`: one manual request at a time and one operation beside it: the
  question is whether the virtual state survives what is done behind it. With
  two requests at a time the property fails (section 5). Two resources: the
  session is replaced under an operation that still holds the old one. The
  instrument is recognised when it connects.

Symmetry is used only where no liveness property is checked.

### The world that is assumed

`DryRunOverlaps` is FALSE in the passing runs: the desktop panel disables its
buttons while a request is pending
(`desktop/src/components/agent/DualKeithleyPanel.tsx:200-286, 425-428`), so a
dry-run of a run does not overlap another request for it. Nothing in the
backend enforces this; `agent_overlap` shows what happens otherwise.
`StopsHappen`, `SessionsVanish`, `WritesFail` and `WrongRoutes` are FALSE in
`agent_outcome` because its liveness and outcome properties do not survive them,
and `agent_late_stop`, `agent_lost_session` and section 5 say how. They are TRUE
in `agent_failures`.

The shutdown begins when no request is being served (`HandlersIdle`): uvicorn
answers the requests it has before the lifespan of `api_server.py` ends.
Otherwise a connect that is under way could publish a session behind the
shutdown. Nothing waits for the threads of sweeps, and the model does not
either.

In SweepPlan levels, steps and limits are whole numbers of some unit, and a
configuration is sent as it was planned: the two floating-point effects, a
quotient that rounds the other way and the six digits of the `:g` that
planner.py formats with, are not in it.

### Fairness

Weak fairness, per thread, of the steps a thread takes on its own: VISA calls
return or time out (pyvisa sessions have timeouts), the operating system
schedules threads, and locks are held for bounded sections. In SweepControl and
SweepEngine that is the start of a registered sweep, its thread, and each stop
request; in AgentExecution each handler and each sweep thread with its callback.
No client is obliged to send a request, the process neither has to crash nor to
come back, and nothing is fair about failures: a write or a command may fail
always or never. RunStore, VisaSessions, InstrumentAccess, CommandPath and
SweepPlan are checked for safety only and have no fairness.

## 4. The proofs

Eight modules hold 36 theorems. Each proves, for every value of the constants
that its named assumptions admit, what a run checks on an instance.

| Module | Theorem | Property |
|---|---|---|
| `RunStoreProofs` | `TypeCorrect` | `TypeOK` |
| | `AtMostOnce` | `AtMostOneGrant` |
| | `GrantsAreDurable` | `GrantIsDurable` |
| | `FilesLag` | `DiskLags` |
| | `FilesMoveForward` | `FilesOnlyMoveForward` |
| | `RestartIsQuiet` | `RestartRunsNothing` |
| | `Refinement` | `ImplementsExperimentRun`: `Spec => Abstract!Spec` |
| `AgentExecutionProofs` | `TypeCorrect` | `TypeOK` |
| | `HardwareIsDrivenOnce` | `AtMostOneSweep` |
| | `DriversOwn` | `SweepOwnsItsAddresses` |
| | `StoreImplemented` | `ImplementsRunStore`: `Spec => Store!Spec` |
| `AgentOutcomeProofs` | `OutcomeIsFollowed` | `AgentFollowsSweep` |
| `SweepEngineProofs` | `TypeCorrect` | `TypeOK` |
| | `OutputIsOffOrReported` | `OffOrReported` |
| | `OutputIsOnOnlyWithLimit` | `OnlyOnWithLimit` |
| | `OutcomesAreHonest` | `OutcomeIsHonest` |
| | `ControlRefinement` | `Spec => Control!Spec`, the safety part of `ImplementsControl` |
| `VisaSessionsProofs` | `TypeCorrect` | `TypeOK` |
| | `WhatIsPublishedIsOpen` | `PublishedIsOpen` |
| | `NoOpenSessionIsForgotten` | `NoneForgotten` |
| | `ALeaseKeepsItsSessionOpen` | `LeaseKeepsOpen` |
| `InstrumentAccessProofs` | `TypeCorrect` | `TypeOK` |
| | `SessionsImplemented` | `Spec => Visa!Spec` |
| | `WhatIsDrivenIsOwned` | `DrivesWhatItOwns` |
| | `NothingIsLeftOwned` | `OverOwnsNothing` |
| | `ShutdownLeavesNothing` | `DownLeavesNothing` |
| | `NobodyWaitsInACircle` | `NoWaitCycle` |
| `SweepPlanProofs` | `TypeCorrect` | `TypeOK` |
| | `LevelsAreWithinLimits` | `LevelsWithinLimits` |
| | `TheEstimateIsExact` | `EstimateIsExact` |
| | `TheRangeIsCovered` | `SweepCoversTheRange` |
| | `TheVerdictsAgree` | `VerdictsAgree` |
| | `TheSetupIsValidated` | `SetupIsValidated` |
| `CommandPathProofs` | `TypeCorrect` | `TypeOK` |
| | `SessionsImplemented` | `Spec => Visa!Spec` |
| | `CommandsMeetTheOutput` | `OutputAsValidated` |

Every proof has the same frame: an inductive invariant `IInv` (`OInv` in
AgentOutcomeProofs), a lemma per action that says the action keeps it, and
theorems that read the property off the invariant. Each invariant was
model-checked as an invariant of the component's run before it was proved. An
action property, and a refinement, follows from the invariant in the state
before the step, by cases on the same actions.

The components fit together by two refinements. `StoreImplemented` says that
handlers, callbacks, crashes and restarts use the store as RunStore asks of its
callers (`Respects`), so every theorem about RunStore is true of
AgentExecution. `SessionsImplemented` says the same of routes, emergency stop
and shutdown with the session manager, so every theorem about VisaSessions is
true of InstrumentAccess. Both are used: `HardwareIsDrivenOnce` rests on
`AtMostOneGrant` of RunStore, `ShutdownLeavesNothing` on `NoneForgotten` of
VisaSessions.

### The store

`AtMostOneGrant` is not inductive: a state with one grant and a run whose record
in memory could be reserved again satisfies it and leads to a second grant.
The invariant that is inductive is

    IInv == TypeOK /\ Records /\ DiskLags /\ GrantIsDurable /\ AtMostOneGrant

`Records` says that a record has a reservation exactly if it has left the
executable statuses. With `DiskLags` it carries the argument: a run with a
grant is spent on disk (`GrantIsDurable`); memory is never behind the disk
(`DiskLags`), so it is spent in memory too and `MayReserve` refuses it; what a
restart loads comes from that same file. A reservation whose write failed is
only in memory, was answered with an exception and counts no grant: the process
refuses it from then on, and after a crash the older file may be reserved once.

### Executions

`HardwareIsDrivenOnce` needs to know that a copy a handler holds is not written
over a reservation, and that a grant is spent by one handler. The invariant
says this of every run: a dry-run has its run to itself (`DryAlone`); the handler
that got the reservation is alone, but for those that still ask for one, until it
has given the run to a sweep, and its copy is the record (`EarlyAlone`); one
handler executes a run, and before it starts nothing was driven
(`ExecutesAlone`); what is served beyond the reservation, linked or driven has a
grant behind it (`Granted`); each route keeps to its kind of run (`Routes`); a
handler that fails its run writes back what the store has (`Failing`); who
drives, or is about to, owns its addresses (`Owning`). With the store's own
invariant these make `driven <= grants <= 1`.

`DryAlone` is where the hypothesis `~DryRunOverlaps` of the four theorems comes
from. It is not there for convenience: `agent_overlap` (section 5) is a
behaviour without it that drives a run twice. Stops, vanishing sessions, failing
writes, crashes, restarts and wrong routes are all admitted.

`OutcomeIsFollowed` adds `Settling`: a run has one handler with its reservation
and none once a sweep has it (`HeldAlone`), and sweep and record are both
running until the thread has assigned its outcome and the callback has
synchronised it (`InStep`). Its hypothesis is

    Undisturbed == ~DryRunOverlaps /\ ~StopsHappen /\ ~SessionsVanish

because `agent_late_stop` and `agent_lost_session` are the counterexamples
without the second and the third conjunct. It admits failing writes, crashes
and wrong routes, which the run `agent_outcome` does not: the theorem says more
than the run.

### Sweeps

In SweepEngineProofs, `Phases` relates the state of the thread (which the engine
and its status know) to the phase of `_execute_sweep` (which the instrument
knows): a thread that decides or is over has been through its teardown, unless
it never got its lease. Then `TornDown` (a finished teardown has
reported, and tells the truth) is `OffOrReported`. `OnlyOnWithLimit` needs the
order of the setup: off from the second command on, limited from the fifth
(`Limits`). `OutcomeIsHonest` needs the reason for which the loop was left, kept
through the check and the assignment of the last transition while a stop may
interfere (`Deciding`). The invariant is proved for any number of sweeps, levels
and stop requests.

### Sessions and instruments

VisaSessions: what is published is open, and so is what a thread is about to
publish or to close (`InHandIsOpen`). A resource is published or in one thread's
hand, never both and never twice (`OneOwner`), so closing one cannot touch what
is published. Before its session is published nobody else has heard of a resource
(`Unheard`), so nobody leases what is still being identified.
`NoOpenSessionIsForgotten` is a second invariant, proved with the first.

InstrumentAccess: its invariant is about the three kinds of threads
(`OperationCalls`, `ClientCalls`, `StopperCalls`: which call of the session
manager they can be in), who holds a lease and why (`Leasing`), who owns what
(`Owning`), and the order in which leases are taken (`Ordering`). `Ordering` has
to speak of the sessions and not only of the addresses: a session that was
replaced at its address still belongs to that address for whoever waits for it,
and an operation that holds it took it for that address. From it,
`NobodyWaitsInACircle`: of the threads that wait in a circle one asks for the
address of the largest rank; whoever holds its session is in the circle too, and
asks for a larger one. It holds for any number of threads and any finite number
of instruments. `Downing` says that after
the shutdown has begun there are no clients left to publish a session.

### Plans

`IInv` of SweepPlanProofs says how many levels have been set (`Counted`), that
they are the points of the configuration (`Followed`), and that the configuration
was checked against the limit of what is really sourced (`Checked`). The rest is
arithmetic about `round`, with ties to even as in Python: it is within one half
of the quotient (`RoundIsNear`) and monotonic (`Monotonic`), which gives the
number of points, the two ends and the longest step for every range and
step, not only those of the run.

`TheVerdictsAgree` and `TheSetupIsValidated` compare the copies of a formula that
the code keeps in two or three places, over an arbitrary schema. They have the
hypothesis `PlannerKnowsTheSchema`: the schema has the commands of a sweep, they
set the keys that the planner supposes, to their arguments, and expect no more
afterwards than the output that was asked for. It is needed because
`_apply_preview_state` has a list of keys of its own (`KeysOf`,
planner.py:329-341) instead of asking the schema, and it is what a person who
adds a schema has to respect; TLC evaluates it for the fixture of the Keithley
2600 (`SchemaAssumption` of MCSweepPlan). `Sent` says that during the setup of
an accepted run the instrument is where the preview was.

### Commands

`TypeCorrect` and `SessionsImplemented` of CommandPathProofs hold for any number
of requests. `IInv` says where a request carries a command, and that it has
passed the preflight; that is why only values of the schema are ever recorded.

`CommandsMeetTheOutput` has two hypotheses, which the run has too. `OneClient`:
one request at a time is served about the address, next to any sweeps and
emergency stops. With two it is false (section 5). `GuardsTheOutput`: the schema
only ever requires the output off, a command that must not meet it on requires a
source mode, and the source mode is set with the output off. TLC evaluates it for
the Keithley 2600 (`RulesAssumption` of MCCommandPath). The second and third part
make up for a gap of the preflight, which lets a command through when the key it
must not meet is not known: who knows the source mode knows the output
(`Known`, `ModeSet`).

The heart of the invariant is `Truthful`. What is believed of the output
(`Believed`) is the virtual state, with what the request under way has still to
record. If it is off and the output is not, then an operation is at work on the
session of the address, or that session cannot be used, or the request under way
is about to forget the state. A request that has the lease of a healthy session
(`Leased`) is in none of these cases. `OpLeased` is what keeps `Truthful`: an
operation turns the output on only in the session that is published, or in one
that a disconnect waits to close and whose state it then forgets. A sweep that
cannot turn the output off again has marked its session unhealthy by then
(`FailureStep`).

### What the proofs assume

The named assumptions, which TLC evaluates in the runs: marks such as `None`,
`Absent` and `Quarantined` are not values (`NoneAssumption`, `MarkAssumption`); a
plan for one instrument has one address and none has no address
(`PlanAssumption`); addresses are finite and sorted by an injective rank, as
strings are (`RankAssumption`); every request has a thread of its own,
which is not the one of an operation (`ThreadAssumption`); what a command sets in
the virtual state is a key and a value of it, and the output is set to on or off
(`SchemaAssumption` of CommandPath); `Levels` is positive (`LevelsAssumption`); levels are whole
numbers, steps and limits positive (`NumbersAssumption`); the schema states a
range for the level of a voltage, so that `check_global_limits` looks at it
(`RangeAssumption`); and `output` and `source_mode` are keys of the state that,
among the commands of a setup, only `:OUTP` and `:SOUR:FUNC` set to their
argument (`StateAssumption`).

### What stays with TLC

Liveness and fairness (`SweepEnds`, `StopEndsTheSweep`, `AddressesComeFree`,
`RunsSettle`, and the fair part of `ImplementsControl`), which are out of the
prover's reach, as is ENABLED. The models have no recursive operator. Every
safety property of a passing run is the subject of a theorem.

## 5. Where code and documents disagree

LIFE is `docs/superpowers/specs/2026-06-20-run-lifecycle-idempotency-design.md`,
VISA `docs/superpowers/specs/2026-06-20-visa-session-manager-design.md`.

Shown by a run:

1. `agent_overlap`. `dry_run` (agent.py:185) writes back the copy it read before
   it validated. If an execution was reserved in between, the reservation is
   erased; after a restart a second execution of the run starts a second sweep.
   LIFE:10: "A validated plan must execute at most once".
2. `agent_late_stop`. `stop_run` (agent.py:309) moves the run to `stopping`
   although its sweep has just completed; `update_from_sweep` then refuses
   `completed`, and the run stays `stopping`. LIFE:502.
3. `agent_lost_session`. The lease is entered outside the try of the sweep
   (engine.py:110). When the session is gone, the sweep stays `running`, its
   callback is refused, and the run stays `running`. LIFE:9-12.
4. `instrument_disconnect`. `_reject_owned_address` (visa.py:169) looks at a
   snapshot; an operation that acquires the address before the session is
   removed loses it. VISA:376.

Seen in the models, without a run of their own. The formulas that would forbid
the stop over a terminal status, the stop without an event, the leak of a
replaced resource, the lease of a closed one, the address kept by a sweep, the
points of BOTH and the overlapping commands have each been given to TLC, with the
constants of the passing run of the module (of `command_path`, as said below),
and fail there:

- `stop_sweep` (engine.py:72) changes the status without the engine's lock. The
  worker can assign its terminal status between the check and the assignment of
  the stop (`StopChecks`, `StopAssigns`), which then overwrites it with
  `stopping`. LIFE:81: "No terminal state transitions to another state".
- A stop between registration and the creation of the stop event is answered
  as if it had worked and is lost (engine.py:71, `StopTooEarly`); LIFE:363-367
  sets the event.
- A reservation whose write fails leaves the run `running` in memory
  (store.py:145): no retry and no stop ends it until a restart, which recovers
  the older file. LIFE:194-197 makes it `ERROR`.
- If starting the thread fails after the session is registered, the sweep stays
  registered (engine.py:44-63); LIFE:332 makes both records `ERROR`. The
  model does not let the creation of a thread fail.
- `connect` replaces an unhealthy session without closing its resource
  (session_manager.py:141). `NoneForgotten` excepts this case. VISA:372 says one
  managed resource per connected address.
- A lease may yield a resource that was closed between lookup and lock
  (session_manager.py:161): `LeaseEnters` looks at `healthy` only. VISA:299-303
  says that new borrowers fail.
- The sweep route's callback never releases its address when
  `mark_unhealthy` raises (sweep.py:148, `OperationMarks`). `OverOwnsNothing`
  excepts this case. LIFE:347-348.
- The emergency stop releases the ownership of an operation that has not
  entered its lease yet (visa.py:235), which then drives an instrument it does
  not own (`freed`). VISA:183-184 releases the lease first.
- A dual-device run sent to the single-device route raises AttributeError after
  the reservation (agent.py:217, `ExecuteBreaks`) and stays `running`: with
  `WrongRoutes = TRUE` in MCAgentOutcome.cfg, `RunsSettle` fails. LIFE:9-12.
- A dual run that has driven both instruments and cannot write its result
  (agent.py:510, `DualSaves`) is answered with an exception and recovered as
  interrupted after a restart, although it was completed.
- A BOTH sweep has up to 19,999 points: the way back is not counted
  (`WithinPointLimit`). sweep/models.py:41 says "Ensure total points do not
  exceed 10,000".
- DOWN does not turn a range round as UP does: with start above stop the reversed
  range goes up. It also sets the start level with the output on before it
  jumps to the stop level, the first point of its range (engine.py:152-165).
- A dual run with a configuration of current mode sources voltage and is checked
  against the limits of current mode (planner.py:202); only the schema's own
  limits, applied to the previewed commands, hold its levels back
  (`LevelsWithinLimits`).
- The loop of a sweep is not validated: the previews have a remark in its place.
  The schema of the fixture forbids a level while the output is on
  (`forbidden_when`), which the loop is made of.
- Two commands to one address that overlap (the terminal does not wait for an
  answer, `desktop/src/components/ScpiTerminal.tsx:80-131`): with
  `Clients = {c1, c2}` and `Resources = {r1}` in MCCommandPath.cfg, `:OUTP ON` is validated, waits for
  the lease, and is executed between the preflight and the write of a level, or
  recorded before an earlier `:OUTP OFF` (visa.py:115-131). The level then
  reaches a live output. README.md:73 asks "Is output currently on?"; VISA:162-180
  orders the steps of one command only.
- The virtual state forgets nothing when a sweep or an emergency stop resets the
  instrument (`*RST`, engine.py:144, safety.py:32): a compliance limit that was
  set before is still believed, so `:OUTP ON`, or a level in the other mode, is
  accepted without a limit in the instrument. `OutputAsValidated` is about the
  output only for this reason.
- The teardown report of a completed sweep is not looked at (engine.py:196): a
  sweep can be `completed` with an unsafe report.

## 6. What is not modelled

- Power failure. A crash loses the process; the directory is not synced after
  `os.replace`, so a power failure could bring an old file back.
- Data: SCPI text, measured values, CSV, timestamps, histories, messages.
  Levels and points are numbers, fingerprints and keys model values.
- The loading and matching of schemas (identification strings against schema
  keys), the registry client with its cache, `$ARGUMENT_UPPER` and commands with
  several parameters, the tools of the MCP server that read schemas and format
  text, and how the fingerprint of a context is computed: functions of their
  input, without state that another component changes.
- What the commands of a dual run do to its instruments while they fail (the
  meter's commands and the output of the source): its teardown is the one of
  SweepEngine, and unlike a sweep it is an error when the output may be on.
- The close of the pyvisa ResourceManager at the end of the shutdown.
- The emergency stop in AgentExecution. It takes addresses away from runs, so
  `SweepOwnsItsAddresses` is about what agent runs do to each other;
  InstrumentAccess has it, and `DrivesWhatItOwns` says that nobody else does so.
- The goal parser and the LLM planner (text to configuration, without state)
  and the desktop application (a client, used only to justify
  `DryRunOverlaps`).
- External: pyvisa (open, close, write, query may fail at any call), the
  instrument (executes a command or not), the file system (a write happens or
  raises), the operating system (may end the process at any step).

## 7. Plan

Modelled: RunLifecycle, RunStore with ExperimentRun and its proofs; SweepControl
and SweepEngine; AddressOwnership and AgentExecution, for runs on one instrument
and on two; VisaSessions and InstrumentAccess with the shutdown; CommandRules,
CommandPath and SweepPlan. This order puts "at most once" and "off or reported"
first.

Next, to model:

1. RunStore under power failure: a variant of `Persist` whose rename may be
   lost.
2. The output of the source of a dual run under failing commands, as a second
   user of SweepEngine's teardown.
3. What the fingerprint of a validation context covers, and so which changes
   between a dry-run and an execution are noticed.

Proved: every safety property that a run checks, and the refinements (section 4).

Next, to prove: weaker hypotheses. `AgentFollowsSweep` is proved without stops and
vanishing sessions, as it is checked; what a run's status says with them (it is
never completed unless its sweep is) needs a property of its own. `GuardsTheOutput`
could be replaced by a condition on the schema that a tool checks when a schema is
loaded.
