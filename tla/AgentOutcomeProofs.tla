------------------------- MODULE AgentOutcomeProofs -------------------------
(***************************************************************************)
(* That the agent's run has the outcome of its sweep, for any number of    *)
(* runs, handlers and instruments, with failing writes, crashes and        *)
(* clients that take the wrong route; but where nobody stops a run and no  *)
(* session vanishes, because with a stop or a lost session the code leaves *)
(* the two apart (AgentExecution's findings).                              *)
(*                                                                         *)
(* AgentExecutionProofs says who is alone with a run when.  What is added  *)
(* here is what the sweep and the record say of it on the way: both are    *)
(* running until the thread has assigned its outcome, and the callback     *)
(* carries that over before it lets go (Settling).                         *)
(***************************************************************************)
EXTENDS AgentExecutionProofs

(* The handler has the reservation of the run.                             *)
Holds(h, r) == Serves(h, r) /\ handler[h].at \in Granting

(* A run has at most one such handler, and none once a sweep has it.       *)
HeldAlone(r) ==
  \A h \in Handlers : Holds(h, r) =>
    /\ handler[h].at \notin {"stopping", "stopSweep", "stopRuns"}
    /\ \A g \in Handlers : Holds(g, r) => g = h
    /\ worker[r] = "none"
    /\ handler[h].at \in {"start", "launch"} => mem[r].status = "running"

(* The sweep runs until its outcome is assigned, and the record runs until *)
(* the callback has synchronised it.                                       *)
InStep(r) ==
  /\ starter[r] = "running" => status[r] = "running"
  /\ worker[r] \notin {"callback", "done"} => callback[r] = "health"
  /\ worker[r] = "done" => callback[r] = "release"
  /\ worker[r] # "none" =>
       /\ starter[r] = "started"
       /\ mem[r] # Absent
       /\ IF worker[r] \in {"callback", "done"} THEN status[r] \in Terminal
                                                ELSE status[r] = "running"
       /\ mem[r].status = IF callback[r] = "release" THEN status[r] ELSE "running"

(* A run, its handlers and its sweep go together.                          *)
Settling(r) == HeldAlone(r) /\ InStep(r)

(* The inductive invariant.                                                *)
OInv == IInv /\ \A r \in Runs : Settling(r)

(* The scope of this module.                                               *)
Undisturbed == ~DryRunOverlaps /\ ~StopsHappen /\ ~SessionsVanish

-----------------------------------------------------------------------------
(* What a step may leave of a run.                                         *)

(* What the engine and the store say of a run is as it was.                *)
SameSweep(q) ==
  /\ worker'[q] = worker[q] /\ starter'[q] = starter[q]
  /\ status'[q] = status[q] /\ callback'[q] = callback[q]

(* A run whose record and sweep stay, and whose holders do.                *)
LEMMA SettlingKept ==
  ASSUME NEW q \in Runs, Settling(q), SameSweep(q), mem'[q] = mem[q],
         \A g \in Handlers : \/ handler'[g] = handler[g]
                             \/ ~Holds(g, q)'
  PROVE  Settling(q)'
<1>1. \A g \in Handlers : Holds(g, q)' => Holds(g, q) /\ handler'[g] = handler[g]
  BY DEF Holds, Serves
<1>2. HeldAlone(q)'
  BY <1>1 DEF Settling, HeldAlone, SameSweep
<1>3. InStep(q)'
  BY DEF Settling, InStep, SameSweep
<1>4. QED
  BY <1>2, <1>3 DEF Settling

(* A run that no sweep has yet and at most one handler holds, before and   *)
(* after the step.                                                         *)
LEMMA SettlingFree ==
  ASSUME NEW r \in Runs, Settling(r), NEW h \in Handlers, Alone(h),
         worker[r] = "none", worker'[r] = "none", callback'[r] = callback[r],
         starter'[r] = "running" => status'[r] = "running",
         \A g \in Handlers : Holds(g, r) => g = h,
         Holds(h, r)' =>
           /\ handler'[h].at \notin {"stopping", "stopSweep", "stopRuns"}
           /\ handler'[h].at \in {"start", "launch"} => mem'[r].status = "running"
  PROVE  Settling(r)'
<1>1. \A g \in Handlers : Holds(g, r)' => g = h
  BY DEF Holds, Serves, Alone
<1>2. HeldAlone(r)'
  BY <1>1 DEF HeldAlone
<1>3. InStep(r)'
  BY DEF Settling, InStep
<1>4. QED
  BY <1>2, <1>3 DEF Settling

(* A step of a handler that leaves the other runs alone.                   *)
LEMMA OthersSettle ==
  ASSUME OInv, NEW h \in Handlers, handler[h].at # "idle", Alone(h),
         NEW r \in Runs, r = handler[h].run, handler'[h].run \in {r, None},
         \A q \in Runs : q # r => mem'[q] = mem[q] /\ SameSweep(q),
         Settling(r)'
  PROVE  \A q \in Runs : Settling(q)'
<1> SUFFICES ASSUME NEW q \in Runs, q # r
             PROVE  Settling(q)'
  OBVIOUS
<1>1. None \notin Runs
  BY Facts DEF OInv
<1>2. \A g \in Handlers : handler'[g] = handler[g] \/ ~Holds(g, q)'
  BY <1>1 DEF Alone, Holds, Serves
<1>3. QED
  BY <1>2, SettlingKept DEF OInv

-----------------------------------------------------------------------------
(* The steps of the handlers.                                              *)

(* What a handler's step starts from.                                      *)
LEMMA Start ==
  ASSUME OInv, NEW h \in Handlers, handler[h].at # "idle"
  PROVE  /\ IInv /\ HandlerTyped /\ StoreTyped /\ Serving /\ Sweep!TypeOK
         /\ handler[h].run \in Runs /\ Serves(h, handler[h].run)
         /\ handler[h].copy \in Store!Run /\ mem[handler[h].run] \in Store!Run
         /\ Settling(handler[h].run) /\ RunInv(handler[h].run)
         /\ handler[h].at \in Granting =>
              /\ Holds(h, handler[h].run)
              /\ \A g \in Handlers : Holds(g, handler[h].run) => g = h
              /\ worker[handler[h].run] = "none"
              /\ handler[h].at \notin {"stopping", "stopSweep", "stopRuns"}
BY Begin DEF OInv, IInv, Serves, Holds, Settling, HeldAlone

(* A handler that answers.                                                 *)
LEMMA AnswerSettles ==
  ASSUME OInv, NEW h \in Handlers, handler[h].at # "idle", Returns(h),
         UNCHANGED <<mem, worker, starter, status, callback>>
  PROVE  \A q \in Runs : Settling(q)'
<1>1. Alone(h) /\ handler'[h] = IdleHandler
  BY Start, ReturnsEffect
<1>2. ASSUME NEW q \in Runs
      PROVE  Settling(q)'
  <2>1. ~Holds(h, q)'
    BY <1>1 DEF Holds, IdleHandler, Granting
  <2>2. QED
    BY <1>1, <2>1, SettlingKept DEF OInv, SameSweep, Alone
<1>3. QED
  BY <1>2

(* A handler that goes on without touching the record or the sweep.        *)
LEMMA MoveSettles ==
  ASSUME OInv, NEW h \in Handlers, handler[h].at # "idle",
         UNCHANGED <<mem, worker, starter, status, callback>>,
         NEW to, Steps(h, handler[h].at, to),
         to \in Granting =>
           /\ handler[h].at \in Granting
           /\ to \notin {"stopping", "stopSweep", "stopRuns", "start", "launch"}
  PROVE  \A q \in Runs : Settling(q)'
<1>0. PICK r \in Runs : r = handler[h].run
  BY Start
<1>1. Settling(r) /\ Alone(h) /\ handler'[h].run = r /\ handler'[h].at = to
  BY <1>0, Start DEF Steps
<1>2. CASE to \notin Granting
  <2>1. ASSUME NEW q \in Runs
        PROVE  Settling(q)'
    BY <1>1, <1>2, SettlingKept DEF OInv, SameSweep, Alone, Holds
  <2>2. QED
    BY <2>1
<1>3. CASE to \in Granting
  <2>1. worker[r] = "none" /\ \A g \in Handlers : Holds(g, r) => g = h
    BY <1>0, <1>3, Start
  <2>2. starter'[r] = "running" => status'[r] = "running"
    BY <1>1 DEF Settling, InStep
  <2>3. Settling(r)'
    BY <1>1, <1>3, <2>1, <2>2, SettlingFree
  <2>4. QED
    BY <1>0, <1>1, <2>3, OthersSettle DEF SameSweep
<1>4. QED
  BY <1>2, <1>3

(* The steps that only move the handler.                                   *)
LEMMA QuietHandlers ==
  ASSUME OInv, NEW h \in Handlers,
         \/ DryRunFingerprints(h) \/ ExecuteFingerprints(h)
         \/ ExecuteIsAnswered(h) \/ ExecuteBreaks(h)
         \/ ExecuteOwns(h) \/ ExecuteUndoes(h)
         \/ \E found \in BOOLEAN : ExecuteFindsSession(h, found)
         \/ FailIsRefused(h) \/ DualReleases(h)
         \/ \E done \in BOOLEAN : DualLeases(h, done) \/ DualDrives(h, done)
  PROVE  \A q \in Runs : Settling(q)'
<1>0. /\ handler[h].at # "idle"
      /\ UNCHANGED <<mem, worker, starter, status, callback>>
  BY DEF DryRunFingerprints, ExecuteFingerprints, ExecuteIsAnswered, ExecuteBreaks,
     ExecuteOwns, ExecuteUndoes, ExecuteFindsSession, FailIsRefused, DualReleases,
     DualLeases, DualDrives, At, QuietStore, QuietSweep, storeVars, sweepVars
<1>1. HandlerTyped /\ Serving /\ handler[h].copy \in Store!Run /\ context \in Fingerprints
  BY <1>0, Start, Facts DEF OInv, Rest
<1>2. CASE Returns(h)
  BY <1>0, <1>2, AnswerSettles
<1>3. ASSUME NEW to \in {"find", "fail", "lease", "link", "undo", "release", "save", "drive"},
             handler[h].at \in Granting,
             \/ Goes(h, to)
             \/ \E copy \in Store!Run : GoesWith(h, to, copy)
      PROVE  \A q \in Runs : Settling(q)'
  <2>1. Steps(h, handler[h].at, to)
    BY <1>0, <1>1, <1>3, GoesSteps DEF Places
  <2>2. QED
    BY <1>0, <1>3, <2>1, MoveSettles
<1>4. CASE DryRunFingerprints(h)
  <2>1. [handler[h].copy EXCEPT !.valFp = context] \in Store!Run
    BY <1>1 DEF Store!Run
  <2>2. Steps(h, handler[h].at, "drySave")
    BY <1>0, <1>1, <1>4, <2>1, GoesSteps DEF DryRunFingerprints, Places
  <2>3. QED
    BY <1>0, <2>2, MoveSettles DEF Granting, Dry
<1>5. CASE ExecuteFingerprints(h) /\ ~Returns(h)
  <2>1. Steps(h, handler[h].at, "reserve")
    BY <1>0, <1>1, <1>5, Start DEF ExecuteFingerprints, HandlerTyped, Handler,
       Alone, Steps
  <2>2. QED
    BY <1>0, <2>1, MoveSettles DEF Granting, Asking
<1>6. CASE ExecuteOwns(h) \/ ExecuteUndoes(h)
           \/ \E found \in BOOLEAN : ExecuteFindsSession(h, found)
  BY <1>3, <1>6 DEF ExecuteOwns, ExecuteUndoes, ExecuteFindsSession, At, Granting,
     Places, Dry, Asking
<1>7. CASE FailIsRefused(h) \/ DualReleases(h)
  BY <1>2, <1>3, <1>7 DEF FailIsRefused, FailEnds, DualReleases, At, Granting,
     Places, Dry, Asking
<1>8. ASSUME NEW done \in BOOLEAN, DualLeases(h, done) \/ DualDrives(h, done)
      PROVE  \A q \in Runs : Settling(q)'
  <2>1. [handler[h].copy EXCEPT !.status = "completed"] \in Store!Run
    BY <1>1, Lifecycle DEF Store!Run
  <2>2. QED
    BY <1>3, <1>8, <2>1 DEF DualLeases, DualDrives, At, Granting, Places, Dry,
       Asking
<1>9. QED
  BY <1>2, <1>4, <1>5, <1>6, <1>7, <1>8 DEF ExecuteIsAnswered, ExecuteBreaks

(* A handler that writes the record of a run no sweep has yet.             *)
LEMMA WriteSettles ==
  ASSUME OInv, NEW h \in Handlers, handler[h].at # "idle",
         NEW r \in Runs, r = handler[h].run, NEW run, Stored(r, run),
         UNCHANGED <<worker, starter, status, callback>>,
         worker[r] = "none", \A g \in Handlers : Holds(g, r) => g = h,
         \/ Returns(h)
         \/ \E to \in Places :
              /\ Steps(h, handler[h].at, to)
              /\ to \notin {"stopping", "stopSweep", "stopRuns"}
              /\ to \in {"start", "launch"} => run.status = "running"
  PROVE  \A q \in Runs : Settling(q)'
<1>1. /\ Alone(h) /\ handler'[h].run \in {r, None}
      /\ handler'[h].at \notin {"stopping", "stopSweep", "stopRuns"}
      /\ handler'[h].at \in {"start", "launch"} => run.status = "running"
  <2>1. CASE Returns(h)
    BY <2>1, Start, ReturnsEffect DEF IdleHandler
  <2>2. QED
    BY <2>1 DEF Steps
<1>2. Settling(r) /\ mem'[r] = run
  BY Start DEF Stored
<1>3. Settling(r)'
  BY <1>1, <1>2, SettlingFree DEF Settling, InStep
<1>4. QED
  BY <1>1, <1>3, OthersSettle DEF SameSweep, Stored

(* A dry-run writes to a run that was not executed.                        *)
LEMMA DryRunSavesSettles ==
  ASSUME OInv, NEW h \in Handlers, NEW saved, DryRunSaves(h, saved)
  PROVE  \A q \in Runs : Settling(q)'
<1>0. PICK r \in Runs : r = handler[h].run
  BY Start DEF DryRunSaves, At
<1>1. /\ handler[h].at = "drySave" /\ Serves(h, r) /\ StoreTyped
      /\ handler[h].copy \in Store!Run /\ mem[r] \in Store!Run
      /\ RunInv(r) /\ Settling(r)
  BY <1>0, Start DEF DryRunSaves, At
<1>2. /\ Stored(r, handler[h].copy) /\ Returns(h)
      /\ UNCHANGED <<worker, starter, status, callback>>
  BY <1>0, <1>1, UpdateEffect DEF DryRunSaves, QuietSweep, sweepVars
<1>3. mem[r].status \in Executable /\ \A g \in Handlers : Serves(g, r) => g = h
  BY <1>1 DEF RunInv, DryAlone, Dry
<1>4. worker[r] = "none"
  BY <1>1, <1>3 DEF Settling, InStep, Executable, Terminal
<1>5. QED
  BY <1>0, <1>1, <1>2, <1>3, <1>4, WriteSettles DEF Holds

(* A reservation is granted to a run that has none.                        *)
LEMMA ReservesSettles ==
  ASSUME OInv, NEW h \in Handlers, NEW saved, ExecuteReserves(h, saved)
  PROVE  \A q \in Runs : Settling(q)'
<1>0. PICK r \in Runs : r = handler[h].run
  BY Start DEF ExecuteReserves, At
<1>1. /\ handler[h].at = "reserve" /\ StoreTyped /\ HandlerTyped /\ Serving /\ IInv
      /\ handler[h].key \in Keys /\ handler[h].fp \in Fingerprints
      /\ mem[r] # Absent /\ RunInv(r)
  BY <1>0, Start, OnItsWay DEF ExecuteReserves, At
<1>2. PICK run \in Store!Run :
        /\ Stored(r, run) /\ mem[r].key = None
        /\ UNCHANGED <<worker, starter, status, callback>>
  BY <1>0, <1>1, ReserveEffect DEF ExecuteReserves, QuietSweep, sweepVars
<1>3. grants[r] = 0
  BY <1>1, <1>2, UnkeyedIsUngranted
<1>4. worker[r] = "none" /\ \A g \in Handlers : ~Holds(g, r)
  BY <1>1, <1>3 DEF RunInv, Granted, Holds
<1>5. Returns(h) \/ Steps(h, handler[h].at, "own")
  <2>1. mem'[r] \in Store!Run
    BY <1>2 DEF Stored
  <2>2. QED
    BY <1>0, <1>1, <2>1, GoesSteps DEF ExecuteReserves, Places
<1>6. QED
  BY <1>0, <1>1, <1>2, <1>4, <1>5, WriteSettles DEF Places

(* The copy that is linked is of a run that was reserved: running.         *)
LEMMA LinksSettles ==
  ASSUME OInv, NEW h \in Handlers, NEW saved, ExecuteLinks(h, saved)
  PROVE  \A q \in Runs : Settling(q)'
<1>0. PICK r \in Runs : r = handler[h].run
  BY Start DEF ExecuteLinks, At
<1>1. /\ handler[h].at = "link" /\ Serves(h, r) /\ StoreTyped /\ HandlerTyped /\ Serving
      /\ handler[h].copy \in Store!Run /\ mem[r] \in Store!Run /\ RunInv(r)
  BY <1>0, Start DEF ExecuteLinks, At
<1>2. PICK run \in Store!Run : run = [handler[h].copy EXCEPT !.linked = TRUE]
  BY <1>1 DEF Store!Run
<1>3. run.status = "running"
  <2>1. handler[h].copy = mem[r] /\ mem[r].status = "running"
    BY <1>1 DEF RunInv, EarlyAlone, Early
  <2>2. QED
    BY <1>1, <1>2, <2>1 DEF Store!Run
<1>4. Stored(r, run) /\ UNCHANGED <<worker, starter, status, callback>>
  BY <1>0, <1>1, <1>2, UpdateEffect DEF ExecuteLinks, QuietSweep, sweepVars
<1>5. PICK to \in {"start", "undo"} : Steps(h, handler[h].at, to)
  BY <1>1, <1>2, GoesSteps DEF ExecuteLinks, Places
<1>6. worker[r] = "none" /\ \A g \in Handlers : Holds(g, r) => g = h
  BY <1>0, <1>1, Start DEF Granting, Places, Dry, Asking
<1>7. QED
  BY <1>0, <1>1, <1>3, <1>4, <1>5, <1>6, WriteSettles DEF Places

(* Failing a run, and completing one that its handler drove.               *)
LEMMA EndsSettle ==
  ASSUME OInv, NEW h \in Handlers, NEW saved,
         FailTransitions(h, saved) \/ FailSaves(h, saved) \/ DualSaves(h, saved)
  PROVE  \A q \in Runs : Settling(q)'
<1>0. PICK r \in Runs : r = handler[h].run
  BY Start DEF FailTransitions, FailSaves, DualSaves, At
<1>1. /\ handler[h].at \in {"fail", "failSave", "save"} /\ StoreTyped
      /\ HandlerTyped /\ Serving
      /\ handler[h].copy \in Store!Run /\ mem[r] \in Store!Run
  BY <1>0, Start DEF FailTransitions, FailSaves, DualSaves, At
<1>2. UNCHANGED <<worker, starter, status, callback>>
  BY DEF FailTransitions, FailSaves, DualSaves, QuietSweep, sweepVars
<1>3. worker[r] = "none" /\ \A g \in Handlers : Holds(g, r) => g = h
  BY <1>0, <1>1, Start DEF Granting, Places, Dry, Asking
<1>4. PICK run \in Store!Run : Stored(r, run)
  <2>1. CASE FailTransitions(h, saved)
    BY <1>0, <1>1, <2>1, TransitionEffect, Lifecycle DEF FailTransitions
  <2>2. CASE FailSaves(h, saved) \/ DualSaves(h, saved)
    BY <1>0, <1>1, <2>2, UpdateEffect DEF FailSaves, DualSaves
  <2>3. QED
    BY <2>1, <2>2
<1>5. \/ Returns(h)
      \/ \E to \in {"failSave", "release"} : Steps(h, handler[h].at, to)
  <2>1. CASE FailEnds(h)
    BY <1>1, <2>1, GoesSteps DEF FailEnds, Places
  <2>2. CASE GoesWith(h, "failSave", mem'[r])
    <3>1. mem'[r] \in Store!Run
      BY <1>4 DEF Stored
    <3>2. QED
      BY <1>1, <2>2, <3>1, GoesSteps DEF Places
  <2>3. QED
    BY <1>0, <2>1, <2>2 DEF FailTransitions, FailSaves, DualSaves
<1>6. QED
  BY <1>0, <1>1, <1>2, <1>3, <1>4, <1>5, WriteSettles DEF Places

(* start_sweep: the session is registered, or it was there.                *)
LEMMA RegistersSettles ==
  ASSUME OInv, NEW h \in Handlers, ExecuteRegisters(h)
  PROVE  \A q \in Runs : Settling(q)'
<1>0. PICK r \in Runs : r = handler[h].run
  BY Start DEF ExecuteRegisters, At
<1>1. /\ handler[h].at = "start" /\ Holds(h, r) /\ HandlerTyped /\ Serving
      /\ Sweep!TypeOK /\ Settling(r)
      /\ worker[r] = "none" /\ \A g \in Handlers : Holds(g, r) => g = h
  BY <1>0, Start DEF ExecuteRegisters, At, Granting, Places, Dry, Asking
<1>2. mem[r].status = "running"
  BY <1>1 DEF Settling, HeldAlone
<1>3. UNCHANGED <<mem, worker, status, callback>>
  BY DEF ExecuteRegisters, Sweep!Register, QuietStore, storeVars, sweepVars
<1>4. /\ \A q \in Runs : q # r => starter'[q] = starter[q]
      /\ starter'[r] = "running" => status'[r] = "running"
  BY <1>0, <1>1, <1>3
     DEF ExecuteRegisters, Sweep!Register, Sweep!Starting, sweepVars, Sweep!TypeOK,
     Settling, InStep
<1>5. PICK to \in {"launch", "undo"} : Steps(h, "start", to)
  BY <1>1, GoesSteps DEF ExecuteRegisters, Places
<1>6. Settling(r)'
  BY <1>1, <1>2, <1>3, <1>4, <1>5, SettlingFree DEF Steps
<1>7. QED
  BY <1>0, <1>1, <1>3, <1>4, <1>5, <1>6, OthersSettle DEF SameSweep, Steps

(* Its rest, at the end of which the thread has the run: both are running. *)
LEMMA LaunchesSettles ==
  ASSUME OInv, NEW h \in Handlers, ExecuteLaunches(h)
  PROVE  \A q \in Runs : Settling(q)'
<1>0. PICK r \in Runs : r = handler[h].run
  BY Start DEF ExecuteLaunches, At
<1>1. /\ handler[h].at = "launch" /\ Holds(h, r) /\ HandlerTyped /\ Serving
      /\ Sweep!TypeOK /\ Settling(r) /\ mem[r] \in Store!Run
      /\ worker[r] = "none" /\ \A g \in Handlers : Holds(g, r) => g = h
  BY <1>0, Start DEF ExecuteLaunches, At, Granting, Places, Dry, Asking
<1>2. mem[r].status = "running" /\ mem[r] # Absent
  BY <1>1, MarkAssumption DEF Settling, HeldAlone
<1>3. UNCHANGED <<mem, callback>>
  BY DEF ExecuteLaunches, QuietStore, storeVars
<1>4. CASE (Sweep!Prepare(r) \/ Sweep!BeginRunning(r)) /\ UNCHANGED handler
  <2>1. /\ UNCHANGED worker
        /\ \A q \in Runs : q # r => SameSweep(q)
        /\ starter'[r] = "running" => status'[r] = "running"
    BY <1>1, <1>3, <1>4 DEF Sweep!Prepare, Sweep!BeginRunning, Sweep!Starting,
       SameSweep,
       Sweep!TypeOK
  <2>2. Alone(h) /\ handler'[h].run = r /\ handler'[h].at = "launch"
    BY <1>0, <1>1, <1>4 DEF Alone
  <2>3. Settling(r)'
    BY <1>1, <1>2, <1>3, <2>1, <2>2, SettlingFree
  <2>4. QED
    BY <1>0, <1>1, <1>3, <2>1, <2>2, <2>3, OthersSettle
<1>5. CASE Sweep!Spawn(r) /\ Returns(h)
  <2>1. Alone(h) /\ handler'[h] = IdleHandler
    BY <1>1, <1>5, ReturnsEffect
  <2>2. /\ worker'[r] = "enter" /\ starter'[r] = "started" /\ starter[r] = "running"
        /\ UNCHANGED status
        /\ \A q \in Runs : q # r => SameSweep(q)
    BY <1>1, <1>3, <1>5 DEF Sweep!Spawn, Sweep!Starting, SameSweep, Sweep!TypeOK
  <2>3. status[r] = "running" /\ callback[r] = "health"
    BY <1>1, <2>2 DEF Settling, InStep
  <2>4. InStep(r)'
    BY <1>2, <1>3, <2>2, <2>3 DEF InStep
  <2>5. \A g \in Handlers : ~Holds(g, r)'
    BY <1>1, <2>1, NoneAssumption DEF Alone, Holds, Serves, IdleHandler
  <2>6. Settling(r)'
    BY <2>4, <2>5 DEF Settling, HeldAlone
  <2>7. QED
    BY <1>0, <1>1, <1>3, <2>1, <2>2, <2>6, OthersSettle DEF IdleHandler
<1>6. QED
  BY <1>0, <1>4, <1>5 DEF ExecuteLaunches

(* Nobody stops a run here.                                                *)
LEMMA NoStops ==
  ASSUME OInv, NEW h \in Handlers
  PROVE  /\ ~StopLooksUp(h) /\ ~StopRuns(h) /\ ~StopIsRefused(h)
         /\ \A saved : ~StopTransitions(h, saved)
<1>1. ASSUME handler[h].at \in {"stopping", "stopSweep", "stopRuns"}
      PROVE  FALSE
  BY <1>1, Start DEF Granting, Places, Dry, Asking
<1>2. QED
  BY <1>1 DEF StopLooksUp, StopRuns, StopIsRefused, StopTransitions, At

-----------------------------------------------------------------------------
(* Requests, sweeps and the world.                                         *)

(* A step that leaves records and sweeps alone, and gives nobody a run.    *)
LEMMA SettlesQuietly ==
  ASSUME OInv, UNCHANGED <<mem, worker, starter, status, callback>>,
         \A g \in Handlers : handler'[g] = handler[g] \/ handler'[g].at \notin Granting
  PROVE  \A q \in Runs : Settling(q)'
BY SettlingKept DEF OInv, SameSweep, Holds

(* Requests, none of which is a stop.                                      *)
LEMMA RequestsSettle ==
  ASSUME OInv, Undisturbed, Requests
  PROVE  \A q \in Runs : Settling(q)'
<1>0. HandlerTyped /\ StoreTyped /\ None \notin Runs
  BY Facts DEF OInv
<1>1. ASSUME NEW r \in Runs, NEW saved, CreatePlan(r, saved)
      PROVE  \A q \in Runs : Settling(q)'
  <2>1. /\ mem[r] = Absent /\ Stored(r, Store!NewRun)
        /\ UNCHANGED <<worker, starter, status, callback, handler>>
    BY <1>0, <1>1, CreateEffect DEF CreatePlan, QuietSweep, sweepVars
  <2>2. worker[r] = "none" /\ \A h \in Handlers : ~Serves(h, r)
    BY <2>1, Facts DEF OInv, Settling, InStep
  <2>3. Settling(r)'
    BY <2>1, <2>2 DEF OInv, Settling, HeldAlone, InStep, Holds, Serves
  <2>4. ASSUME NEW q \in Runs, q # r
        PROVE  Settling(q)'
    BY <2>1, <2>4, SettlingKept DEF OInv, SameSweep, Stored
  <2>5. QED
    BY <2>3, <2>4
<1>2. ASSUME NEW h \in Handlers, NEW r \in Runs,
             \/ \E valid \in BOOLEAN : DryRunReads(h, r, valid)
             \/ \E k \in Keys : ExecuteReads(h, r, k)
      PROVE  \A q \in Runs : Settling(q)'
  <2>1. mem[r] \in Store!Run
    BY <1>0, <1>2 DEF DryRunReads, ExecuteReads, Store!Known, StoreTyped
  <2>2. \A valid \in BOOLEAN :
          [mem[r] EXCEPT !.status = "dry_run", !.valid = valid] \in Store!Run
    BY <2>1, Lifecycle DEF Store!Run
  <2>3. PICK place \in {"dryFingerprint", "fingerprint"}, copy \in Store!Run,
             k \in Keys \union {None} : Begins(h, place, r, copy, k)
    BY <1>2, <2>1, <2>2 DEF DryRunReads, ExecuteReads
  <2>4. Alone(h) /\ handler'[h].at = place
    <3>1. place \in Places
      BY DEF Places
    <3>2. /\ Alone(h)
          /\ handler'[h] = [at |-> place, run |-> r, copy |-> copy, key |-> k, fp |-> None]
      BY <1>0, <2>3, <3>1, BeginsEffect
    <3>3. QED
      BY <3>2
  <2>5. QED
    BY <1>2, <2>4, SettlesQuietly
       DEF DryRunReads, ExecuteReads, QuietStore, QuietSweep, storeVars,
          sweepVars, Alone,
       Granting, Dry, Asking
<1>3. QED
  BY <1>1, <1>2 DEF Requests, StopReads, Undisturbed

(* A step of the thread or of the callback of one run.                     *)
LEMMA ThreadSettles ==
  ASSUME OInv, NEW r \in Runs, worker[r] # "none", worker'[r] # "none",
         UNCHANGED handler,
         \A q \in Runs : q # r => mem'[q] = mem[q] /\ SameSweep(q),
         InStep(r)'
  PROVE  \A q \in Runs : Settling(q)'
<1>1. \A h \in Handlers : ~Holds(h, r)
  BY DEF OInv, Settling, HeldAlone
<1>2. HeldAlone(r)'
  BY <1>1 DEF HeldAlone, Holds, Serves
<1>3. ASSUME NEW q \in Runs, q # r
      PROVE  Settling(q)'
  BY <1>3, SettlingKept DEF OInv
<1>4. QED
  BY <1>2, <1>3 DEF Settling

(* The thread: nothing refuses a transition of a sweep that runs, so it    *)
(* gets to its callback with an outcome.                                   *)
LEMMA SweepSettles ==
  ASSUME OInv, Undisturbed, NEW r \in Runs, SweepWorks(r)
  PROVE  \A q \in Runs : Settling(q)'
<1>1. Sweep!TypeOK /\ InStep(r)
  BY Facts DEF OInv, Settling
<1>2. PICK from \in {"enter", "driving", "checking", "failed", "assigning"},
           to \in Sweep!WorkerStates \ {"none", "done"} : Sweep!Working(r, from, to)
  BY DEF SweepWorks, Sweep!Work, Sweep!EnterLease, Sweep!LeaseFails, Sweep!Decide,
     Sweep!Fail, Sweep!Check, Sweep!CheckError, Sweep!Assign, Sweep!WorkerStates
<1>3. /\ worker[r] = from /\ worker'[r] = to
      /\ UNCHANGED <<mem, starter, callback, handler>>
      /\ \A q \in Runs : q # r => worker'[q] = worker[q]
  BY <1>1, <1>2 DEF SweepWorks, Sweep!Working, QuietStore, storeVars, Sweep!TypeOK
<1>4. /\ starter[r] = "started" /\ mem[r] # Absent /\ status[r] = "running"
      /\ callback[r] = "health" /\ mem[r].status = "running"
  BY <1>1, <1>3 DEF InStep
<1>5. /\ \A q \in Runs : q # r => status'[q] = status[q]
      /\ to # "callback" => status'[r] = "running"
      /\ to = "callback" => status'[r] \in Terminal
  <2>1. CASE Sweep!Assign(r)
    <3>1. to = "callback" /\ status' = [status EXCEPT ![r] = target[r]]
      BY <1>1, <1>3, <2>1 DEF Sweep!Assign, Sweep!Working, Sweep!TypeOK
    <3>2. target[r] \in Terminal
      BY <1>1 DEF Sweep!TypeOK, Sweep!Terminal, Terminal
    <3>3. QED
      BY <1>1, <3>1, <3>2 DEF Sweep!TypeOK
  <2>2. CASE ~Sweep!Assign(r)
    <3>1. UNCHANGED status
      BY <2>2 DEF SweepWorks, Sweep!Work, Sweep!EnterLease, Sweep!LeaseFails,
         Sweep!Decide, Sweep!Fail, Sweep!Check, Sweep!CheckError
    <3>2. to # "callback"
      <4>1. Sweep!CanTransition(status[r], "error")
        BY <1>4 DEF Sweep!CanTransition, Sweep!AllowedTransitions, Sweep!Terminal
      <4>2. CASE Sweep!CheckError(r)
        <5>1. Sweep!Working(r, "failed", "assigning")
          BY <4>1, <4>2 DEF Sweep!CheckError
        <5>2. QED
          BY <1>1, <1>3, <5>1 DEF Sweep!Working, Sweep!TypeOK
      <4>3. CASE ~Sweep!CheckError(r)
        BY <1>1, <1>3, <2>2, <4>3
           DEF SweepWorks, Undisturbed, Sweep!Work, Sweep!EnterLease,
              Sweep!LeaseFails,
           Sweep!Decide, Sweep!Fail, Sweep!Check, Sweep!Working, Sweep!TypeOK
      <4>4. QED
        BY <4>2, <4>3
    <3>3. QED
      BY <1>4, <3>1, <3>2
  <2>3. QED
    BY <2>1, <2>2
<1>6. InStep(r)'
  BY <1>2, <1>3, <1>4, <1>5 DEF InStep
<1>7. QED
  BY <1>2, <1>3, <1>5, <1>6, ThreadSettles DEF SameSweep

(* The callback: update_from_sweep is allowed for a run that runs.         *)
LEMMA CallbackSettles ==
  ASSUME OInv, Undisturbed, NEW r \in Runs, CallsBack(r)
  PROVE  \A q \in Runs : Settling(q)'
<1>1. /\ Sweep!TypeOK /\ StoreTyped /\ InStep(r) /\ worker[r] = "callback"
      /\ callback \in [Runs -> {"health", "sync", "release"}] /\ UNCHANGED handler
  BY Facts DEF OInv, Settling, Rest, CallsBack, CallbackMarksHealth, CallbackSyncs,
     CallbackReleases, InCallback
<1>2. /\ starter[r] = "started" /\ mem[r] # Absent /\ status[r] \in Terminal
      /\ mem[r].status = IF callback[r] = "release" THEN status[r] ELSE "running"
  BY <1>1 DEF InStep
<1>3. ASSUME NEW found \in BOOLEAN, found \/ SessionsVanish, CallbackMarksHealth(r, found)
      PROVE  \A q \in Runs : Settling(q)'
  <2>1. /\ callback[r] = "health" /\ callback'[r] = "sync"
        /\ \A q \in Runs : q # r => callback'[q] = callback[q]
        /\ UNCHANGED <<mem, worker, starter, status>>
    BY <1>1, <1>3 DEF CallbackMarksHealth, InCallback, Undisturbed, QuietStore,
       storeVars, sweepVars
  <2>2. InStep(r)'
    BY <1>1, <1>2, <2>1 DEF InStep
  <2>3. QED
    BY <1>1, <2>1, <2>2, ThreadSettles DEF SameSweep
<1>4. ASSUME NEW saved, CallbackSyncs(r, saved)
      PROVE  \A q \in Runs : Settling(q)'
  <2>1. /\ callback[r] = "sync" /\ callback'[r] = "release"
        /\ \A q \in Runs : q # r => callback'[q] = callback[q]
        /\ UNCHANGED <<worker, starter, status>>
    BY <1>1, <1>4 DEF CallbackSyncs, InCallback, sweepVars
  <2>2. IsTerminal(status[r]) /\ CanTransition(mem[r].status, status[r])
    BY <1>2, <2>1 DEF IsTerminal, CanTransition, AllowedTransitions
  <2>3. Store!Transition(r, status[r], saved)
    BY <1>4, <2>2 DEF CallbackSyncs, Store!UpdateFromSweep
  <2>4. status[r] \in RunStatus
    BY <1>2 DEF RunStatus
  <2>5. /\ mem[r] \in Store!Run /\ [mem[r] EXCEPT !.status = status[r]] \in Store!Run
        /\ Stored(r, [mem[r] EXCEPT !.status = status[r]])
    BY <1>1, <2>3, <2>4, TransitionEffect
  <2>6. mem'[r] \in Store!Run /\ mem'[r].status = status[r]
    BY <2>5 DEF Stored, Store!Run
  <2>7. InStep(r)'
    BY <1>1, <1>2, <2>1, <2>6, MarkAssumption DEF InStep
  <2>8. QED
    BY <1>1, <2>1, <2>5, <2>7, ThreadSettles DEF SameSweep, Stored
<1>5. CASE CallbackReleases(r)
  <2>1. /\ callback[r] = "release" /\ worker'[r] = "done"
        /\ \A q \in Runs : q # r => worker'[q] = worker[q]
        /\ UNCHANGED <<mem, starter, status, callback>>
    BY <1>1, <1>5 DEF CallbackReleases, InCallback, Sweep!Finish, Sweep!Working,
       Sweep!TypeOK, QuietStore, storeVars
  <2>2. InStep(r)'
    BY <1>1, <1>2, <2>1 DEF InStep
  <2>3. QED
    BY <1>1, <2>1, <2>2, ThreadSettles DEF SameSweep
<1>6. QED
  BY <1>3, <1>4, <1>5 DEF CallsBack

(* A crash ends every sweep, and a restart begins none.                    *)
LEMMA WorldSettles ==
  ASSUME OInv, ContextChanges \/ Crash \/ Restart
  PROVE  \A q \in Runs : Settling(q)'
<1>1. CASE ContextChanges
  BY <1>1, SettlesQuietly
     DEF ContextChanges, QuietStore, QuietSweep, storeVars, sweepVars
<1>2. CASE Crash
  <2>1. ASSUME NEW q \in Runs
        PROVE  /\ worker'[q] = "none" /\ starter'[q] = "idle" /\ callback'[q] = "health"
               /\ \A h \in Handlers : ~Serves(h, q)'
    BY <1>2, NoneAssumption DEF Crash, Serves, IdleHandler
  <2>2. QED
    BY <2>1 DEF Settling, HeldAlone, InStep, Holds
<1>3. CASE Restart
  <2>1. ~up /\ UNCHANGED <<worker, starter, status, callback, handler>>
    BY <1>3, Facts, RestartEffect DEF OInv, Restart, QuietSweep, sweepVars
  <2>2. ASSUME NEW q \in Runs
        PROVE  worker[q] = "none" /\ \A h \in Handlers : ~Holds(h, q)
    <3>1. mem[q] = Absent
      BY <2>1, StoreFacts DEF OInv
    <3>2. QED
      BY <3>1, Facts DEF OInv, Settling, InStep, Holds
  <2>3. ASSUME NEW q \in Runs
        PROVE  Settling(q)'
    BY <2>1, <2>2 DEF OInv, Settling, HeldAlone, InStep, Holds, Serves
  <2>4. QED
    BY <2>3
<1>4. QED
  BY <1>1, <1>2, <1>3

(* Every step keeps record and sweep together.                             *)
LEMMA NextOInv ==
  ASSUME Undisturbed, OInv, [Next]_vars
  PROVE  OInv'
<1>1. IInv'
  BY NextIInv DEF OInv, Undisturbed
<1>2. CASE Next
  <2>1. ASSUME NEW h \in Handlers, Handles(h)
        PROVE  \A q \in Runs : Settling(q)'
    BY <2>1, NoStops, QuietHandlers, DryRunSavesSettles, ReservesSettles,
       LinksSettles,
       EndsSettle, RegistersSettles, LaunchesSettles DEF Handles
  <2>2. QED
    BY <1>1, <1>2, <2>1, RequestsSettle, SweepSettles, CallbackSettles,
       WorldSettles DEF OInv, Next
<1>3. CASE UNCHANGED vars
  <2>1. UNCHANGED <<mem, worker, starter, status, callback, handler>>
    BY <1>3 DEF vars, storeVars, sweepVars
  <2>2. QED
    BY <1>1, <2>1, SettlesQuietly DEF OInv
<1>4. QED
  BY <1>2, <1>3

(* Nothing has begun.                                                      *)
LEMMA InitOInv == Init => OInv
<1> SUFFICES ASSUME Init
             PROVE  OInv
  OBVIOUS
<1>1. IInv
  BY InitIInv
<1>2. ASSUME NEW q \in Runs
      PROVE  Settling(q)
  <2>1. /\ worker[q] = "none" /\ starter[q] = "idle" /\ callback[q] = "health"
        /\ \A h \in Handlers : ~Serves(h, q)
    BY NoneAssumption DEF Init, Sweep!Init, Serves, IdleHandler
  <2>2. QED
    BY <2>1 DEF Settling, HeldAlone, InStep, Holds
<1>3. QED
  BY <1>1, <1>2 DEF OInv

(* Once the thread of a sweep is over, the agent's run has the status the  *)
(* sweep ended with, written there by the completion callback, whichever   *)
(* writes failed on the way.                                               *)
THEOREM OutcomeIsFollowed ==
  ASSUME Undisturbed
  PROVE  Spec => []AgentFollowsSweep
<1>1. OInv /\ [Next]_vars => OInv'
  BY NextOInv
<1>2. OInv => AgentFollowsSweep
  BY DEF OInv, Settling, InStep, AgentFollowsSweep, Settled
<1>3. QED
  BY <1>1, <1>2, InitOInv, PTL DEF Spec

=============================================================================
