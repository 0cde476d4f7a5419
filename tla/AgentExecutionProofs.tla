------------------------ MODULE AgentExecutionProofs ------------------------
(***************************************************************************)
(* What AgentExecution promises of any number of runs, requests, handlers  *)
(* and instruments, with stops, failed writes, lost sessions, crashes and  *)
(* clients that take the wrong route.                                      *)
(*                                                                         *)
(* The store's own invariant (RunStoreProofs) counts on callers that write *)
(* back respectful copies.  That these callers do is what has to be shown, *)
(* together with who is alone with a run when: a dry-run with its run      *)
(* (DryAlone), the handler that has the reservation with the copy it took  *)
(* (EarlyAlone) and with the execution (ExecutesAlone).  The one grant of  *)
(* a run is what keeps the others out (Granted).  All this holds where     *)
(* clients wait for the answer to a dry-run, and not otherwise.            *)
(***************************************************************************)
EXTENDS AgentExecution, TLAPS

(* What is proved of the store alone.                                      *)
StoreProofs == INSTANCE RunStoreProofs

(* A handler that serves a request serves it in a process that is up, for  *)
(* a run the table has.                                                    *)
Served(h) ==
  LET x == handler[h]
  IN  /\ x.at = "idle" => x.run = None
      /\ x.at # "idle" => /\ up /\ x.run \in Runs /\ mem[x.run] # Absent
                          /\ x.copy \in Store!Run
      /\ x.at \in {"fingerprint", "reserve"} => x.key \in Keys
      /\ x.at = "reserve" => x.fp \in Fingerprints

(* Every handler does.                                                     *)
Serving == \A h \in Handlers : Served(h)

(* The places of a dry-run.                                                *)
Dry == {"dryFingerprint", "drySave"}

(* Where an execution has not asked for its reservation yet.               *)
Asking == {"fingerprint", "reserve"}

(* Where a handler is only once the execution of its run was granted.      *)
Granting == Places \ (Dry \union Asking \union {"idle"})

(* Between the reservation and the hardware.                               *)
Before == {"own", "find", "link", "start", "launch", "lease"}

(* A dry-run has its run to itself and changes the validation alone.       *)
DryAlone(r) ==
  \A h \in Handlers : Serves(h, r) /\ handler[h].at \in Dry =>
    LET copy == handler[h].copy
    IN  /\ \A g \in Handlers : Serves(g, r) => g = h
        /\ mem[r].status \in Executable
        /\ copy.status = "dry_run"
        /\ copy.key = mem[r].key /\ copy.execFp = mem[r].execFp
        /\ copy.linked = mem[r].linked

(* The handler whose copy of the run is the run, or the run completed.     *)
Early(h) ==
  \/ handler[h].at \in {"own", "find", "link", "lease", "drive", "save"}
  \/ handler[h].at = "release" /\ handler[h].copy.status = "completed"

(* Until it has given the run to a sweep, the handler that has the         *)
(* reservation is alone with those that still ask for one, and nobody has  *)
(* touched what it has a copy of.                                          *)
EarlyAlone(r) ==
  \A h \in Handlers : Serves(h, r) /\ Early(h) =>
    /\ \A g \in Handlers : Serves(g, r) => g = h \/ handler[g].at \in Asking
    /\ mem[r].status = "running" /\ ~mem[r].linked
    /\ handler[h].copy = IF handler[h].at \in {"release", "save"}
                           THEN [mem[r] EXCEPT !.status = "completed"] ELSE mem[r]

(* A record, in the table or on disk, that names a sweep.                  *)
Linked(entry) == entry \in Store!Run /\ entry.linked

(* Nothing is driven, linked or served beyond the reservation but by the   *)
(* grant of the run.                                                       *)
Granted(r) ==
  /\ \A h \in Handlers : Serves(h, r) /\ handler[h].at \in Granting => grants[r] > 0
  /\ driven[r] <= grants[r]
  /\ Linked(mem[r]) \/ Linked(disk[r]) => grants[r] > 0
  /\ worker[r] # "none" => grants[r] > 0

(* The handler that executes a run, to the end of its failure.             *)
Executes(h) ==
  \/ handler[h].at \in Before \union {"drive", "undo", "release", "save"}
  \/ handler[h].at \in {"fail", "failSave"} /\ plan[handler[h].run].dual

(* One handler executes a run, until it has given it to a sweep; before    *)
(* that nothing was driven for it.                                         *)
ExecutesAlone(r) ==
  \A h \in Handlers : Serves(h, r) /\ Executes(h) =>
    /\ \A g \in Handlers : Serves(g, r) /\ Executes(g) => g = h
    /\ handler[h].at \in Before => driven[r] = 0
    /\ worker[r] = "none"

(* Each route keeps to its kind of run from the lookup of the sessions on. *)
Routes(r) ==
  \A h \in Handlers : Serves(h, r) =>
    /\ handler[h].at \in {"link", "start", "launch", "undo",
                          "stopping", "stopSweep", "stopRuns"} => ~plan[r].dual
    /\ handler[h].at \in {"lease", "drive", "release", "save"} => plan[r].dual

(* A handler that fails its run writes back what the store has.            *)
Failing(r) ==
  \A h \in Handlers : Serves(h, r) =>
    /\ handler[h].at = "fail" /\ plan[r].dual => handler[h].copy.status # "completed"
    /\ handler[h].at = "failSave" =>
         handler[h].copy = mem[r] /\ mem[r].status = "error"

(* Who drives, or is about to, owns what it drives.                        *)
Owning(r) ==
  \/ worker[r] \notin {"none", "done"}
  \/ \E h \in Handlers : /\ Serves(h, r)
                         /\ handler[h].at \in (Before \ {"own"}) \union {"drive"}
  => \A a \in plan[r].addresses : owners[a] = r

(* What holds of every run at any time.                                    *)
RunInv(r) ==
  /\ DryAlone(r) /\ EarlyAlone(r) /\ ExecutesAlone(r)
  /\ Granted(r) /\ Routes(r) /\ Failing(r) /\ Owning(r)

(* The inductive invariant.                                                *)
IInv ==
  /\ TypeOK /\ Serving
  /\ StoreProofs!IInv
  /\ \A r \in Runs : RunInv(r)

-----------------------------------------------------------------------------
(* What a handler does to its local variables.                             *)
Alone(h) == \A g \in Handlers : g # h => handler'[g] = handler[g]

(* The request a handler serves is the same.                               *)
SameRequest(h) ==
  /\ handler'[h].run = handler[h].run
  /\ handler'[h].key = handler[h].key
  /\ handler'[h].fp = handler[h].fp

(* The types of the handlers, apart from the other types.                  *)
HandlerTyped == handler \in [Handlers -> Handler]

(* A handler that goes on takes its request with it ...                    *)
LEMMA GoesEffect ==
  ASSUME HandlerTyped, NEW h \in Handlers, NEW place \in Places, Goes(h, place)
  PROVE  /\ HandlerTyped'
         /\ Alone(h) /\ SameRequest(h)
         /\ handler'[h].at = place
         /\ handler'[h].copy = handler[h].copy
BY DEF HandlerTyped, Handler, Goes, Alone, SameRequest

(* ... with another copy of the run, if it says so ...                     *)
LEMMA GoesWithEffect ==
  ASSUME HandlerTyped, NEW h \in Handlers, NEW place \in Places,
         NEW copy \in Store!Run, GoesWith(h, place, copy)
  PROVE  /\ HandlerTyped'
         /\ Alone(h) /\ SameRequest(h)
         /\ handler'[h].at = place
         /\ handler'[h].copy = copy
<1> DEFINE x == [handler[h] EXCEPT !.at = place, !.copy = copy]
<1>1. handler' = [handler EXCEPT ![h] = x]
  BY DEF HandlerTyped, Handler, GoesWith
<1>2. x \in Handler /\ x.at = place /\ x.copy = copy /\ x.run = handler[h].run
      /\ x.key = handler[h].key /\ x.fp = handler[h].fp
  BY DEF HandlerTyped, Handler
<1> HIDE DEF x
<1>3. QED
  BY <1>1, <1>2 DEF HandlerTyped, Alone, SameRequest

(* ... and one that answers forgets it.                                    *)
LEMMA ReturnsEffect ==
  ASSUME HandlerTyped, NEW h \in Handlers, Returns(h)
  PROVE  /\ HandlerTyped'
         /\ Alone(h)
         /\ handler'[h] = IdleHandler
BY DEF HandlerTyped, Handler, Returns, Alone, IdleHandler, Places

(* A request starts with the run and the key it names.                     *)
LEMMA BeginsEffect ==
  ASSUME HandlerTyped, NEW h \in Handlers, NEW place \in Places,
         NEW r \in Runs, NEW copy \in Store!Run, NEW k \in Keys \union {None},
         Begins(h, place, r, copy, k)
  PROVE  /\ HandlerTyped'
         /\ Alone(h)
         /\ handler'[h] = [at |-> place, run |-> r, copy |-> copy, key |-> k, fp |-> None]
BY DEF HandlerTyped, Handler, Begins, Alone

-----------------------------------------------------------------------------
(* The routes, the store and the sweeps share one lifecycle.               *)
LEMMA Lifecycle ==
  /\ Store!RunStatus = RunStatus /\ Sweep!RunStatus = RunStatus
  /\ StoreProofs!RunStatus = RunStatus
  /\ {"planned", "dry_run", "running", "stopping", "completed", "aborted",
      "error"} = RunStatus
  /\ Executable = {"planned", "dry_run"}
  /\ \A s, t : Store!CanTransition(s, t) <=> CanTransition(s, t)
  /\ \A s, t : StoreProofs!CanTransition(s, t) <=> CanTransition(s, t)
BY DEF RunStatus, Executable, Active, Terminal, CanTransition, AllowedTransitions,
   Store!RunStatus, Store!Executable, Store!Active, Store!Terminal,
   Store!CanTransition, Store!AllowedTransitions,
   Sweep!RunStatus, Sweep!Executable, Sweep!Active, Sweep!Terminal,
   StoreProofs!RunStatus, StoreProofs!Executable, StoreProofs!Active,
   StoreProofs!Terminal, StoreProofs!CanTransition, StoreProofs!AllowedTransitions

(* What the operations do to the store.                                    *)
StoreTyped ==
  /\ up \in BOOLEAN
  /\ mem \in [Runs -> Store!Run \union {Absent}]
  /\ disk \in [Runs -> Store!Run \union {Absent, Quarantined}]
  /\ grants \in [Runs -> Nat]

(* Only the record and the file of the run are touched, and the file is    *)
(* the record when it was written.                                         *)
Stored(r, run) ==
  /\ StoreTyped'
  /\ up' = up
  /\ mem'[r] = run
  /\ disk'[r] \in {disk[r], run}
  /\ \A q \in Runs : q # r => mem'[q] = mem[q] /\ disk'[q] = disk[q]

(* Every operation that stores a record does that.                         *)
LEMMA StoreEffect ==
  ASSUME StoreTyped, NEW r \in Runs, NEW run \in Store!Run, NEW saved,
         Store!Store(r, run, saved), grants' \in [Runs -> Nat]
  PROVE  Stored(r, run)
BY DEF StoreTyped, Store!Store, Store!Persist, Stored

(* update stores the copy it is given ...                                  *)
LEMMA UpdateEffect ==
  ASSUME StoreTyped, NEW r \in Runs, NEW run \in Store!Run, NEW saved,
         Store!Update(r, run, saved)
  PROVE  Stored(r, run) /\ UNCHANGED grants /\ up
BY StoreEffect DEF StoreTyped, Store!Update, Store!Known

(* ... transition the record with another status ...                       *)
LEMMA TransitionEffect ==
  ASSUME StoreTyped, NEW r \in Runs, NEW to \in RunStatus, NEW saved,
         Store!Transition(r, to, saved)
  PROVE  /\ mem[r] \in Store!Run /\ up
         /\ CanTransition(mem[r].status, to)
         /\ [mem[r] EXCEPT !.status = to] \in Store!Run
         /\ Stored(r, [mem[r] EXCEPT !.status = to])
         /\ UNCHANGED grants
<1>1. mem[r] \in Store!Run
  BY DEF StoreTyped, Store!Transition, Store!Known
<1> DEFINE run == [mem[r] EXCEPT !.status = to]
<1>2. run \in Store!Run
  BY <1>1, Lifecycle DEF Store!Run
<1>3. Store!Store(r, run, saved) /\ UNCHANGED grants /\ up
  BY DEF Store!Transition, Store!Known
<1>4. CanTransition(mem[r].status, to)
  BY Lifecycle DEF Store!Transition
<1>5. QED
  BY <1>1, <1>2, <1>3, <1>4, StoreEffect DEF StoreTyped

(* ... and a reservation that is granted is counted.                       *)
LEMMA ReserveEffect ==
  ASSUME StoreTyped, NEW r \in Runs, NEW k \in Keys, NEW fp \in Fingerprints,
         NEW saved, Store!ReserveExecution(r, k, fp, saved)
  PROVE  /\ mem[r] \in Store!Run /\ up
         /\ mem[r].key = None /\ mem[r].status = "dry_run"
         /\ Store!Reserved(mem[r], k, fp) \in Store!Run
         /\ Store!Reserved(mem[r], k, fp).status = "running"
         /\ Store!Reserved(mem[r], k, fp).linked = mem[r].linked
         /\ Stored(r, Store!Reserved(mem[r], k, fp))
         /\ grants'[r] = IF saved THEN grants[r] + 1 ELSE grants[r]
         /\ \A q \in Runs : q # r => grants'[q] = grants[q]
<1> DEFINE run == Store!Reserved(mem[r], k, fp)
<1>1. mem[r] \in Store!Run
  BY DEF StoreTyped, Store!ReserveExecution, Store!Known
<1>2. run \in Store!Run /\ run.status = "running" /\ run.linked = mem[r].linked
  BY <1>1, Lifecycle DEF Store!Run, Store!Reserved
<1>3. Store!Store(r, run, saved)
  BY DEF Store!ReserveExecution
<1>4. grants' \in [Runs -> Nat]
  BY DEF StoreTyped, Store!ReserveExecution
<1>5. Stored(r, run)
  BY <1>2, <1>3, <1>4, StoreEffect
<1>6. QED
  BY <1>1, <1>2, <1>5
     DEF StoreTyped, Store!ReserveExecution, Store!MayReserve, Store!Known

(* A new run is planned.                                                   *)
LEMMA CreateEffect ==
  ASSUME StoreTyped, NEW r \in Runs, NEW saved, Store!Create(r, saved)
  PROVE  /\ mem[r] = Absent /\ Store!NewRun \in Store!Run /\ up
         /\ Stored(r, Store!NewRun) /\ UNCHANGED grants
<1>1. Store!NewRun \in Store!Run
  BY Lifecycle DEF Store!NewRun, Store!Run
<1>2. QED
  BY <1>1, StoreEffect DEF StoreTyped, Store!Create

(* A restart reads records, a crash loses them.                            *)
LEMMA RestartEffect ==
  ASSUME StoreTyped, NEW unread, NEW stuck, NEW written,
         Store!Restart(unread, stuck, written)
  PROVE  /\ StoreTyped' /\ ~up /\ UNCHANGED grants
         /\ \A r \in Runs : Linked(mem'[r]) \/ Linked(disk'[r]) => Linked(disk[r])
<1>1. ASSUME NEW run \in Store!Run
      PROVE  /\ Store!Recovered(run) \in Store!Run
             /\ Store!Recovered(run).linked = run.linked
  BY Lifecycle DEF Store!Recovered, Store!Run
<1>2. ASSUME NEW r \in Runs, disk[r] \notin {Absent, Quarantined}
      PROVE  /\ disk[r] \in Store!Run
             /\ Store!Recovered(disk[r]) \in Store!Run
             /\ Store!Recovered(disk[r]).linked = disk[r].linked
  BY <1>1, <1>2 DEF StoreTyped
<1>3. StoreTyped' /\ ~up /\ UNCHANGED grants
  BY <1>2 DEF StoreTyped, Store!Restart, Store!OnDisk
<1>4. ASSUME NEW r \in Runs, Linked(mem'[r]) \/ Linked(disk'[r])
      PROVE  Linked(disk[r])
  BY <1>2, <1>4, MarkAssumption DEF StoreTyped, Store!Restart, Store!OnDisk, Linked
<1>5. QED
  BY <1>3, <1>4

-----------------------------------------------------------------------------
(* Types, and that handlers serve runs the table has.                      *)

(* What the rest of the system may do to the store while a request is      *)
(* served: no run leaves the table but by a crash.                         *)
StoreKept ==
  /\ StoreTyped'
  /\ up' = up
  /\ \A q \in Runs : mem[q] # Absent => mem'[q] # Absent

(* Writing a record, or nothing, keeps the store so.                       *)
LEMMA StoreIsKept ==
  /\ StoreTyped /\ UNCHANGED storeVars => StoreKept
  /\ \A r \in Runs, run \in Store!Run : Stored(r, run) => StoreKept
BY MarkAssumption DEF StoreTyped, storeVars, StoreKept, Stored

(* A handler on its way has a run, and a copy of it.                       *)
LEMMA OnItsWay ==
  ASSUME Serving, NEW h \in Handlers, handler[h].at # "idle"
  PROVE  /\ up /\ handler[h].run \in Runs /\ mem[handler[h].run] # Absent
         /\ handler[h].copy \in Store!Run
         /\ handler[h].at \in {"fingerprint", "reserve"} => handler[h].key \in Keys
         /\ handler[h].at = "reserve" => handler[h].fp \in Fingerprints
BY DEF Serving, Served

(* The other handlers are served as they were.                             *)
LEMMA OthersServed ==
  ASSUME Serving, StoreKept, NEW h \in Handlers, Alone(h), Served(h)'
  PROVE  Serving'
BY DEF Serving, Served, StoreKept, Alone

(* A handler goes on with its copy or another one, or answers.             *)
GoesOn(h) ==
  \/ \E place \in Places \ (Asking \union {"idle"}) : Goes(h, place)
  \/ \E place \in Places \ (Asking \union {"idle"}), copy \in Store!Run :
       GoesWith(h, place, copy)
  \/ Returns(h)

(* What goes on is still served, and one that answers is idle.             *)
LEMMA StillServed ==
  ASSUME HandlerTyped, Serving, StoreKept, NEW h \in Handlers,
         handler[h].at # "idle", GoesOn(h)
  PROVE  HandlerTyped' /\ Serving'
<1>1. ASSUME NEW place \in Places \ (Asking \union {"idle"}), Goes(h, place)
      PROVE  HandlerTyped' /\ Serving'
  <2>1. HandlerTyped' /\ Alone(h) /\ SameRequest(h) /\ handler'[h].at = place
        /\ handler'[h].copy = handler[h].copy
    BY <1>1, GoesEffect
  <2>2. Served(h)'
    BY <2>1, OnItsWay DEF Served, SameRequest, StoreKept, Asking
  <2>3. QED
    BY <2>1, <2>2, OthersServed
<1>2. ASSUME NEW place \in Places \ (Asking \union {"idle"}), NEW copy \in Store!Run,
             GoesWith(h, place, copy)
      PROVE  HandlerTyped' /\ Serving'
  <2>1. HandlerTyped' /\ Alone(h) /\ SameRequest(h) /\ handler'[h].at = place
        /\ handler'[h].copy = copy
    BY <1>2, GoesWithEffect
  <2>2. Served(h)'
    BY <2>1, OnItsWay DEF Served, SameRequest, StoreKept, Asking
  <2>3. QED
    BY <2>1, <2>2, OthersServed
<1>3. ASSUME Returns(h)
      PROVE  HandlerTyped' /\ Serving'
  <2>1. HandlerTyped' /\ Alone(h) /\ handler'[h] = IdleHandler
    BY <1>3, ReturnsEffect
  <2>2. Served(h)'
    BY <2>1 DEF Served, IdleHandler
  <2>3. QED
    BY <2>1, <2>2, OthersServed
<1>4. QED
  BY <1>1, <1>2, <1>3 DEF GoesOn

(* A request that begins is served.                                        *)
LEMMA NowServed ==
  ASSUME HandlerTyped, Serving, StoreKept, NEW h \in Handlers,
         NEW place \in Places \ {"idle", "reserve"}, NEW r \in Runs,
         up, mem[r] # Absent, NEW copy \in Store!Run, NEW k \in Keys \union {None},
         place = "fingerprint" => k \in Keys,
         Begins(h, place, r, copy, k)
  PROVE  HandlerTyped' /\ Serving'
<1>1. /\ HandlerTyped' /\ Alone(h)
      /\ handler'[h] = [at |-> place, run |-> r, copy |-> copy, key |-> k, fp |-> None]
  BY BeginsEffect
<1>2. Served(h)'
  BY <1>1 DEF Served, StoreKept
<1>3. QED
  BY <1>1, <1>2, OthersServed

(* What the sweep does keeps its types ...                                 *)
LEMMA SweepTyped ==
  ASSUME Sweep!TypeOK, NEW r \in Runs,
         Sweep!Register(r) \/ Sweep!Launch(r) \/ Sweep!Work(r) \/ Sweep!Finish(r)
  PROVE  Sweep!TypeOK'
<1>1. CASE Sweep!Register(r) \/ Sweep!Launch(r)
  BY <1>1, Lifecycle DEF Sweep!TypeOK, Sweep!Register, Sweep!Launch,
     Sweep!Prepare, Sweep!BeginRunning, Sweep!Spawn, Sweep!Starting,
     Sweep!WorkerStates
<1>2. CASE Sweep!EnterLease(r) \/ Sweep!LeaseFails(r) \/ Sweep!Fail(r) \/ Sweep!Finish(r)
  BY <1>2 DEF Sweep!TypeOK, Sweep!EnterLease, Sweep!LeaseFails, Sweep!Fail,
     Sweep!Finish, Sweep!Working, Sweep!WorkerStates
<1>3. CASE Sweep!Decide(r) \/ Sweep!Check(r) \/ Sweep!CheckError(r)
  BY <1>3 DEF Sweep!TypeOK, Sweep!Decide, Sweep!Outcome, Sweep!Check,
     Sweep!CheckError, Sweep!Working, Sweep!WorkerStates, Sweep!Terminal
<1>4. CASE Sweep!Assign(r)
  BY <1>4 DEF Sweep!TypeOK, Sweep!Assign, Sweep!Working, Sweep!WorkerStates,
     Sweep!RunStatus
<1>5. QED
  BY <1>1, <1>2, <1>3, <1>4 DEF Sweep!Work

(* ... and so does a stop request.                                         *)
LEMMA StopTyped ==
  ASSUME Sweep!TypeOK, NEW h \in Handlers,
         (\E r \in Runs : Sweep!StopLookup(h, r)) \/ Sweep!StopStep(h)
  PROVE  Sweep!TypeOK'
<1>1. ASSUME NEW r \in Runs, Sweep!StopLookup(h, r)
      PROVE  Sweep!TypeOK'
  BY <1>1 DEF Sweep!TypeOK, Sweep!StopLookup, Sweep!Stopping
<1>2. CASE Sweep!StopTooEarly(h) \/ Sweep!StopRefused(h)
  BY <1>2 DEF Sweep!TypeOK, Sweep!StopTooEarly, Sweep!StopRefused,
     Sweep!Stopping, Sweep!IdleStopper
<1>3. CASE Sweep!StopLooks(h) \/ Sweep!StopChecks(h)
  BY <1>3 DEF Sweep!TypeOK, Sweep!StopLooks, Sweep!StopChecks, Sweep!Stopping
<1>4. CASE Sweep!StopAssigns(h) \/ Sweep!StopSets(h)
  BY <1>4, Lifecycle DEF Sweep!TypeOK, Sweep!StopAssigns, Sweep!StopSets,
     Sweep!Stopping, Sweep!IdleStopper
<1>5. QED
  BY <1>1, <1>2, <1>3, <1>4 DEF Sweep!StopStep

(* What every step but one of the store, a sweep or a handler leaves.      *)
Rest ==
  /\ Ownership!TypeOK
  /\ plan \in [Runs -> Plans]
  /\ callback \in [Runs -> {"health", "sync", "release"}]
  /\ context \in Fingerprints
  /\ driven \in [Runs -> Nat]

(* Together with the store, the sweeps and the handlers, these are all     *)
(* types.                                                                  *)
LEMMA TypeParts ==
  TypeOK <=> StoreTyped /\ Sweep!TypeOK /\ HandlerTyped /\ Rest
BY DEF TypeOK, StoreTyped, HandlerTyped, Rest, Store!TypeOK

(* What a step may do to the instruments' owners.                          *)
LEMMA OwnersTyped ==
  ASSUME Ownership!TypeOK, NEW r \in Runs, NEW A,
         Ownership!AcquireMany(A, r) \/ Ownership!ReleaseMany(A, r)
  PROVE  Ownership!TypeOK'
BY DEF Ownership!TypeOK, Ownership!AcquireMany, Ownership!ReleaseMany

(* What is not touched keeps its types.                                    *)
LEMMA QuietTypes ==
  /\ StoreTyped /\ QuietStore => StoreTyped' /\ StoreKept
  /\ Sweep!TypeOK /\ UNCHANGED sweepVars => Sweep!TypeOK'
  /\ Ownership!TypeOK /\ UNCHANGED owners => Ownership!TypeOK'
BY StoreIsKept DEF StoreTyped, StoreKept, QuietStore, storeVars, sweepVars,
   Sweep!TypeOK,
   Ownership!TypeOK

(* Every step keeps the types, and handlers serve runs the table has.      *)
LEMMA TypeStep ==
  ASSUME TypeOK, Serving, Next
  PROVE  TypeOK' /\ Serving'
<1>0. StoreTyped /\ Sweep!TypeOK /\ HandlerTyped /\ Rest /\ plan' = plan
  BY TypeParts DEF Next
<1> SUFFICES /\ StoreTyped' /\ Sweep!TypeOK' /\ HandlerTyped' /\ Serving'
             /\ Ownership!TypeOK' /\ context' \in Fingerprints
             /\ callback' \in [Runs -> {"health", "sync", "release"}]
             /\ driven' \in [Runs -> Nat]
  BY <1>0 DEF TypeOK, StoreTyped, HandlerTyped, Store!TypeOK, Rest
<1> DEFINE Goal == /\ StoreTyped' /\ Sweep!TypeOK' /\ HandlerTyped' /\ Serving'
                   /\ Ownership!TypeOK' /\ context' \in Fingerprints
                   /\ callback' \in [Runs -> {"health", "sync", "release"}]
                   /\ driven' \in [Runs -> Nat]
(* Requests.                                                               *)
<1>1. ASSUME NEW r \in Runs, NEW saved, CreatePlan(r, saved)
      PROVE  Goal
  <2>1. StoreKept /\ UNCHANGED handler
    BY <1>0, <1>1, CreateEffect, StoreIsKept DEF CreatePlan
  <2>2. HandlerTyped' /\ Serving'
    BY <1>0, <2>1 DEF HandlerTyped, Serving, Served, StoreKept
  <2>3. QED
    BY <1>0, <1>1, <2>1, <2>2, QuietTypes DEF CreatePlan, QuietSweep, Rest,
       StoreKept
<1>2. ASSUME NEW h \in Handlers, NEW r \in Runs, NEW valid \in BOOLEAN,
             DryRunReads(h, r, valid)
      PROVE  Goal
  <2>1. mem[r] \in Store!Run /\ up /\ mem[r] # Absent
    BY <1>0, <1>2 DEF DryRunReads, Store!Known, StoreTyped
  <2>2. [mem[r] EXCEPT !.status = "dry_run", !.valid = valid] \in Store!Run
    BY <2>1, Lifecycle DEF Store!Run
  <2>3. HandlerTyped' /\ Serving'
    BY <1>0, <1>2, <2>1, <2>2, NowServed, QuietTypes DEF DryRunReads, Places
  <2>4. QED
    BY <1>0, <1>2, <2>3, QuietTypes DEF DryRunReads, QuietSweep, Rest, StoreKept
<1>3. ASSUME NEW h \in Handlers, NEW r \in Runs,
             StopReads(h, r) \/ \E k \in Keys : ExecuteReads(h, r, k)
      PROVE  Goal
  <2>1. mem[r] \in Store!Run /\ up /\ mem[r] # Absent /\ StoreKept
    BY <1>0, <1>3, QuietTypes DEF StopReads, ExecuteReads, Store!Known, StoreTyped
  <2>2. HandlerTyped' /\ Serving'
    <3>1. CASE StopReads(h, r)
      BY <1>0, <2>1, <3>1, NowServed DEF StopReads, Places
    <3>2. ASSUME NEW k \in Keys, ExecuteReads(h, r, k)
          PROVE  HandlerTyped' /\ Serving'
      BY <1>0, <2>1, <3>2, NowServed DEF ExecuteReads, Places
    <3>3. QED
      BY <1>3, <3>1, <3>2
  <2>3. QED
    BY <1>0, <1>3, <2>1, <2>2, QuietTypes
       DEF StopReads, ExecuteReads, QuietSweep, Rest, StoreKept
(* Handlers.                                                               *)
<1>4. ASSUME NEW h \in Handlers, handler[h].at # "idle", GoesOn(h),
             QuietStore, QuietSweep, UNCHANGED context,
             \/ UNCHANGED owners
             \/ \E A : \/ Ownership!AcquireMany(A, handler[h].run)
                       \/ Ownership!ReleaseMany(A, handler[h].run)
      PROVE  Goal
  <2>1. Ownership!TypeOK'
    BY <1>0, <1>4, OnItsWay, OwnersTyped, QuietTypes DEF Rest
  <2>2. QED
    BY <1>0, <1>4, <2>1, StillServed, QuietTypes DEF QuietSweep, Rest
<1>5. ASSUME NEW h \in Handlers, handler[h].at # "idle", GoesOn(h),
             NEW run \in Store!Run, Stored(handler[h].run, run),
             QuietSweep, UNCHANGED <<owners, context>>
      PROVE  Goal
  <2>1. StoreKept
    BY <1>5, OnItsWay, StoreIsKept
  <2>2. QED
    BY <1>0, <1>5, <2>1, StillServed, QuietTypes DEF QuietSweep, Rest, StoreKept
<1>6. ASSUME NEW h \in Handlers, ExecuteFingerprints(h)
      PROVE  Goal
  <2>1. HandlerTyped' /\ Serving'
    <3>1. CASE Returns(h)
      BY <1>0, <1>6, <3>1, StillServed, QuietTypes DEF ExecuteFingerprints, At,
         GoesOn
    <3>2. CASE handler' = [handler EXCEPT ![h].at = "reserve", ![h].fp = context]
      <4> DEFINE x == [handler[h] EXCEPT !.at = "reserve", !.fp = context]
      <4>1. handler' = [handler EXCEPT ![h] = x]
        BY <1>0, <3>2 DEF HandlerTyped, Handler
      <4>2. /\ x \in Handler /\ x.at = "reserve" /\ x.fp = context
            /\ x.run = handler[h].run /\ x.copy = handler[h].copy
            /\ x.key = handler[h].key
        BY <1>0 DEF HandlerTyped, Handler, Places, Rest
      <4>3. up /\ handler[h].run \in Runs /\ mem[handler[h].run] # Absent
            /\ handler[h].copy \in Store!Run /\ handler[h].key \in Keys
        BY <1>6, OnItsWay DEF ExecuteFingerprints, At
      <4> HIDE DEF x
      <4>4. HandlerTyped' /\ Alone(h) /\ handler'[h] = x
        BY <1>0, <4>1, <4>2 DEF HandlerTyped, Alone
      <4>5. StoreKept
        BY <1>0, <1>6, QuietTypes DEF ExecuteFingerprints
      <4>6. Served(h)'
        BY <1>0, <4>2, <4>3, <4>4, <4>5 DEF Served, StoreKept, Rest
      <4>7. QED
        BY <4>4, <4>5, <4>6, OthersServed
    <3>3. QED
      BY <1>6, <3>1, <3>2 DEF ExecuteFingerprints
  <2>2. QED
    BY <1>0, <1>6, <2>1, QuietTypes DEF ExecuteFingerprints, QuietSweep, Rest
<1>7. ASSUME NEW h \in Handlers,
             \/ DryRunFingerprints(h) \/ ExecuteIsAnswered(h)
             \/ ExecuteBreaks(h) \/ FailIsRefused(h) \/ StopIsRefused(h)
      PROVE  Goal
  <2>1. CASE DryRunFingerprints(h)
    <3>1. handler[h].copy \in Store!Run /\ context \in Fingerprints
      BY <1>0, <2>1, OnItsWay DEF DryRunFingerprints, At, Rest
    <3>2. [handler[h].copy EXCEPT !.valFp = context] \in Store!Run
      BY <3>1 DEF Store!Run
    <3>3. GoesOn(h)
      BY <2>1, <3>2 DEF DryRunFingerprints, GoesOn, Places, Asking
    <3>4. QED
      BY <1>4, <2>1, <3>3 DEF DryRunFingerprints, At
  <2>2. CASE ExecuteIsAnswered(h) \/ ExecuteBreaks(h) \/ StopIsRefused(h)
    BY <1>4, <2>2 DEF ExecuteIsAnswered, ExecuteBreaks, StopIsRefused, At, GoesOn
  <2>3. CASE FailIsRefused(h)
    BY <1>4, <2>3 DEF FailIsRefused, FailEnds, At, GoesOn, Places, Asking
  <2>4. QED
    BY <1>7, <2>1, <2>2, <2>3
<1>8. ASSUME NEW h \in Handlers,
             \/ ExecuteOwns(h) \/ ExecuteUndoes(h) \/ DualReleases(h)
             \/ \E found \in BOOLEAN : ExecuteFindsSession(h, found)
             \/ \E done \in BOOLEAN : DualDrives(h, done)
      PROVE  Goal
  <2>1. CASE ExecuteOwns(h)
    BY <1>4, <2>1 DEF ExecuteOwns, At, GoesOn, Places, Asking
  <2>2. CASE ExecuteUndoes(h) \/ DualReleases(h)
    BY <1>4, <2>2 DEF ExecuteUndoes, DualReleases, At, GoesOn, Places, Asking
  <2>3. ASSUME NEW found \in BOOLEAN, ExecuteFindsSession(h, found)
        PROVE  Goal
    BY <1>4, <2>3 DEF ExecuteFindsSession, At, GoesOn, Places, Asking
  <2>4. ASSUME NEW done \in BOOLEAN, DualDrives(h, done)
        PROVE  Goal
    <3>1. handler[h].copy \in Store!Run
      BY <2>4, OnItsWay DEF DualDrives, At
    <3>2. [handler[h].copy EXCEPT !.status = "completed"] \in Store!Run
      BY <3>1, Lifecycle DEF Store!Run
    <3>3. GoesOn(h)
      BY <2>4, <3>2 DEF DualDrives, GoesOn, Places, Asking
    <3>4. QED
      BY <1>4, <2>4, <3>3 DEF DualDrives, At
  <2>5. QED
    BY <1>8, <2>1, <2>2, <2>3, <2>4
<1>9. ASSUME NEW h \in Handlers, NEW leased \in BOOLEAN, DualLeases(h, leased)
      PROVE  Goal
  <2>1. HandlerTyped' /\ Serving'
    BY <1>0, <1>9, StillServed, QuietTypes DEF DualLeases, At, GoesOn, Places,
       Asking
  <2>2. driven' \in [Runs -> Nat]
    <3>1. handler[h].run \in Runs /\ driven \in [Runs -> Nat]
      BY <1>0, <1>9, OnItsWay DEF DualLeases, At, Rest
    <3>2. \/ driven' = driven
          \/ driven' = [driven EXCEPT ![handler[h].run] = @ + 1]
      BY <1>9 DEF DualLeases
    <3>3. QED
      BY <3>1, <3>2
  <2>3. QED
    BY <1>0, <1>9, <2>1, <2>2, QuietTypes DEF DualLeases, Rest
<1>10. ASSUME NEW h \in Handlers, NEW saved,
              DryRunSaves(h, saved) \/ FailSaves(h, saved) \/ DualSaves(h, saved)
       PROVE  Goal
  <2>1. handler[h].at # "idle" /\ handler[h].run \in Runs /\ handler[h].copy \in Store!Run
    BY <1>10, OnItsWay DEF DryRunSaves, FailSaves, DualSaves, At
  <2>2. GoesOn(h)
    BY <1>10 DEF DryRunSaves, FailSaves, DualSaves, FailEnds, GoesOn, Places, Asking
  <2>3. Stored(handler[h].run, handler[h].copy)
    BY <1>0, <1>10, <2>1, UpdateEffect DEF DryRunSaves, FailSaves, DualSaves
  <2>4. QED
    BY <1>5, <1>10, <2>1, <2>2, <2>3 DEF DryRunSaves, FailSaves, DualSaves
<1>11. ASSUME NEW h \in Handlers, NEW saved, ExecuteReserves(h, saved)
       PROVE  Goal
  <2> DEFINE run == Store!Reserved(mem[handler[h].run], handler[h].key, handler[h].fp)
  <2>1. /\ handler[h].at # "idle" /\ handler[h].run \in Runs
        /\ handler[h].key \in Keys /\ handler[h].fp \in Fingerprints
    BY <1>11, OnItsWay DEF ExecuteReserves, At
  <2>2. run \in Store!Run /\ Stored(handler[h].run, run)
    BY <1>0, <1>11, <2>1, ReserveEffect DEF ExecuteReserves
  <2> HIDE DEF run
  <2>3. GoesOn(h)
    BY <1>11, <2>2 DEF ExecuteReserves, GoesOn, Places, Asking, Stored
  <2>4. QED
    BY <1>5, <1>11, <2>1, <2>2, <2>3 DEF ExecuteReserves
<1>12. ASSUME NEW h \in Handlers, NEW saved, ExecuteLinks(h, saved)
       PROVE  Goal
  <2> DEFINE run == [handler[h].copy EXCEPT !.linked = TRUE]
  <2>1. handler[h].at # "idle" /\ handler[h].run \in Runs /\ handler[h].copy \in Store!Run
    BY <1>12, OnItsWay DEF ExecuteLinks, At
  <2>2. run \in Store!Run
    BY <2>1 DEF Store!Run
  <2>3. Stored(handler[h].run, run)
    BY <1>0, <1>12, <2>1, <2>2, UpdateEffect DEF ExecuteLinks
  <2>4. GoesOn(h)
    BY <1>12, <2>2 DEF ExecuteLinks, GoesOn, Places, Asking
  <2> HIDE DEF run
  <2>5. QED
    BY <1>5, <1>12, <2>1, <2>2, <2>3, <2>4 DEF ExecuteLinks
<1>13. ASSUME NEW h \in Handlers, NEW saved,
              FailTransitions(h, saved) \/ StopTransitions(h, saved)
       PROVE  Goal
  <2>1. handler[h].at # "idle" /\ handler[h].run \in Runs
    BY <1>13, OnItsWay DEF FailTransitions, StopTransitions, At
  <2>2. CASE FailTransitions(h, saved)
    <3> DEFINE run == [mem[handler[h].run] EXCEPT !.status = "error"]
    <3>1. run \in Store!Run /\ Stored(handler[h].run, run)
      BY <1>0, <2>1, <2>2, Lifecycle, TransitionEffect DEF FailTransitions
    <3> HIDE DEF run
    <3>2. GoesOn(h)
      BY <2>2, <3>1 DEF FailTransitions, FailEnds, GoesOn, Places, Asking, Stored
    <3>3. QED
      BY <1>5, <2>1, <2>2, <3>1, <3>2 DEF FailTransitions
  <2>3. CASE StopTransitions(h, saved)
    <3> DEFINE run == [mem[handler[h].run] EXCEPT !.status = "stopping"]
    <3>1. run \in Store!Run /\ Stored(handler[h].run, run)
      BY <1>0, <2>1, <2>3, Lifecycle, TransitionEffect DEF StopTransitions
    <3> HIDE DEF run
    <3>2. GoesOn(h)
      BY <2>3 DEF StopTransitions, GoesOn, Places, Asking
    <3>3. QED
      BY <1>5, <2>1, <2>3, <3>1, <3>2 DEF StopTransitions
  <2>4. QED
    BY <1>13, <2>2, <2>3
<1>14. ASSUME NEW h \in Handlers, ExecuteRegisters(h) \/ ExecuteLaunches(h)
       PROVE  Goal
  <2>1. handler[h].at # "idle" /\ handler[h].run \in Runs
    BY <1>14, OnItsWay DEF ExecuteRegisters, ExecuteLaunches, At
  <2>2. Sweep!TypeOK'
    BY <1>0, <1>14, <2>1, SweepTyped, QuietTypes
       DEF ExecuteRegisters, ExecuteLaunches, Sweep!Launch
  <2>3. HandlerTyped' /\ Serving'
    <3>1. CASE GoesOn(h)
      BY <1>0, <1>14, <2>1, <3>1, StillServed, QuietTypes
         DEF ExecuteRegisters, ExecuteLaunches
    <3>2. CASE UNCHANGED handler
      BY <1>0, <1>14, <3>2, QuietTypes
         DEF ExecuteRegisters, ExecuteLaunches, HandlerTyped, Serving, Served,
            StoreKept
    <3>3. QED
      BY <1>14, <3>1, <3>2
         DEF ExecuteRegisters, ExecuteLaunches, GoesOn, Places, Asking
  <2>4. driven' \in [Runs -> Nat]
    BY <1>0, <1>14 DEF ExecuteRegisters, ExecuteLaunches, Rest
  <2>5. QED
    BY <1>0, <1>14, <2>2, <2>3, <2>4, QuietTypes
       DEF ExecuteRegisters, ExecuteLaunches, Rest
<1>15. ASSUME NEW h \in Handlers, StopLooksUp(h) \/ StopRuns(h)
       PROVE  Goal
  <2>1. handler[h].at # "idle" /\ handler[h].run \in Runs
    BY <1>15, OnItsWay DEF StopLooksUp, StopRuns, At
  <2>2. Sweep!TypeOK'
    BY <1>0, <1>15, <2>1, StopTyped, QuietTypes DEF StopLooksUp, StopRuns
  <2>3. HandlerTyped' /\ Serving'
    <3>1. CASE GoesOn(h)
      BY <1>0, <1>15, <2>1, <3>1, StillServed, QuietTypes DEF StopLooksUp, StopRuns
    <3>2. CASE UNCHANGED handler
      BY <1>0, <1>15, <3>2, QuietTypes
         DEF StopLooksUp, StopRuns, HandlerTyped, Serving, Served, StoreKept
    <3>3. QED
      BY <1>15, <3>1, <3>2 DEF StopLooksUp, StopRuns, GoesOn, Places, Asking
  <2>4. QED
    BY <1>0, <1>15, <2>2, <2>3, QuietTypes DEF StopLooksUp, StopRuns, Rest
(* The sweep, its callback and the world.                                  *)
<1>16. ASSUME NEW r \in Runs, SweepWorks(r)
       PROVE  Goal
  <2>1. Sweep!TypeOK' /\ StoreKept
    BY <1>0, <1>16, SweepTyped, QuietTypes DEF SweepWorks
  <2>2. QED
    BY <1>0, <1>16, <2>1, QuietTypes
       DEF SweepWorks, HandlerTyped, Serving, Served, StoreKept, Rest
<1>17. ASSUME NEW r \in Runs, CallsBack(r)
       PROVE  Goal
  <2>1. ASSUME NEW found \in BOOLEAN, CallbackMarksHealth(r, found)
        PROVE  Goal
    <3>1. callback' \in [Runs -> {"health", "sync", "release"}]
      BY <1>0, <2>1 DEF CallbackMarksHealth, Rest
    <3>2. QED
      BY <1>0, <2>1, <3>1, QuietTypes
         DEF CallbackMarksHealth, HandlerTyped, Serving, Served, StoreKept, Rest
  <2>2. ASSUME NEW saved, CallbackSyncs(r, saved)
        PROVE  Goal
    <3>1. StoreKept
      <4>1. CASE QuietStore
        BY <1>0, <4>1, QuietTypes
      <4>2. CASE Store!UpdateFromSweep(r, status[r], saved)
        <5>1. status[r] \in RunStatus
          BY <1>0, Lifecycle DEF Sweep!TypeOK
        <5>2. Store!Transition(r, status[r], saved)
          BY <4>2 DEF Store!UpdateFromSweep
        <5>3. QED
          BY <1>0, <5>1, <5>2, TransitionEffect, StoreIsKept
      <4>3. QED
        BY <2>2, <4>1, <4>2 DEF CallbackSyncs
    <3>2. callback' \in [Runs -> {"health", "sync", "release"}]
      BY <1>0, <2>2 DEF CallbackSyncs, Rest
    <3>3. QED
      BY <1>0, <2>2, <3>1, <3>2, QuietTypes
         DEF CallbackSyncs, HandlerTyped, Serving, Served, StoreKept, Rest
  <2>3. CASE CallbackReleases(r)
    <3>1. Ownership!TypeOK' /\ Sweep!TypeOK'
      BY <1>0, <2>3, OwnersTyped, SweepTyped DEF CallbackReleases, Rest
    <3>2. QED
      BY <1>0, <2>3, <3>1, QuietTypes
         DEF CallbackReleases, HandlerTyped, Serving, Served, StoreKept, Rest
  <2>4. QED
    BY <1>17, <2>1, <2>2, <2>3 DEF CallsBack
<1>18. CASE ContextChanges
  BY <1>0, <1>18, QuietTypes
     DEF ContextChanges, QuietSweep, HandlerTyped, Serving, Served, StoreKept, Rest
<1>19. CASE Crash
  <2>1. StoreTyped' /\ HandlerTyped' /\ Serving'
    BY <1>0, <1>19 DEF Crash, Store!Crash, StoreTyped, HandlerTyped, Handler,
       Places,
       IdleHandler, Serving, Served
  <2>2. Sweep!TypeOK'
    BY <1>0, <1>19, Lifecycle DEF Crash, Sweep!TypeOK, Sweep!WorkerStates,
       Sweep!Terminal, Sweep!IdleStopper
  <2>3. QED
    BY <1>0, <1>19, <2>1, <2>2 DEF Crash, Ownership!TypeOK, Rest
<1>20. CASE Restart
  <2>1. StoreTyped' /\ ~up
    BY <1>0, <1>20, RestartEffect DEF Restart
  <2>2. Serving'
    BY <1>20, <2>1 DEF Restart, Serving, Served
  <2>3. QED
    BY <1>0, <1>20, <2>1, <2>2, QuietTypes DEF Restart, QuietSweep, HandlerTyped,
       Rest
<1>21. QED
  <2>1. ASSUME NEW h \in Handlers, Handles(h)
        PROVE  Goal
    BY <2>1, <1>6, <1>7, <1>8, <1>9, <1>10, <1>11, <1>12, <1>13, <1>14, <1>15
       DEF Handles
  <2>2. CASE Requests
    BY <2>2, <1>1, <1>2, <1>3 DEF Requests
  <2>3. QED
    BY <2>1, <2>2, <1>16, <1>17, <1>18, <1>19, <1>20 DEF Next

-----------------------------------------------------------------------------
(* The store's side: every step is one the store allows.                   *)

(* RunStoreProofs proves about RunStore, whose steps the routes take.      *)
LEMMA SameStore ==
  ASSUME Store!Next
  PROVE  StoreProofs!Next
BY DEF Store!Next, Store!Operation, Store!Create, Store!RespectfulUpdate,
   Store!Respects, Store!Update, Store!Transition, Store!UpdateFromSweep,
   Store!ReserveExecution, Store!MayReserve, Store!Reserved, Store!Store,
   Store!Persist, Store!Known, Store!NewRun, Store!Crash, Store!Restart,
   Store!OnDisk, Store!Interrupted, Store!Recovered, Store!IsTerminal,
   Store!RunStatus, Store!Active, Store!Executable, Store!Terminal,
   Store!CanTransition, Store!AllowedTransitions,
   StoreProofs!Next, StoreProofs!Operation, StoreProofs!Create,
   StoreProofs!RespectfulUpdate,
   StoreProofs!Respects, StoreProofs!Update, StoreProofs!Transition,
   StoreProofs!UpdateFromSweep, StoreProofs!ReserveExecution,
   StoreProofs!MayReserve, StoreProofs!Reserved, StoreProofs!Store,
   StoreProofs!Persist, StoreProofs!Known, StoreProofs!NewRun, StoreProofs!Crash,
   StoreProofs!Restart, StoreProofs!OnDisk, StoreProofs!Interrupted,
   StoreProofs!Recovered, StoreProofs!IsTerminal, StoreProofs!RunStatus,
   StoreProofs!Active, StoreProofs!Executable, StoreProofs!Terminal,
   StoreProofs!CanTransition, StoreProofs!AllowedTransitions

(* So its invariant is kept by what the routes do to the store.            *)
LEMMA SameStoreStep ==
  ASSUME StoreProofs!IInv, Store!Next \/ UNCHANGED storeVars
  PROVE  StoreProofs!IInv'
<1>1. [StoreProofs!Next]_StoreProofs!vars
  BY SameStore DEF storeVars, StoreProofs!vars
<1>2. QED
  BY <1>1, StoreProofs!NextIInv, NoneAssumption, MarkAssumption
     DEF StoreProofs!NoneAssumption, StoreProofs!MarkAssumption, Store!Run,
     StoreProofs!Run, Store!RunStatus, StoreProofs!RunStatus, Store!Active,
     Store!Executable, Store!Terminal, StoreProofs!Active,
     StoreProofs!Executable, StoreProofs!Terminal

(* What the store promises of a run in the table.                          *)
LEMMA StoreFacts ==
  ASSUME IInv, NEW r \in Runs
  PROVE  /\ mem[r] # Absent =>
              /\ up /\ mem[r] \in Store!Run
              /\ mem[r].key = None <=> mem[r].status \in Executable
         /\ grants[r] \in {0, 1}
<1>1. mem \in [Runs -> Store!Run \union {Absent}] /\ grants \in [Runs -> Nat]
  BY DEF IInv, TypeOK, Store!TypeOK
<1>2. StoreProofs!Records /\ StoreProofs!AtMostOneGrant
  BY DEF IInv, StoreProofs!IInv
<1>3. StoreProofs!Executable = Executable
  BY DEF StoreProofs!Executable, Executable
<1>4. grants[r] \in {0, 1}
  BY <1>1, <1>2 DEF StoreProofs!AtMostOneGrant
<1>5. QED
  BY <1>1, <1>2, <1>3, <1>4 DEF StoreProofs!Records, StoreProofs!WellFormed

(* A copy that carries the reservation of the record and moves it along    *)
(* the lifecycle may be written back.                                      *)
LEMMA RespectfulStep ==
  ASSUME NEW r \in Runs, mem[r] \in Store!Run, NEW run \in Store!Run,
         run.key = mem[r].key, run.execFp = mem[r].execFp,
         Store!Respects(mem[r], run),
         NEW saved \in BOOLEAN, Store!Update(r, run, saved)
  PROVE  Store!Next
<1>1. run = [mem[r] EXCEPT !.status = run.status, !.valFp = run.valFp,
                           !.valid = run.valid, !.linked = run.linked]
  BY DEF Store!Run
<1>2. run.status \in Store!RunStatus /\ run.valFp \in Fingerprints \union {None}
      /\ run.valid \in BOOLEAN /\ run.linked \in BOOLEAN
  BY DEF Store!Run
<1>3. Store!Known(r)
  BY DEF Store!Update
<1>4. LET copy == [mem[r] EXCEPT !.status = run.status, !.valFp = run.valFp,
                                 !.valid = run.valid, !.linked = run.linked]
      IN  Store!Known(r) /\ Store!Respects(mem[r], copy) /\ Store!Update(r, copy, saved)
  BY <1>1, <1>3
<1>5. Store!RespectfulUpdate(r, saved)
  BY <1>2, <1>4, Zenon DEF Store!RespectfulUpdate
<1>6. QED
  BY <1>5 DEF Store!Next, Store!Operation

(* What the copies are that handlers write back.                           *)
LEMMA CopyIsRespectful ==
  ASSUME IInv, NEW h \in Handlers, NEW saved \in BOOLEAN,
         \/ DryRunSaves(h, saved) \/ FailSaves(h, saved)
         \/ DualSaves(h, saved) \/ ExecuteLinks(h, saved)
  PROVE  Store!Next
<1> DEFINE r == handler[h].run
           old == mem[r]
<1>1. /\ r \in Runs /\ old # Absent /\ handler[h].copy \in Store!Run /\ Serves(h, r)
  BY OnItsWay DEF IInv, DryRunSaves, FailSaves, DualSaves, ExecuteLinks, At, Serves
<1>2. /\ old \in Store!Run
      /\ old.key = None <=> old.status \in Executable
      /\ RunInv(r)
  BY <1>1, StoreFacts DEF IInv
<1>3. ASSUME NEW run \in Store!Run, run.key = old.key, run.execFp = old.execFp,
             Store!Respects(old, run), Store!Update(r, run, saved)
      PROVE  Store!Next
  BY <1>1, <1>2, <1>3, RespectfulStep
<1>4. ASSUME NEW run \in Store!Run, run.key = old.key, run.execFp = old.execFp,
             run.linked = old.linked \/ run.linked, run.valFp = old.valFp,
             run.valid = old.valid, Store!Update(r, run, saved),
             \/ run.status = old.status
             \/ run.status # "running" /\ CanTransition(old.status, run.status)
      PROVE  Store!Next
  BY <1>3, <1>4, Lifecycle DEF Store!Respects
<1>5. CASE DryRunSaves(h, saved)
  <2>1. /\ old.status \in Executable
        /\ handler[h].copy.status = "dry_run"
        /\ handler[h].copy.key = old.key /\ handler[h].copy.execFp = old.execFp
        /\ handler[h].copy.linked = old.linked
    BY <1>1, <1>2, <1>5 DEF RunInv, DryAlone, Dry, DryRunSaves, At
  <2>2. old.key = None
    BY <1>2, <2>1
  <2>3. CanTransition(old.status, "dry_run")
    BY <2>1 DEF CanTransition, AllowedTransitions, Executable
  <2>4. Store!Respects(old, handler[h].copy)
    BY <2>1, <2>2, <2>3, Lifecycle DEF Store!Respects
  <2>5. QED
    BY <1>1, <1>3, <1>5, <2>1, <2>4 DEF DryRunSaves
<1>6. CASE FailSaves(h, saved)
  <2>1. handler[h].copy = old
    BY <1>1, <1>2, <1>6 DEF RunInv, Failing, FailSaves, At
  <2>2. QED
    BY <1>1, <1>4, <1>6, <2>1 DEF FailSaves
<1>7. CASE DualSaves(h, saved)
  <2>1. handler[h].copy = [old EXCEPT !.status = "completed"] /\ old.status = "running"
    BY <1>1, <1>2, <1>7 DEF RunInv, EarlyAlone, Early, DualSaves, At
  <2>2. CanTransition("running", "completed")
    BY DEF CanTransition, AllowedTransitions, Terminal
  <2>3. /\ handler[h].copy.key = old.key /\ handler[h].copy.execFp = old.execFp
        /\ handler[h].copy.linked = old.linked /\ handler[h].copy.valFp = old.valFp
        /\ handler[h].copy.valid = old.valid /\ handler[h].copy.status = "completed"
    BY <1>2, <2>1 DEF Store!Run
  <2>4. QED
    BY <1>1, <1>4, <1>7, <2>1, <2>2, <2>3 DEF DualSaves
<1>8. CASE ExecuteLinks(h, saved)
  <2> DEFINE run == [handler[h].copy EXCEPT !.linked = TRUE]
  <2>1. handler[h].copy = old
    BY <1>1, <1>2, <1>8 DEF RunInv, EarlyAlone, Early, ExecuteLinks, At
  <2>2. /\ run \in Store!Run /\ run.key = old.key /\ run.execFp = old.execFp
        /\ run.linked /\ run.valFp = old.valFp
        /\ run.valid = old.valid /\ run.status = old.status
    BY <1>2, <2>1 DEF Store!Run
  <2>3. Store!Update(r, run, saved)
    BY <1>8 DEF ExecuteLinks
  <2> HIDE DEF run
  <2>4. QED
    BY <1>4, <2>2, <2>3
<1>9. QED
  BY <1>5, <1>6, <1>7, <1>8

(* What an interleaving of requests, callbacks, crashes and restarts does  *)
(* with the store is what RunStore asks of its callers.                    *)
LEMMA StoreStep ==
  ASSUME IInv, Next
  PROVE  Store!Next \/ UNCHANGED storeVars
<1>0. ASSUME NEW saved \in Saves
      PROVE  saved \in BOOLEAN
  BY <1>0 DEF Saves
<1>1. ASSUME NEW r \in Runs, NEW saved \in BOOLEAN, NEW t \in RunStatus \ {"running"},
             Store!Transition(r, t, saved)
      PROVE  Store!Next
  BY <1>1, Lifecycle DEF Store!Next, Store!Operation
<1>2. CASE Requests
  BY <1>0, <1>2 DEF Requests, CreatePlan, DryRunReads, ExecuteReads, StopReads,
     QuietStore, Store!Next, Store!Operation
<1>3. ASSUME NEW h \in Handlers, Handles(h), ~QuietStore
      PROVE  Store!Next
  <2>1. PICK saved \in Saves :
          \/ DryRunSaves(h, saved) \/ ExecuteReserves(h, saved)
          \/ ExecuteLinks(h, saved) \/ FailTransitions(h, saved)
          \/ FailSaves(h, saved) \/ DualSaves(h, saved)
          \/ StopTransitions(h, saved)
    BY <1>3 DEF Handles, DryRunFingerprints, ExecuteFingerprints,
       ExecuteIsAnswered, ExecuteOwns, ExecuteBreaks, ExecuteFindsSession,
       ExecuteRegisters, ExecuteLaunches, ExecuteUndoes, FailIsRefused,
       DualReleases, DualLeases, DualDrives, StopIsRefused, StopLooksUp, StopRuns
  <2>2. saved \in BOOLEAN
    BY <1>0
  <2>3. CASE ExecuteReserves(h, saved)
    <3>1. handler[h].run \in Runs /\ handler[h].key \in Keys /\ handler[h].fp \in Fingerprints
      BY <2>3, OnItsWay DEF IInv, ExecuteReserves, At
    <3>2. Store!ReserveExecution(handler[h].run, handler[h].key, handler[h].fp, saved)
      BY <2>3 DEF ExecuteReserves
    <3>3. QED
      BY <2>2, <3>1, <3>2 DEF Store!Next, Store!Operation
  <2>4. CASE FailTransitions(h, saved) \/ StopTransitions(h, saved)
    <3>1. handler[h].run \in Runs
      BY <2>4, OnItsWay DEF IInv, FailTransitions, StopTransitions, At
    <3>2. QED
      BY <1>1, <2>2, <2>4, <3>1, Lifecycle DEF FailTransitions, StopTransitions
  <2>5. QED
    BY <2>1, <2>2, <2>3, <2>4, CopyIsRespectful
<1>4. ASSUME NEW r \in Runs, SweepWorks(r) \/ CallsBack(r), ~QuietStore
      PROVE  Store!Next
  <2>1. PICK saved \in Saves : CallbackSyncs(r, saved)
    BY <1>4 DEF SweepWorks, CallsBack, CallbackMarksHealth, CallbackReleases,
       QuietStore, storeVars
  <2>2. Store!UpdateFromSweep(r, status[r], saved) /\ status[r] \in Store!RunStatus
    BY <1>4, <2>1, Lifecycle DEF CallbackSyncs, IInv, TypeOK, Sweep!TypeOK
  <2>3. QED
    BY <1>0, <2>2 DEF Store!Next, Store!Operation
<1>5. CASE ContextChanges \/ Crash \/ Restart
  BY <1>5 DEF ContextChanges, QuietStore, Crash, Restart, Store!Next
<1>6. QED
  BY <1>2, <1>3, <1>4, <1>5 DEF Next, QuietStore

-----------------------------------------------------------------------------
(* The runs' side.                                                         *)

(* Whatever a step does, it does to one run: nothing of the others moves,  *)
(* and nobody takes what they own.                                         *)
Elsewhere(q) ==
  /\ UNCHANGED plan
  /\ mem'[q] = mem[q] /\ disk'[q] = disk[q] /\ grants'[q] = grants[q]
  /\ driven'[q] = driven[q] /\ worker'[q] = worker[q]
  /\ \A a \in Addresses : owners[a] = q => owners'[a] = q
  /\ \A g \in Handlers : handler'[g] = handler[g] \/ (~Serves(g, q) /\ ~Serves(g, q)')

(* Plans name addresses.                                                   *)
PlanTyped == \A r \in Runs : plan[r].addresses \subseteq Addresses

(* What is promised of a run is kept by what happens to another.           *)
LEMMA ElsewhereQuiet ==
  ASSUME NEW q \in Runs, RunInv(q), Elsewhere(q), PlanTyped
  PROVE  RunInv(q)'
<1>1. DryAlone(q)' /\ EarlyAlone(q)'
  BY DEF RunInv, Elsewhere, DryAlone, EarlyAlone, Early, Serves
<1>2. ExecutesAlone(q)'
  BY DEF RunInv, Elsewhere, ExecutesAlone, Executes, Serves
<1>3. Granted(q)'
  BY DEF RunInv, Elsewhere, Granted, Linked, Serves
<1>4. Routes(q)' /\ Failing(q)'
  BY DEF RunInv, Elsewhere, Routes, Failing, Serves
<1>5. Owning(q)'
  BY DEF RunInv, Elsewhere, Owning, Serves, PlanTyped
<1>6. QED
  BY <1>1, <1>2, <1>3, <1>4, <1>5 DEF RunInv

(* The run itself while a handler of it moves and the rest of it does not. *)
Around(r, h) ==
  /\ UNCHANGED plan
  /\ mem'[r] = mem[r] /\ disk'[r] = disk[r] /\ grants'[r] = grants[r]
  /\ driven'[r] = driven[r] /\ worker'[r] = worker[r]
  /\ Alone(h)

(* A handler that answers leaves no trace in what is promised.             *)
LEMMA AnswerIsQuiet ==
  ASSUME NEW r \in Runs, NEW h \in Handlers, RunInv(r), Around(r, h),
         handler'[h] = IdleHandler,
         UNCHANGED owners, PlanTyped
  PROVE  RunInv(r)'
<1>0. ~Serves(h, r)'
  BY NoneAssumption DEF Serves, IdleHandler
<1>1. DryAlone(r)' /\ EarlyAlone(r)'
  BY <1>0 DEF RunInv, Around, Alone, DryAlone, EarlyAlone, Early, Serves
<1>2. ExecutesAlone(r)'
  BY <1>0 DEF RunInv, Around, Alone, ExecutesAlone, Executes, Serves
<1>3. Granted(r)'
  BY <1>0 DEF RunInv, Around, Alone, Granted, Linked, Serves
<1>4. Routes(r)' /\ Failing(r)'
  BY <1>0 DEF RunInv, Around, Alone, Routes, Failing, Serves
<1>5. Owning(r)'
  BY <1>0 DEF RunInv, Around, Alone, Owning, Serves, PlanTyped
<1>6. QED
  BY <1>1, <1>2, <1>3, <1>4, <1>5 DEF RunInv


(* One that executed the run may let go of what it owned as it answers.    *)
LEMMA AnswerReleases ==
  ASSUME NEW r \in Runs, NEW h \in Handlers, RunInv(r), Around(r, h),
         handler'[h] = IdleHandler, handler[h].run = r, Executes(h)
  PROVE  RunInv(r)'
<1>0. ~Serves(h, r)'
  BY NoneAssumption DEF Serves, IdleHandler
<1>1. DryAlone(r)' /\ EarlyAlone(r)'
  BY <1>0 DEF RunInv, Around, Alone, DryAlone, EarlyAlone, Early, Serves
<1>2. ExecutesAlone(r)'
  BY <1>0 DEF RunInv, Around, Alone, ExecutesAlone, Executes, Serves
<1>3. Granted(r)'
  BY <1>0 DEF RunInv, Around, Alone, Granted, Linked, Serves
<1>4. Routes(r)' /\ Failing(r)'
  BY <1>0 DEF RunInv, Around, Alone, Routes, Failing, Serves
<1>5. Owning(r)'
  BY <1>0 DEF RunInv, Around, Alone, Owning, ExecutesAlone, Executes, Serves
<1>6. QED
  BY <1>1, <1>2, <1>3, <1>4, <1>5 DEF RunInv

(* A step of a handler touches the run it serves, and no other.            *)
Only(r) ==
  /\ UNCHANGED plan
  /\ \A q \in Runs : q # r =>
       /\ mem'[q] = mem[q] /\ disk'[q] = disk[q] /\ grants'[q] = grants[q]
       /\ driven'[q] = driven[q] /\ worker'[q] = worker[q]
  /\ \/ UNCHANGED owners
     \/ \E A : Ownership!AcquireMany(A, r) \/ Ownership!ReleaseMany(A, r)

(* A step that touches one run happens elsewhere for all others.           *)
LEMMA OnlyHere ==
  ASSUME Ownership!TypeOK, NEW r \in Runs, Only(r),
         \/ UNCHANGED handler
         \/ \E h \in Handlers : /\ Alone(h)
                                /\ handler[h].run \in {r, None}
                                /\ handler'[h].run \in {r, None},
         NEW q \in Runs, q # r
  PROVE  Elsewhere(q)
<1>1. \A a \in Addresses : owners[a] = q => owners'[a] = q
  BY NoneAssumption DEF Only, Ownership!TypeOK, Ownership!AcquireMany,
     Ownership!ReleaseMany, Ownership!Conflict
<1>2. \A g \in Handlers : handler'[g] = handler[g] \/ (~Serves(g, q) /\ ~Serves(g, q)')
  BY NoneAssumption DEF Alone, Serves
<1>3. QED
  BY <1>1, <1>2 DEF Only, Elsewhere

(* So what is promised of the others is kept.                              *)
LEMMA OnlyTheRun ==
  ASSUME Ownership!TypeOK, PlanTyped, \A q \in Runs : RunInv(q),
         NEW r \in Runs, Only(r),
         \/ UNCHANGED handler
         \/ \E h \in Handlers : /\ Alone(h)
                                /\ handler[h].run \in {r, None}
                                /\ handler'[h].run \in {r, None},
         RunInv(r)'
  PROVE  \A q \in Runs : RunInv(q)'
BY OnlyHere, ElsewhereQuiet

(* A handler goes on, alone, with the run it serves and what it has of it. *)
Steps(h, from, to) ==
  /\ handler[h].at = from /\ handler'[h].at = to
  /\ handler[h].run \in Runs /\ handler'[h].run = handler[h].run
  /\ Alone(h)

(* Goes and GoesWith are such steps.                                       *)
LEMMA GoesSteps ==
  ASSUME HandlerTyped, Serving, NEW h \in Handlers, NEW to \in Places,
         handler[h].at # "idle",
         \/ Goes(h, to)
         \/ \E copy \in Store!Run : GoesWith(h, to, copy)
  PROVE  Steps(h, handler[h].at, to)
BY OnItsWay, GoesEffect, GoesWithEffect DEF Steps, SameRequest

(* The places where a handler drives, or is about to.                      *)
Owner == (Before \ {"own"}) \union {"drive"}

(* What has to be seen of a handler that goes on and leaves the record and *)
(* the sweep of its run as they are.                                       *)
LEMMA MoveKeeps ==
  ASSUME NEW h \in Handlers, NEW from \in Granting, NEW to \in Granting,
         Steps(h, from, to), NEW r \in Runs, r = handler[h].run,
         RunInv(r), Around(r, h),
         Early(h)' => /\ Early(h)
                      /\ handler'[h].copy = IF to \in {"release", "save"}
                            THEN [mem[r] EXCEPT !.status = "completed"] ELSE mem[r],
         Executes(h)' => Executes(h),
         to \in Before => from \in Before,
         to \in {"link", "start", "launch", "undo",
                 "stopping", "stopSweep", "stopRuns"} => ~plan[r].dual,
         to \in {"lease", "drive", "release", "save"} => plan[r].dual,
         to = "fail" /\ plan[r].dual => handler'[h].copy.status # "completed",
         to # "failSave",
         Owning(r)'
  PROVE  RunInv(r)'
<1>1. to \notin Dry \union Asking /\ from \notin Dry \union Asking
  BY DEF Granting
<1>2. DryAlone(r)'
  BY <1>1 DEF RunInv, Around, Alone, Steps, DryAlone, Serves
<1>3. EarlyAlone(r)'
  BY <1>1 DEF RunInv, Around, Alone, Steps, EarlyAlone, Early, Serves
<1>4. ExecutesAlone(r)'
  BY DEF RunInv, Around, Alone, Steps, ExecutesAlone, Executes, Serves
<1>5. Granted(r)'
  BY DEF RunInv, Around, Alone, Steps, Granted, Linked, Serves
<1>6. Routes(r)' /\ Failing(r)'
  BY DEF RunInv, Around, Alone, Steps, Routes, Failing, Serves
<1>7. QED
  BY <1>2, <1>3, <1>4, <1>5, <1>6 DEF RunInv

(* A handler that goes on keeps what its run owns if it was an owner, or   *)
(* nobody is.                                                              *)
LEMMA OwningKept ==
  ASSUME NEW h \in Handlers, NEW from \in Granting, NEW to \in Granting,
         Steps(h, from, to), NEW r \in Runs, r = handler[h].run,
         RunInv(r), Around(r, h), PlanTyped,
         UNCHANGED owners, to \in Owner => from \in Owner
  PROVE  Owning(r)'
BY DEF RunInv, Around, Alone, Steps, Owning, Serves, Owner, PlanTyped

(* The one that executes the run may let go of what it owns.               *)
LEMMA OwningReleased ==
  ASSUME NEW h \in Handlers, NEW from \in Granting, NEW to \in Granting,
         Steps(h, from, to), NEW r \in Runs, r = handler[h].run,
         RunInv(r), Around(r, h), Executes(h),
         to \in Owner => \A a \in plan[r].addresses : owners'[a] = r
  PROVE  Owning(r)'
BY DEF RunInv, Around, Alone, Steps, Owning, Serves, Owner, ExecutesAlone, Executes

-----------------------------------------------------------------------------
(* The steps of the handlers.                                              *)

(* What every step of a handler starts from.                               *)
LEMMA Begin ==
  ASSUME IInv, NEW h \in Handlers, handler[h].at # "idle"
  PROVE  /\ StoreTyped /\ Sweep!TypeOK /\ HandlerTyped /\ Rest
         /\ Ownership!TypeOK /\ PlanTyped
         /\ up /\ handler[h].run \in Runs /\ handler[h].run # None
         /\ mem[handler[h].run] \in Store!Run
         /\ handler[h].copy \in Store!Run
         /\ RunInv(handler[h].run)
         /\ handler[h].at \in Places
<1>1. StoreTyped /\ Sweep!TypeOK /\ HandlerTyped /\ Rest
  BY TypeParts DEF IInv
<1>2. PlanTyped
  BY <1>1, PlanAssumption DEF PlanTyped, Rest
<1>3. up /\ handler[h].run \in Runs /\ handler[h].copy \in Store!Run
      /\ mem[handler[h].run] # Absent
  BY OnItsWay DEF IInv
<1>4. QED
  BY <1>1, <1>2, <1>3, NoneAssumption DEF IInv, StoreTyped, Rest, HandlerTyped,
     Handler

(* A handler that answers, all else being as it was.                       *)
LEMMA AnswerStep ==
  ASSUME IInv, NEW h \in Handlers, handler[h].at # "idle", Returns(h),
         QuietStore, UNCHANGED <<worker, driven, owners, plan>>
  PROVE  \A q \in Runs : RunInv(q)'
<1>0. PICK r \in Runs : r = handler[h].run
  BY Begin
<1>1. HandlerTyped /\ r \in Runs /\ Ownership!TypeOK /\ PlanTyped /\ RunInv(r)
  BY <1>0, Begin
<1>2. Alone(h) /\ handler'[h] = IdleHandler
  BY <1>0, <1>1, ReturnsEffect
<1>3. Around(r, h) /\ Only(r)
  BY <1>2 DEF Around, Only, QuietStore, storeVars
<1>4. RunInv(r)'
  BY <1>0, <1>1, <1>2, <1>3, AnswerIsQuiet
<1>5. QED
  BY <1>0, <1>1, <1>2, <1>3, <1>4, OnlyTheRun DEF IdleHandler, IInv

(* A handler that goes on, the store and the sweeps being as they were.    *)
LEMMA QuietMove ==
  ASSUME IInv, NEW h \in Handlers, NEW to \in Places, handler[h].at # "idle",
         \/ Goes(h, to) /\ handler'[h].copy = handler[h].copy
         \/ GoesWith(h, to, handler'[h].copy) /\ handler'[h].copy \in Store!Run,
         QuietStore, UNCHANGED <<worker, driven, plan>>,
         NEW r, r = handler[h].run,
         \/ UNCHANGED owners
         \/ \E A : Ownership!AcquireMany(A, r) \/ Ownership!ReleaseMany(A, r)
  PROVE  /\ Steps(h, handler[h].at, to)
         /\ Around(r, h)
         /\ RunInv(r)' => \A q \in Runs : RunInv(q)'
<1>1. HandlerTyped /\ r \in Runs /\ Ownership!TypeOK /\ PlanTyped /\ RunInv(r)
  BY Begin
<1>2. Steps(h, handler[h].at, to)
  BY <1>1, GoesSteps DEF IInv
<1>3. Around(r, h) /\ Only(r)
  BY <1>2 DEF Steps, Around, Only, QuietStore, storeVars
<1>4. QED
  BY <1>1, <1>2, <1>3, OnlyTheRun DEF Steps, IInv

(* acquire_many takes all the addresses of the plan, or there is a         *)
(* conflict.                                                               *)
LEMMA OwnsStep ==
  ASSUME IInv, NEW h \in Handlers, ExecuteOwns(h), UNCHANGED plan
  PROVE  \A q \in Runs : RunInv(q)'
<1>0. PICK r \in Runs : r = handler[h].run
  BY Begin DEF ExecuteOwns, At
<1>1. handler[h].at = "own" /\ r \in Runs /\ PlanTyped /\ HandlerTyped /\ RunInv(r)
  BY <1>0, Begin DEF ExecuteOwns, At
<1>2. PICK to \in {"find", "fail"} :
        /\ Goes(h, to)
        /\ \/ UNCHANGED owners
           \/ Ownership!AcquireMany(plan[r].addresses, r)
        /\ to = "find" => \A a \in plan[r].addresses : owners'[a] = r
  <2>1. CASE Ownership!AcquireMany(plan[r].addresses, r) /\ Goes(h, "find")
    BY <1>0, <1>1, <2>1 DEF Ownership!AcquireMany, PlanTyped
  <2>2. QED
    BY <1>0, <2>1 DEF ExecuteOwns
<1>3. to \in Places /\ handler'[h].copy = handler[h].copy
  BY <1>0, <1>1, <1>2, GoesEffect DEF Places
<1>4. /\ Steps(h, "own", to) /\ Around(r, h)
      /\ RunInv(r)' => \A q \in Runs : RunInv(q)'
  BY <1>0, <1>1, <1>2, <1>3, QuietMove DEF ExecuteOwns, QuietSweep, sweepVars
<1>5. handler[h].copy = mem[r] /\ mem[r].status = "running"
  BY <1>0, <1>1 DEF RunInv, EarlyAlone, Early, Serves
<1>6. "own" \in Granting /\ to \in Granting /\ Executes(h)
  BY <1>0, <1>1 DEF Granting, Places, Dry, Asking, Executes, Before
<1>7. Owning(r)'
  BY <1>0, <1>1, <1>2, <1>4, <1>6, OwningReleased DEF Owner, Before
<1>8. RunInv(r)'
  BY <1>0, <1>1, <1>2, <1>3, <1>4, <1>5, <1>6, <1>7, MoveKeeps
     DEF Early, Before, Steps
<1>9. QED
  BY <1>4, <1>8

(* visa_sessions.get finds the sessions, or the run is failed or undone.   *)
LEMMA FindsStep ==
  ASSUME IInv, NEW h \in Handlers, NEW found \in BOOLEAN,
         ExecuteFindsSession(h, found), UNCHANGED plan
  PROVE  \A q \in Runs : RunInv(q)'
<1>0. PICK r \in Runs : r = handler[h].run
  BY Begin DEF ExecuteFindsSession, At
<1>1. handler[h].at = "find" /\ r \in Runs /\ PlanTyped /\ HandlerTyped /\ RunInv(r)
  BY <1>0, Begin DEF ExecuteFindsSession, At
<1>2. PICK to \in {"lease", "fail", "link", "undo"} :
        /\ Goes(h, to)
        /\ to \in {"lease", "fail"} <=> plan[r].dual
  BY <1>0 DEF ExecuteFindsSession
<1>3. to \in Places /\ handler'[h].copy = handler[h].copy
  BY <1>0, <1>1, <1>2, GoesEffect DEF Places
<1>4. /\ Steps(h, "find", to) /\ Around(r, h)
      /\ RunInv(r)' => \A q \in Runs : RunInv(q)'
  BY <1>0, <1>1, <1>2, <1>3, QuietMove DEF ExecuteFindsSession, QuietSweep,
     sweepVars
<1>5. handler[h].copy = mem[r] /\ mem[r].status = "running"
  BY <1>0, <1>1 DEF RunInv, EarlyAlone, Early, Serves
<1>6. "find" \in Granting /\ to \in Granting /\ Executes(h)
  BY <1>0, <1>1 DEF Granting, Places, Dry, Asking, Executes, Before
<1>7. Owning(r)'
  BY <1>0, <1>1, <1>4, <1>6, OwningKept DEF Owner, Before, ExecuteFindsSession
<1>8. RunInv(r)'
  BY <1>0, <1>1, <1>2, <1>3, <1>4, <1>5, <1>6, <1>7, MoveKeeps
     DEF Early, Before, Steps
<1>9. QED
  BY <1>4, <1>8

(* The except branches of execute release the addresses first.             *)
LEMMA UndoesStep ==
  ASSUME IInv, NEW h \in Handlers, ExecuteUndoes(h), UNCHANGED plan
  PROVE  \A q \in Runs : RunInv(q)'
<1>0. PICK r \in Runs : r = handler[h].run
  BY Begin DEF ExecuteUndoes, At
<1>1. handler[h].at = "undo" /\ r \in Runs /\ PlanTyped /\ HandlerTyped /\ RunInv(r)
  BY <1>0, Begin DEF ExecuteUndoes, At
<1>2. Goes(h, "fail") /\ ~plan[r].dual /\ Ownership!ReleaseMany(plan[r].addresses, r)
  BY <1>0, <1>1 DEF ExecuteUndoes, RunInv, Routes, Serves
<1>3. handler'[h].copy = handler[h].copy
  BY <1>0, <1>1, <1>2, GoesEffect DEF Places
<1>4. /\ Steps(h, "undo", "fail") /\ Around(r, h)
      /\ RunInv(r)' => \A q \in Runs : RunInv(q)'
  BY <1>0, <1>1, <1>2, <1>3, QuietMove DEF ExecuteUndoes, QuietSweep, sweepVars,
     Places
<1>5. "undo" \in Granting /\ "fail" \in Granting /\ Executes(h)
  BY <1>0, <1>1 DEF Granting, Places, Dry, Asking, Executes
<1>6. Owning(r)'
  BY <1>0, <1>1, <1>4, <1>5, OwningReleased DEF Owner, Before
<1>7. RunInv(r)'
  BY <1>0, <1>1, <1>2, <1>4, <1>5, <1>6, MoveKeeps DEF Early, Before, Steps
<1>8. QED
  BY <1>4, <1>7

(* _fail_reserved_run is over: the finally clause, or the answer.          *)
LEMMA FailIsRefusedStep ==
  ASSUME IInv, NEW h \in Handlers, FailIsRefused(h), UNCHANGED plan
  PROVE  \A q \in Runs : RunInv(q)'
<1>0. PICK r \in Runs : r = handler[h].run
  BY Begin DEF FailIsRefused, At
<1>1. handler[h].at = "fail" /\ PlanTyped /\ HandlerTyped /\ RunInv(r)
  BY <1>0, Begin DEF FailIsRefused, At
<1>2. CASE Returns(h)
  BY <1>1, <1>2, AnswerStep DEF FailIsRefused, QuietSweep, sweepVars
<1>3. CASE Goes(h, "release") /\ plan[r].dual
  <2>1. handler'[h].copy = handler[h].copy
    BY <1>1, <1>3, GoesEffect DEF Places
  <2>2. /\ Steps(h, "fail", "release") /\ Around(r, h)
        /\ RunInv(r)' => \A q \in Runs : RunInv(q)'
    BY <1>0, <1>1, <1>3, <2>1, QuietMove DEF FailIsRefused, QuietSweep,
       sweepVars, Places
  <2>3. handler[h].copy.status # "completed"
    BY <1>0, <1>1, <1>3 DEF RunInv, Failing, Serves
  <2>4. "fail" \in Granting /\ "release" \in Granting /\ Executes(h)
    BY <1>0, <1>1, <1>3 DEF Granting, Places, Dry, Asking, Executes
  <2>5. Owning(r)'
    BY <1>0, <1>1, <2>2, <2>4, OwningKept DEF Owner, Before, FailIsRefused
  <2>6. RunInv(r)'
    BY <1>0, <1>1, <1>3, <2>1, <2>2, <2>3, <2>4, <2>5, MoveKeeps
       DEF Early, Before, Steps
  <2>7. QED
    BY <2>2, <2>6
<1>4. QED
  BY <1>0, <1>2, <1>3 DEF FailIsRefused, FailEnds, InFinally

(* execute_dual_keithley_run has completed its copy, or raised.            *)
LEMMA DrivesStep ==
  ASSUME IInv, NEW h \in Handlers, NEW done \in BOOLEAN, DualDrives(h, done),
         UNCHANGED plan
  PROVE  \A q \in Runs : RunInv(q)'
<1>0. PICK r \in Runs : r = handler[h].run
  BY Begin DEF DualDrives, At
<1>1. /\ handler[h].at = "drive" /\ PlanTyped /\ HandlerTyped /\ RunInv(r)
      /\ mem[r] \in Store!Run /\ handler[h].copy \in Store!Run
  BY <1>0, Begin DEF DualDrives, At
<1>2. /\ handler[h].copy = mem[r] /\ mem[r].status = "running" /\ plan[r].dual
      /\ "drive" \in Granting /\ Executes(h)
  BY <1>0, <1>1 DEF RunInv, EarlyAlone, Early, Routes, Serves, Granting, Places,
     Dry,
     Asking, Executes
<1>3. CASE Goes(h, "fail")
  <2>1. handler'[h].copy = handler[h].copy
    BY <1>1, <1>3, GoesEffect DEF Places
  <2>2. /\ Steps(h, "drive", "fail") /\ Around(r, h)
        /\ RunInv(r)' => \A q \in Runs : RunInv(q)'
    BY <1>0, <1>1, <1>3, <2>1, QuietMove DEF DualDrives, QuietSweep, sweepVars,
       Places
  <2>3. "fail" \in Granting
    BY DEF Granting, Places, Dry, Asking
  <2>4. Owning(r)'
    BY <1>0, <1>1, <1>2, <2>2, <2>3, OwningKept DEF Owner, Before, DualDrives
  <2>5. RunInv(r)'
    BY <1>0, <1>1, <1>2, <2>1, <2>2, <2>3, <2>4, MoveKeeps DEF Early, Before, Steps
  <2>6. QED
    BY <2>2, <2>5
<1>4. CASE GoesWith(h, "release", [handler[h].copy EXCEPT !.status = "completed"])
  <2> DEFINE copy == [handler[h].copy EXCEPT !.status = "completed"]
  <2>0. PICK new \in Store!Run : new = [mem[r] EXCEPT !.status = "completed"] /\ new = copy
    BY <1>1, <1>2, Lifecycle DEF Store!Run
  <2>1. GoesWith(h, "release", new) /\ handler'[h].copy = new
    BY <1>1, <1>4, <2>0, GoesWithEffect DEF Places
  <2>2. /\ Steps(h, "drive", "release") /\ Around(r, h)
        /\ RunInv(r)' => \A q \in Runs : RunInv(q)'
    BY <1>0, <1>1, <2>1, QuietMove DEF DualDrives, QuietSweep, sweepVars, Places
  <2>3. "release" \in Granting
    BY DEF Granting, Places, Dry, Asking
  <2>4. Owning(r)'
    BY <1>0, <1>1, <1>2, <2>2, <2>3, OwningKept DEF Owner, Before, DualDrives
  <2>5. Early(h)
    BY <1>1 DEF Early
  <2>6. RunInv(r)'
    BY <1>0, <1>1, <1>2, <2>0, <2>1, <2>2, <2>3, <2>4, <2>5, MoveKeeps
       DEF Before, Steps
  <2>7. QED
    BY <2>2, <2>6
<1>5. QED
  BY <1>3, <1>4 DEF DualDrives

(* The finally clause.                                                     *)
LEMMA ReleasesStep ==
  ASSUME IInv, NEW h \in Handlers, DualReleases(h), UNCHANGED plan
  PROVE  \A q \in Runs : RunInv(q)'
<1>0. PICK r \in Runs : r = handler[h].run
  BY Begin DEF DualReleases, At
<1>1. handler[h].at = "release" /\ PlanTyped /\ HandlerTyped /\ RunInv(r) /\ Ownership!TypeOK
  BY <1>0, Begin DEF DualReleases, At
<1>2. "release" \in Granting /\ Executes(h) /\ plan[r].dual
  BY <1>0, <1>1 DEF Granting, Places, Dry, Asking, Executes, RunInv, Routes, Serves
<1>3. CASE Goes(h, "save") /\ handler[h].copy.status = "completed"
  <2>1. handler'[h].copy = handler[h].copy
    BY <1>1, <1>3, GoesEffect DEF Places
  <2>2. /\ Steps(h, "release", "save") /\ Around(r, h)
        /\ RunInv(r)' => \A q \in Runs : RunInv(q)'
    BY <1>0, <1>1, <1>3, <2>1, QuietMove DEF DualReleases, QuietSweep, sweepVars,
       Places
  <2>3. "save" \in Granting
    BY DEF Granting, Places, Dry, Asking
  <2>4. Owning(r)'
    BY <1>0, <1>1, <1>2, <2>2, <2>3, OwningReleased DEF Owner, Before
  <2>5. Early(h)
    BY <1>1, <1>3 DEF Early
  <2>6. handler[h].copy = [mem[r] EXCEPT !.status = "completed"]
    BY <1>0, <1>1, <2>5 DEF RunInv, EarlyAlone, Serves
  <2>7. RunInv(r)'
    BY <1>0, <1>1, <1>2, <2>1, <2>2, <2>3, <2>4, <2>5, <2>6, MoveKeeps
       DEF Before, Steps
  <2>8. QED
    BY <2>2, <2>7
<1>4. CASE Returns(h)
  <2>1. Alone(h) /\ handler'[h] = IdleHandler
    BY <1>1, <1>4, ReturnsEffect
  <2>2. Around(r, h) /\ Only(r)
    BY <1>0, <2>1 DEF DualReleases, Around, Only, QuietStore, QuietSweep,
       storeVars, sweepVars
  <2>3. RunInv(r)'
    BY <1>0, <1>1, <1>2, <2>1, <2>2, AnswerReleases
  <2>4. QED
    BY <1>0, <1>1, <2>1, <2>2, <2>3, OnlyTheRun DEF IInv, IdleHandler
<1>5. QED
  BY <1>3, <1>4 DEF DualReleases

(* The lease on the two instruments, which begins the drive.               *)
LEMMA LeasesStep ==
  ASSUME IInv, NEW h \in Handlers, NEW leased \in BOOLEAN, DualLeases(h, leased),
         UNCHANGED plan
  PROVE  \A q \in Runs : RunInv(q)'
<1>0. PICK r \in Runs : r = handler[h].run
  BY Begin DEF DualLeases, At
<1>1. /\ handler[h].at = "lease" /\ PlanTyped /\ HandlerTyped /\ RunInv(r)
      /\ Ownership!TypeOK /\ driven \in [Runs -> Nat]
  BY <1>0, Begin DEF DualLeases, At, Rest
<1>2. /\ handler[h].copy = mem[r] /\ mem[r].status = "running" /\ plan[r].dual
      /\ "lease" \in Granting /\ Executes(h)
      /\ driven[r] = 0 /\ grants[r] = 1
  <2>1. grants[r] \in {0, 1}
    BY StoreFacts
  <2>2. QED
    BY <1>0, <1>1, <2>1 DEF RunInv, EarlyAlone, Early, ExecutesAlone, Granted,
       Routes,
       Serves, Granting, Places, Dry, Asking, Executes, Before
<1>3. CASE ~leased
  <2>1. Goes(h, "fail") /\ handler'[h].copy = handler[h].copy
    BY <1>1, <1>3, GoesEffect DEF Places, DualLeases
  <2>2. /\ Steps(h, "lease", "fail") /\ Around(r, h)
        /\ RunInv(r)' => \A q \in Runs : RunInv(q)'
    BY <1>0, <1>1, <1>3, <2>1, QuietMove DEF DualLeases, sweepVars, Places
  <2>3. "fail" \in Granting
    BY DEF Granting, Places, Dry, Asking
  <2>4. Owning(r)'
    BY <1>0, <1>1, <1>2, <2>2, <2>3, OwningKept DEF Owner, Before, DualLeases
  <2>5. RunInv(r)'
    BY <1>0, <1>1, <1>2, <2>1, <2>2, <2>3, <2>4, MoveKeeps DEF Early, Before, Steps
  <2>6. QED
    BY <2>2, <2>5
<1>4. CASE leased
  <2>1. Goes(h, "drive") /\ handler'[h].copy = handler[h].copy
        /\ Steps(h, "lease", "drive")
    BY <1>1, <1>4, GoesEffect, GoesSteps DEF Places, DualLeases, IInv
  <2>2. /\ driven'[r] = 1 /\ \A q \in Runs : q # r => driven'[q] = driven[q]
        /\ UNCHANGED <<mem, disk, grants, worker, owners, plan>>
    BY <1>0, <1>1, <1>2, <1>4 DEF DualLeases, QuietStore, storeVars, sweepVars
  <2>3. Only(r)
    BY <2>2 DEF Only
  <2>4. DryAlone(r)'
    BY <1>0, <1>1, <2>1, <2>2 DEF RunInv, Steps, Alone, DryAlone, Dry, Serves
  <2>5. EarlyAlone(r)'
    <3>1. Early(h) /\ EarlyAlone(r) /\ handler[h].run = r /\ handler[h].at \notin Asking
      BY <1>0, <1>1 DEF RunInv, Early, Asking
    <3>2. ASSUME NEW g \in Handlers, Serves(g, r)', Early(g)'
          PROVE  g = h
      BY <2>1, <3>1, <3>2 DEF Steps, Alone, EarlyAlone, Early, Serves
    <3>3. \A g \in Handlers : Serves(g, r)' => g = h \/ handler'[g].at \in Asking
      BY <2>1, <3>1 DEF Steps, Alone, EarlyAlone, Serves
    <3>4. mem'[r] = mem[r] /\ mem[r].status = "running" /\ ~mem[r].linked
      BY <2>2, <3>1 DEF EarlyAlone, Serves
    <3>5. handler'[h].at = "drive" /\ handler'[h].copy = mem[r]
      BY <1>2, <2>1 DEF Steps
    <3>6. QED
      BY <3>2, <3>3, <3>4, <3>5 DEF EarlyAlone
  <2>6. Routes(r)' /\ Failing(r)'
    BY <1>0, <1>1, <1>2, <2>1, <2>2 DEF RunInv, Steps, Alone, Routes, Failing,
       Serves
  <2>7. Granted(r)'
    BY <1>0, <1>1, <1>2, <2>1, <2>2 DEF RunInv, Steps, Alone, Granted, Linked,
       Serves
  <2>8. ExecutesAlone(r)'
    BY <1>0, <1>1, <1>2, <2>1, <2>2
       DEF RunInv, Steps, Alone, ExecutesAlone, Executes, Before, Serves
  <2>9. Owning(r)'
    BY <1>0, <1>1, <1>2, <2>1, <2>2 DEF RunInv, Steps, Alone, Owning, Before, Serves
  <2>10. QED
    BY <1>0, <1>1, <2>1, <2>3, <2>4, <2>5, <2>6, <2>7, <2>8, <2>9, OnlyTheRun
       DEF RunInv, Steps, IInv
<1>5. QED
  BY <1>3, <1>4

(* Steps that leave the runs, the sweeps' threads and the owners alone.    *)
LEMMA NothingMoves ==
  ASSUME IInv, UNCHANGED <<mem, disk, grants, driven, worker, owners, plan, handler>>
  PROVE  \A q \in Runs : RunInv(q)'
<1>1. PlanTyped
  BY TypeParts, PlanAssumption DEF IInv, PlanTyped, Rest
<1>2. ASSUME NEW q \in Runs
      PROVE  Elsewhere(q)
  BY DEF Elsewhere
<1>3. QED
  BY <1>1, <1>2, ElsewhereQuiet DEF IInv

(* start_sweep registers its session, or fails ...                         *)
LEMMA RegistersStep ==
  ASSUME IInv, NEW h \in Handlers, ExecuteRegisters(h), UNCHANGED plan
  PROVE  \A q \in Runs : RunInv(q)'
<1>0. PICK r \in Runs : r = handler[h].run
  BY Begin DEF ExecuteRegisters, At
<1>1. handler[h].at = "start" /\ PlanTyped /\ HandlerTyped /\ RunInv(r)
  BY <1>0, Begin DEF ExecuteRegisters, At
<1>2. PICK to \in {"launch", "undo"} : Goes(h, to) /\ UNCHANGED worker
  BY DEF ExecuteRegisters, Sweep!Register, sweepVars
<1>3. to \in Places /\ handler'[h].copy = handler[h].copy
  BY <1>1, <1>2, GoesEffect DEF Places
<1>4. /\ Steps(h, "start", to) /\ Around(r, h)
      /\ RunInv(r)' => \A q \in Runs : RunInv(q)'
  BY <1>0, <1>1, <1>2, <1>3, QuietMove DEF ExecuteRegisters
<1>5. /\ "start" \in Granting /\ to \in Granting /\ Executes(h) /\ ~plan[r].dual
  BY <1>0, <1>1 DEF Granting, Places, Dry, Asking, Executes, Before, RunInv,
     Routes, Serves
<1>6. Owning(r)'
  BY <1>0, <1>1, <1>4, <1>5, OwningKept DEF Owner, Before, ExecuteRegisters
<1>7. RunInv(r)'
  BY <1>0, <1>1, <1>2, <1>4, <1>5, <1>6, MoveKeeps DEF Early, Before, Steps
<1>8. QED
  BY <1>4, <1>7

(* ... and gives the run to its thread.                                    *)
LEMMA LaunchesStep ==
  ASSUME IInv, NEW h \in Handlers, ExecuteLaunches(h), UNCHANGED plan
  PROVE  \A q \in Runs : RunInv(q)'
<1>0. PICK r \in Runs : r = handler[h].run
  BY Begin DEF ExecuteLaunches, At
<1>1. /\ handler[h].at = "launch" /\ PlanTyped /\ HandlerTyped /\ RunInv(r)
      /\ Ownership!TypeOK /\ driven \in [Runs -> Nat] /\ Sweep!TypeOK
  BY <1>0, Begin DEF ExecuteLaunches, At, Rest
<1>2. CASE Sweep!Prepare(r) \/ Sweep!BeginRunning(r)
  <2>1. UNCHANGED <<handler, driven>> \/ Sweep!Spawn(r)
    BY <1>0 DEF ExecuteLaunches
  <2>2. starter[r] # "running"
    BY <1>2 DEF Sweep!Prepare, Sweep!BeginRunning, Sweep!Starting
  <2>3. UNCHANGED <<handler, driven>> /\ UNCHANGED worker
    BY <1>2, <2>1, <2>2 DEF Sweep!Spawn, Sweep!Starting, Sweep!Prepare,
       Sweep!BeginRunning
  <2>4. QED
    BY <2>3, NothingMoves DEF ExecuteLaunches, QuietStore, storeVars
<1>3. CASE Sweep!Spawn(r) /\ driven' = [driven EXCEPT ![r] = @ + 1] /\ Returns(h)
  <2>1. Alone(h) /\ handler'[h] = IdleHandler /\ ~Serves(h, r)'
    BY <1>0, <1>1, <1>3, ReturnsEffect, NoneAssumption DEF Serves, IdleHandler
  <2>2. /\ driven[r] = 0 /\ worker[r] = "none" /\ grants[r] = 1
        /\ \A g \in Handlers : Serves(g, r) /\ Executes(g) => g = h
        /\ \A g \in Handlers : Serves(g, r) /\ handler[g].at \in Dry => g = h
        /\ \A a \in plan[r].addresses : owners[a] = r
    <3>1. grants[r] \in {0, 1}
      BY StoreFacts
    <3>2. Executes(h) /\ handler[h].at \in Granting /\ Serves(h, r)
      BY <1>0, <1>1 DEF Executes, Before, Granting, Places, Dry, Asking, Serves
    <3>3. /\ driven[r] = 0 /\ worker[r] = "none"
          /\ \A g \in Handlers : Serves(g, r) /\ Executes(g) => g = h
      BY <1>1, <3>2 DEF RunInv, ExecutesAlone, Before
    <3>4. grants[r] > 0
      BY <1>1, <3>2 DEF RunInv, Granted
    <3>5. \A g \in Handlers : Serves(g, r) /\ handler[g].at \in Dry => g = h
      BY <1>1, <3>2 DEF RunInv, DryAlone
    <3>6. \A a \in plan[r].addresses : owners[a] = r
      BY <1>1, <3>2 DEF RunInv, Owning, Before
    <3>7. QED
      BY <3>1, <3>3, <3>4, <3>5, <3>6
  <2>3. /\ driven'[r] = 1 /\ \A q \in Runs : q # r => driven'[q] = driven[q]
        /\ worker'[r] = "enter" /\ \A q \in Runs : q # r => worker'[q] = worker[q]
        /\ UNCHANGED <<mem, disk, grants, owners, plan>>
    BY <1>0, <1>1, <1>3, <2>2 DEF ExecuteLaunches, QuietStore, storeVars,
       Sweep!Spawn,
       Sweep!TypeOK
  <2>4. Only(r)
    BY <2>3 DEF Only
  <2>5. DryAlone(r)'
    BY <1>1, <2>1, <2>2, <2>3 DEF Alone, DryAlone, Serves
  <2>6. EarlyAlone(r)' /\ ExecutesAlone(r)'
    <3>1. \A g \in Handlers : Serves(g, r)' => g # h /\ handler'[g] = handler[g]
      BY <2>1 DEF Alone
    <3>2. \A g \in Handlers : Serves(g, r)' => ~Executes(g)' /\ ~Early(g)'
      BY <2>2, <2>3, <3>1 DEF Executes, Early, Before, Serves
    <3>3. QED
      BY <3>2 DEF EarlyAlone, ExecutesAlone
  <2>7. Granted(r)'
    BY <2>1, <2>2, <2>3 DEF Granted, RunInv
  <2>8. Routes(r)' /\ Failing(r)'
    BY <1>1, <2>1, <2>3 DEF RunInv, Alone, Routes, Failing, Serves
  <2>9. Owning(r)'
    BY <2>2, <2>3 DEF Owning
  <2>10. QED
    BY <1>0, <1>1, <2>1, <2>4, <2>5, <2>6, <2>7, <2>8, <2>9, OnlyTheRun
       DEF RunInv, IdleHandler, IInv
<1>4. QED
  BY <1>0, <1>2, <1>3 DEF ExecuteLaunches

(* stop_run: the session is found, or the run is failed.                   *)
LEMMA LooksUpStep ==
  ASSUME IInv, NEW h \in Handlers, StopLooksUp(h), UNCHANGED plan
  PROVE  \A q \in Runs : RunInv(q)'
<1>0. PICK r \in Runs : r = handler[h].run
  BY Begin DEF StopLooksUp, At
<1>1. handler[h].at = "stopSweep" /\ PlanTyped /\ HandlerTyped /\ RunInv(r)
  BY <1>0, Begin DEF StopLooksUp, At
<1>2. PICK to \in {"stopRuns", "fail"} : Goes(h, to) /\ UNCHANGED worker
  BY DEF StopLooksUp, Sweep!StopLookup, Sweep!Stopping, sweepVars
<1>3. to \in Places /\ handler'[h].copy = handler[h].copy
  BY <1>1, <1>2, GoesEffect DEF Places
<1>4. /\ Steps(h, "stopSweep", to) /\ Around(r, h)
      /\ RunInv(r)' => \A q \in Runs : RunInv(q)'
  BY <1>0, <1>1, <1>2, <1>3, QuietMove DEF StopLooksUp
<1>5. "stopSweep" \in Granting /\ to \in Granting /\ ~plan[r].dual
  BY <1>0, <1>1 DEF Granting, Places, Dry, Asking, RunInv, Routes, Serves
<1>6. Owning(r)'
  BY <1>0, <1>1, <1>4, <1>5, OwningKept DEF Owner, Before, StopLooksUp
<1>7. ~Early(h)' /\ ~Executes(h)'
  BY <1>0, <1>4, <1>5 DEF Early, Executes, Before, Steps, Around
<1>8. /\ to \notin Before \union {"link", "start", "launch", "undo", "stopping", "stopSweep"}
      /\ to \notin {"lease", "drive", "release", "save", "failSave"}
  BY <1>2 DEF Before
<1>9. RunInv(r)'
  BY <1>0, <1>1, <1>4, <1>5, <1>6, <1>7, <1>8, MoveKeeps
<1>10. QED
  BY <1>4, <1>9

(* stop_sweep, which touches the session alone.                            *)
LEMMA StopRunsStep ==
  ASSUME IInv, NEW h \in Handlers, StopRuns(h), UNCHANGED plan
  PROVE  \A q \in Runs : RunInv(q)'
<1>1. UNCHANGED worker
  BY DEF StopRuns, Sweep!StopStep, Sweep!StopTooEarly, Sweep!StopLooks,
     Sweep!StopRefused, Sweep!StopChecks, Sweep!StopAssigns, Sweep!StopSets,
     Sweep!Stopping
<1>2. CASE UNCHANGED handler
  BY <1>1, <1>2, NothingMoves DEF StopRuns, QuietStore, storeVars
<1>3. CASE Returns(h)
  BY <1>1, <1>3, AnswerStep DEF StopRuns, At, QuietStore
<1>4. QED
  BY <1>2, <1>3 DEF StopRuns

(* The fingerprints of the validation context.                             *)
LEMMA FingerprintsStep ==
  ASSUME IInv, NEW h \in Handlers, DryRunFingerprints(h) \/ ExecuteFingerprints(h),
         UNCHANGED plan
  PROVE  \A q \in Runs : RunInv(q)'
<1>0. PICK r \in Runs : r = handler[h].run
  BY Begin DEF DryRunFingerprints, ExecuteFingerprints, At
<1>1. /\ PlanTyped /\ HandlerTyped /\ RunInv(r) /\ Ownership!TypeOK
      /\ handler[h].copy \in Store!Run /\ context \in Fingerprints
  BY <1>0, Begin DEF DryRunFingerprints, ExecuteFingerprints, At, Rest
<1>2. CASE ExecuteFingerprints(h) /\ Returns(h)
  BY <1>2, AnswerStep DEF ExecuteFingerprints, At, QuietSweep, sweepVars
<1>3. /\ Only(r)
      /\ UNCHANGED <<mem, disk, grants, driven, worker, owners, plan>>
  BY DEF DryRunFingerprints, ExecuteFingerprints, QuietStore, QuietSweep, storeVars,
     sweepVars, Only
<1>4. CASE DryRunFingerprints(h)
  <2>0. handler[h].at = "dryFingerprint"
    BY <1>4 DEF DryRunFingerprints, At
  <2> DEFINE copy == [handler[h].copy EXCEPT !.valFp = context]
  <2>1. /\ copy \in Store!Run /\ copy.status = handler[h].copy.status
        /\ copy.key = handler[h].copy.key /\ copy.execFp = handler[h].copy.execFp
        /\ copy.linked = handler[h].copy.linked
    BY <1>1 DEF Store!Run
  <2>2. GoesWith(h, "drySave", copy)
    BY <1>4 DEF DryRunFingerprints
  <2> HIDE DEF copy
  <2>3. /\ Alone(h) /\ handler'[h].run = r /\ handler'[h].at = "drySave"
        /\ handler'[h].copy = copy
    BY <1>0, <1>1, <2>1, <2>2, GoesWithEffect DEF SameRequest, Places
  <2>4. /\ \A g \in Handlers : Serves(g, r) => g = h
        /\ mem[r].status \in Executable
        /\ handler[h].copy.status = "dry_run"
        /\ handler[h].copy.key = mem[r].key /\ handler[h].copy.execFp = mem[r].execFp
        /\ handler[h].copy.linked = mem[r].linked
    BY <1>0, <1>1, <2>0 DEF RunInv, DryAlone, Dry, Serves
  <2>5. \A g \in Handlers : Serves(g, r)' => g = h
    BY <2>3, <2>4 DEF Alone, Serves
  <2>6. DryAlone(r)'
    BY <1>3, <2>1, <2>3, <2>4, <2>5 DEF DryAlone
  <2>7. ~Early(h)' /\ ~Executes(h)' /\ handler'[h].at \notin Granting
    BY <2>3 DEF Early, Executes, Before, Granting, Dry
  <2>8. EarlyAlone(r)' /\ ExecutesAlone(r)' /\ Granted(r)'
    BY <1>1, <1>3, <2>5, <2>7 DEF RunInv, EarlyAlone, ExecutesAlone, Granted, Linked
  <2>9. Routes(r)' /\ Failing(r)'
    BY <2>3, <2>5 DEF Routes, Failing
  <2>10. Owning(r)'
    BY <1>1, <1>3, <2>3, <2>5 DEF RunInv, Owning, Before
  <2>11. QED
    BY <1>0, <1>1, <1>3, <2>3, <2>6, <2>8, <2>9, <2>10, OnlyTheRun DEF RunInv, IInv
<1>5. CASE /\ ExecuteFingerprints(h)
           /\ handler' = [handler EXCEPT ![h].at = "reserve", ![h].fp = context]
  <2>0. handler[h].at = "fingerprint"
    BY <1>5 DEF ExecuteFingerprints, At
  <2>1. Alone(h) /\ handler'[h].run = r /\ handler'[h].at = "reserve"
    BY <1>0, <1>1, <1>5 DEF HandlerTyped, Handler, Alone
  <2>2. handler[h].at \in Asking /\ handler'[h].at \in Asking
    BY <2>0, <2>1 DEF Asking
  <2>3. DryAlone(r)'
    BY <1>0, <1>1, <1>3, <2>1 DEF RunInv, DryAlone, Alone, Serves, Dry
  <2>4. EarlyAlone(r)'
    BY <1>0, <1>1, <1>3, <2>1, <2>2 DEF RunInv, EarlyAlone, Early, Alone, Serves
  <2>5. ExecutesAlone(r)'
    BY <1>0, <1>1, <1>3, <2>1 DEF RunInv, ExecutesAlone, Executes, Alone, Serves,
       Before
  <2>6. Granted(r)'
    BY <1>0, <1>1, <1>3, <2>1, <2>2 DEF RunInv, Granted, Linked, Alone, Serves,
       Granting
  <2>7. Routes(r)' /\ Failing(r)'
    BY <1>0, <1>1, <1>3, <2>1 DEF RunInv, Routes, Failing, Alone, Serves
  <2>8. Owning(r)'
    BY <1>0, <1>1, <1>3, <2>1 DEF RunInv, Owning, Alone, Serves, Before
  <2>9. QED
    BY <1>0, <1>1, <1>3, <2>1, <2>3, <2>4, <2>5, <2>6, <2>7, <2>8, OnlyTheRun
       DEF RunInv, IInv
<1>6. QED
  BY <1>2, <1>4, <1>5 DEF ExecuteFingerprints

(* Requests that are answered without touching anything.                   *)
LEMMA AnswersStep ==
  ASSUME IInv, NEW h \in Handlers,
         ExecuteIsAnswered(h) \/ ExecuteBreaks(h) \/ StopIsRefused(h),
         UNCHANGED plan
  PROVE  \A q \in Runs : RunInv(q)'
BY AnswerStep DEF ExecuteIsAnswered, ExecuteBreaks, StopIsRefused, At, QuietSweep,
   sweepVars

-----------------------------------------------------------------------------
(* The steps of the handlers that write to the store.                      *)

(* A run whose record has no key was never granted.                        *)
LEMMA UnkeyedIsUngranted ==
  ASSUME IInv, NEW r \in Runs, mem[r] # Absent, mem[r].key = None
  PROVE  grants[r] = 0
<1>1. StoreProofs!MarkAssumption /\ StoreProofs!NoneAssumption
  BY NoneAssumption, MarkAssumption
     DEF StoreProofs!NoneAssumption, StoreProofs!MarkAssumption, Store!Run,
     StoreProofs!Run, Store!RunStatus, StoreProofs!RunStatus, Store!Active,
     Store!Executable, Store!Terminal, StoreProofs!Active,
     StoreProofs!Executable, StoreProofs!Terminal
<1>2. ~(grants[r] > 0)
  BY <1>1, StoreProofs!GrantedIsKeyed DEF IInv
<1>3. QED
  BY <1>2, StoreFacts

(* A handler beyond its reservation shares its run with no dry-run, and    *)
(* with no other handler that relies on its copy.                          *)
LEMMA NobodyElse ==
  ASSUME NEW r \in Runs, RunInv(r), NEW h \in Handlers, Serves(h, r),
         handler[h].at \in Granting
  PROVE  /\ \A g \in Handlers : Serves(g, r) /\ g # h =>
              handler[g].at \notin Dry /\ ~Early(g)
         /\ Early(h) => \A g \in Handlers : Serves(g, r) /\ g # h =>
              handler[g].at \in Asking
<1>1. handler[h].at \notin Dry \union Asking
  BY DEF Granting
<1>2. QED
  BY <1>1 DEF RunInv, DryAlone, EarlyAlone

(* A handler writes the record of its run; nothing of the others moves.    *)
LEMMA WriteStays ==
  ASSUME IInv, NEW h \in Handlers, handler[h].at # "idle",
         NEW r \in Runs, r = handler[h].run, NEW run, Stored(r, run),
         \A q \in Runs : q # r => grants'[q] = grants[q],
         UNCHANGED <<worker, driven, owners, plan>>,
         Alone(h), handler'[h].run \in {r, None},
         RunInv(r)'
  PROVE  \A q \in Runs : RunInv(q)'
<1>1. Only(r)
  BY DEF Only, Stored
<1>2. Ownership!TypeOK /\ PlanTyped
  BY Begin
<1>3. QED
  BY <1>1, <1>2, OnlyTheRun DEF IInv

(* What has to be seen of the others when h writes the record of r.        *)
Writes(h, r, run) ==
  /\ UNCHANGED <<worker, driven, owners, plan>>
  /\ mem'[r] = run /\ disk'[r] \in {disk[r], run}
  /\ grants'[r] >= grants[r] /\ grants[r] \in Nat /\ grants'[r] \in Nat
  /\ driven[r] \in Nat
  /\ Linked(run) => grants'[r] > 0
  /\ \A g \in Handlers : g # h => handler'[g] = handler[g]
  /\ \A g \in Handlers : Serves(g, r) /\ g # h =>
       /\ handler[g].at \notin Dry /\ ~Early(g)
       /\ handler[g].at = "failSave" => run = mem[r]

(* It may answer ...                                                       *)
LEMMA WriteAnswers ==
  ASSUME NEW r \in Runs, RunInv(r), PlanTyped, NEW h \in Handlers, NEW run,
         Writes(h, r, run), handler'[h] = IdleHandler
  PROVE  RunInv(r)'
<1>0. ~Serves(h, r)'
  BY NoneAssumption DEF Serves, IdleHandler
<1>1. \A g \in Handlers : Serves(g, r)' =>
        /\ g # h /\ Serves(g, r) /\ handler'[g] = handler[g]
        /\ handler[g].at \notin Dry /\ ~Early(g) /\ ~Early(g)'
        /\ handler[g].at = "failSave" => run = mem[r]
  BY <1>0 DEF Writes, Serves, Early
<1>2. DryAlone(r)' /\ EarlyAlone(r)'
  BY <1>1 DEF DryAlone, EarlyAlone
<1>3. ExecutesAlone(r)'
  BY <1>1 DEF RunInv, Writes, ExecutesAlone, Executes, Serves
<1>4. Granted(r)'
  BY <1>1 DEF RunInv, Writes, Granted, Linked
<1>5. Routes(r)' /\ Failing(r)'
  BY <1>1 DEF RunInv, Writes, Routes, Failing
<1>6. Owning(r)'
  BY <1>1 DEF RunInv, Writes, Owning, PlanTyped
<1>7. QED
  BY <1>2, <1>3, <1>4, <1>5, <1>6 DEF RunInv

(* ... or go on.                                                           *)
LEMMA WriteGoesOn ==
  ASSUME NEW r \in Runs, RunInv(r), PlanTyped, NEW h \in Handlers, NEW run,
         Writes(h, r, run), NEW from \in Places, NEW to \in Granting,
         Steps(h, from, to), r = handler[h].run,
         grants'[r] > 0,
         Early(h)' => /\ \A g \in Handlers : Serves(g, r) /\ g # h =>
                           handler[g].at \in Asking
                      /\ run.status = "running" /\ ~run.linked
                      /\ handler'[h].copy = run /\ to \notin {"release", "save"},
         Executes(h)' => /\ \A g \in Handlers : Serves(g, r) /\ g # h => ~Executes(g)
                         /\ to \in Before => driven[r] = 0
                         /\ worker[r] = "none",
         to \in {"link", "start", "launch", "undo",
                 "stopping", "stopSweep", "stopRuns"} => ~plan[r].dual,
         to \in {"lease", "drive", "release", "save"} => plan[r].dual,
         to = "fail" /\ plan[r].dual => handler'[h].copy.status # "completed",
         to = "failSave" => handler'[h].copy = run /\ run.status = "error",
         to \in Owner => from \in Owner
  PROVE  RunInv(r)'
<1>1. Serves(h, r) /\ Serves(h, r)' /\ handler'[h].at = to
  BY DEF Steps, Serves
<1>2. \A g \in Handlers : Serves(g, r)' /\ g # h =>
        /\ Serves(g, r) /\ handler'[g] = handler[g]
        /\ handler[g].at \notin Dry /\ ~Early(g) /\ ~Early(g)'
        /\ Executes(g)' <=> Executes(g)
        /\ handler[g].at = "failSave" => run = mem[r]
  BY DEF Writes, Serves, Early, Executes
<1>3. to \notin Dry \union Asking
  BY DEF Granting
<1>4. DryAlone(r)'
  BY <1>1, <1>2, <1>3 DEF DryAlone
<1>5. EarlyAlone(r)'
  BY <1>1, <1>2 DEF EarlyAlone, Writes
<1>6. ExecutesAlone(r)'
  BY <1>1, <1>2 DEF RunInv, ExecutesAlone, Writes
<1>7. Granted(r)'
  BY <1>1, <1>2 DEF RunInv, Writes, Granted, Linked
<1>8. Routes(r)' /\ Failing(r)'
  BY <1>1, <1>2 DEF RunInv, Writes, Routes, Failing
<1>9. Owning(r)'
  BY <1>1, <1>2 DEF RunInv, Writes, Owning, Owner, PlanTyped, Steps
<1>10. QED
  BY <1>4, <1>5, <1>6, <1>7, <1>8, <1>9 DEF RunInv

(* A dry-run writes its copy: the run was its own.                         *)
LEMMA DryRunSavesStep ==
  ASSUME IInv, NEW h \in Handlers, NEW saved, DryRunSaves(h, saved), UNCHANGED plan
  PROVE  \A q \in Runs : RunInv(q)'
<1>0. PICK r \in Runs : r = handler[h].run
  BY Begin DEF DryRunSaves, At
<1>1. /\ handler[h].at = "drySave" /\ PlanTyped /\ HandlerTyped /\ RunInv(r)
      /\ StoreTyped /\ handler[h].copy \in Store!Run /\ mem[r] \in Store!Run
      /\ driven \in [Runs -> Nat]
  BY <1>0, Begin DEF DryRunSaves, At, Rest
<1>2. /\ Stored(r, handler[h].copy) /\ UNCHANGED grants
      /\ UNCHANGED <<worker, driven, owners, plan>>
  BY <1>0, <1>1, UpdateEffect DEF DryRunSaves, QuietSweep, sweepVars
<1>3. Alone(h) /\ handler'[h] = IdleHandler
  BY <1>1, ReturnsEffect DEF DryRunSaves
<1>4. /\ \A g \in Handlers : Serves(g, r) => g = h
      /\ handler[h].copy.linked = mem[r].linked
  BY <1>0, <1>1 DEF RunInv, DryAlone, Dry, Serves
<1>5. Writes(h, r, handler[h].copy)
  BY <1>1, <1>2, <1>3, <1>4 DEF Writes, Stored, StoreTyped, Alone, RunInv,
     Granted, Linked
<1>6. RunInv(r)'
  BY <1>1, <1>3, <1>5, WriteAnswers
<1>7. QED
  BY <1>0, <1>1, <1>2, <1>3, <1>6, WriteStays DEF IdleHandler

(* The reservation is granted, or _persist raised: nobody had it before.   *)
LEMMA ReservesStep ==
  ASSUME IInv, NEW h \in Handlers, NEW saved \in BOOLEAN, ExecuteReserves(h, saved),
         UNCHANGED plan
  PROVE  \A q \in Runs : RunInv(q)'
<1>0. PICK r \in Runs : r = handler[h].run
  BY Begin DEF ExecuteReserves, At
<1>1. /\ handler[h].at = "reserve" /\ PlanTyped /\ HandlerTyped /\ RunInv(r)
      /\ StoreTyped /\ handler[h].copy \in Store!Run /\ mem[r] \in Store!Run
      /\ driven \in [Runs -> Nat] /\ mem[r] # Absent
  BY <1>0, Begin, OnItsWay DEF ExecuteReserves, At, Rest, IInv
<1>2. handler[h].key \in Keys /\ handler[h].fp \in Fingerprints
  BY <1>1, OnItsWay DEF IInv
<1>3. PICK run \in Store!Run : run = Store!Reserved(mem[r], handler[h].key, handler[h].fp)
  BY <1>0, <1>1, <1>2, ReserveEffect DEF ExecuteReserves
<1>4. /\ mem[r].key = None /\ run.status = "running" /\ run.linked = mem[r].linked
      /\ Stored(r, run)
      /\ grants'[r] = IF saved THEN grants[r] + 1 ELSE grants[r]
      /\ \A q \in Runs : q # r => grants'[q] = grants[q]
      /\ UNCHANGED <<worker, driven, owners, plan>>
  BY <1>0, <1>1, <1>2, <1>3, ReserveEffect DEF ExecuteReserves, QuietSweep,
     sweepVars
<1>5. grants[r] = 0
  BY <1>1, <1>4, UnkeyedIsUngranted
<1>6. /\ driven[r] = 0 /\ ~Linked(mem[r]) /\ worker[r] = "none"
      /\ \A g \in Handlers : Serves(g, r) => handler[g].at \notin Granting
  BY <1>1, <1>5 DEF RunInv, Granted
<1>7. \A g \in Handlers : Serves(g, r) => handler[g].at \in Asking
  <2>1. Serves(h, r) /\ handler[h].at \notin Dry
    BY <1>0, <1>1 DEF Serves, Dry
  <2>2. ASSUME NEW g \in Handlers, Serves(g, r)
        PROVE  handler[g].at \notin Dry /\ handler[g].at # "idle"
    BY <1>0, <1>1, <2>1, <2>2, Begin DEF RunInv, DryAlone, Serves, IInv, Serving,
       Served
  <2>3. QED
    BY <1>1, <1>6, <2>2 DEF HandlerTyped, Handler, Granting
<1>8. ~run.linked
  BY <1>1, <1>4, <1>6 DEF Linked
<1>9. \A g \in Handlers : Serves(g, r) =>
        /\ handler[g].at \notin Dry /\ ~Early(g) /\ ~Executes(g)
        /\ handler[g].at # "failSave"
  BY <1>7 DEF Asking, Dry, Early, Executes, Before
<1>10. ASSUME Alone(h)
       PROVE  Writes(h, r, run)
  BY <1>1, <1>4, <1>5, <1>8, <1>9, <1>10 DEF Writes, Stored, StoreTyped, Alone,
     Linked
<1>11. CASE saved
  <2>1. GoesWith(h, "own", run)
    BY <1>0, <1>4, <1>11 DEF ExecuteReserves, Stored
  <2>2. /\ Alone(h) /\ handler'[h].copy = run /\ Steps(h, "reserve", "own")
    BY <1>1, <2>1, GoesWithEffect, GoesSteps DEF IInv, Places
  <2>3. "own" \in Granting /\ "reserve" \in Places /\ "own" \notin Owner
    BY DEF Granting, Places, Dry, Asking, Owner, Before
  <2>4. RunInv(r)'
    BY <1>0, <1>1, <1>4, <1>5, <1>6, <1>7, <1>8, <1>9, <1>10, <1>11, <2>2, <2>3,
       WriteGoesOn
  <2>5. QED
    BY <1>0, <1>1, <1>4, <2>2, <2>4, WriteStays DEF Steps
<1>12. CASE ~saved
  <2>1. Alone(h) /\ handler'[h] = IdleHandler
    BY <1>1, <1>12, ReturnsEffect DEF ExecuteReserves
  <2>2. RunInv(r)'
    BY <1>1, <1>10, <2>1, WriteAnswers
  <2>3. handler'[h].run = None /\ handler[h].at # "idle"
    BY <1>1, <2>1 DEF IdleHandler
  <2>4. QED
    BY <1>0, <1>4, <2>1, <2>2, <2>3, WriteStays
<1>13. QED
  BY <1>11, <1>12

(* The copy with the id of the sweep is written back, before there is one. *)
LEMMA LinksStep ==
  ASSUME IInv, NEW h \in Handlers, NEW saved \in BOOLEAN, ExecuteLinks(h, saved),
         UNCHANGED plan
  PROVE  \A q \in Runs : RunInv(q)'
<1>0. PICK r \in Runs : r = handler[h].run
  BY Begin DEF ExecuteLinks, At
<1>1. /\ handler[h].at = "link" /\ PlanTyped /\ HandlerTyped /\ RunInv(r)
      /\ StoreTyped /\ handler[h].copy \in Store!Run /\ mem[r] \in Store!Run
      /\ driven \in [Runs -> Nat] /\ Serves(h, r)
  BY <1>0, Begin DEF ExecuteLinks, At, Rest, Serves
<1>2. PICK run \in Store!Run : run = [handler[h].copy EXCEPT !.linked = TRUE]
  BY <1>1 DEF Store!Run
<1>3. /\ Stored(r, run) /\ UNCHANGED grants
      /\ UNCHANGED <<worker, driven, owners, plan>>
  BY <1>0, <1>1, <1>2, UpdateEffect DEF ExecuteLinks, QuietSweep, sweepVars
<1>4. PICK to \in {"start", "undo"} : GoesWith(h, to, run)
  BY <1>2 DEF ExecuteLinks
<1>5. Alone(h) /\ handler'[h].copy = run /\ Steps(h, "link", to)
  BY <1>1, <1>4, GoesWithEffect, GoesSteps DEF IInv, Places
<1>6. /\ to \in Granting /\ "link" \in Places /\ "link" \in Granting /\ "link" \in Owner
      /\ "link" \in Before /\ Executes(h) /\ Early(h)
  BY <1>1 DEF Granting, Places, Dry, Asking, Owner, Before, Executes, Early
<1>7. /\ grants[r] > 0 /\ ~plan[r].dual
      /\ driven[r] = 0 /\ worker[r] = "none"
      /\ \A g \in Handlers : Serves(g, r) /\ g # h => ~Executes(g)
  BY <1>1, <1>6 DEF RunInv, Granted, Routes, ExecutesAlone
<1>8. \A g \in Handlers : Serves(g, r) /\ g # h =>
        handler[g].at \in Asking /\ handler[g].at \notin Dry /\ ~Early(g)
  BY <1>1, <1>6, NobodyElse
<1>9. Writes(h, r, run)
  BY <1>1, <1>3, <1>5, <1>7, <1>8 DEF Writes, Stored, StoreTyped, Alone, Asking
<1>10. ~Early(h)'
  BY <1>5 DEF Steps, Early
<1>11. RunInv(r)'
  BY <1>0, <1>1, <1>3, <1>4, <1>5, <1>6, <1>7, <1>9, <1>10, WriteGoesOn
<1>12. QED
  BY <1>0, <1>1, <1>3, <1>5, <1>11, WriteStays DEF Steps

(* execute_multi writes the completed copy.                                *)
LEMMA DualSavesStep ==
  ASSUME IInv, NEW h \in Handlers, NEW saved, DualSaves(h, saved), UNCHANGED plan
  PROVE  \A q \in Runs : RunInv(q)'
<1>0. PICK r \in Runs : r = handler[h].run
  BY Begin DEF DualSaves, At
<1>1. /\ handler[h].at = "save" /\ PlanTyped /\ HandlerTyped /\ RunInv(r)
      /\ StoreTyped /\ handler[h].copy \in Store!Run /\ mem[r] \in Store!Run
      /\ driven \in [Runs -> Nat] /\ Serves(h, r)
  BY <1>0, Begin DEF DualSaves, At, Rest, Serves
<1>2. /\ Stored(r, handler[h].copy) /\ UNCHANGED grants
      /\ UNCHANGED <<worker, driven, owners, plan>>
  BY <1>0, <1>1, UpdateEffect DEF DualSaves, QuietSweep, sweepVars
<1>3. Alone(h) /\ handler'[h] = IdleHandler
  BY <1>1, ReturnsEffect DEF DualSaves
<1>4. Early(h) /\ handler[h].at \in Granting
  BY <1>1 DEF Early, Granting, Places, Dry, Asking
<1>5. \A g \in Handlers : Serves(g, r) /\ g # h =>
        handler[g].at \in Asking /\ handler[g].at \notin Dry /\ ~Early(g)
  BY <1>1, <1>4, NobodyElse
<1>6. grants[r] > 0
  BY <1>1, <1>4 DEF RunInv, Granted
<1>7. Writes(h, r, handler[h].copy)
  BY <1>1, <1>2, <1>3, <1>5, <1>6 DEF Writes, Stored, StoreTyped, Alone, Asking
<1>8. RunInv(r)'
  BY <1>1, <1>3, <1>7, WriteAnswers
<1>9. QED
  BY <1>0, <1>1, <1>2, <1>3, <1>8, WriteStays DEF IdleHandler

(* stop_run moves the run to STOPPING, unless _persist raises.             *)
LEMMA StopTransitionsStep ==
  ASSUME IInv, NEW h \in Handlers, NEW saved, StopTransitions(h, saved), UNCHANGED plan
  PROVE  \A q \in Runs : RunInv(q)'
<1>0. PICK r \in Runs : r = handler[h].run
  BY Begin DEF StopTransitions, At
<1>1. /\ handler[h].at = "stopping" /\ PlanTyped /\ HandlerTyped /\ RunInv(r)
      /\ StoreTyped /\ mem[r] \in Store!Run
      /\ driven \in [Runs -> Nat] /\ Serves(h, r)
  BY <1>0, Begin DEF StopTransitions, At, Rest, Serves
<1>2. PICK run \in Store!Run : run = [mem[r] EXCEPT !.status = "stopping"]
  BY <1>1, Lifecycle DEF Store!Run
<1>3. /\ Stored(r, run) /\ UNCHANGED grants /\ CanTransition(mem[r].status, "stopping")
      /\ UNCHANGED <<worker, driven, owners, plan>>
  BY <1>0, <1>1, <1>2, Lifecycle, TransitionEffect DEF StopTransitions,
     QuietSweep, sweepVars
<1>4. handler[h].at \in Granting
  BY <1>1 DEF Granting, Places, Dry, Asking
<1>5. grants[r] > 0 /\ ~plan[r].dual
  BY <1>1, <1>4 DEF RunInv, Granted, Routes
<1>6. mem[r].status # "error"
  BY <1>3 DEF CanTransition, AllowedTransitions
<1>7. \A g \in Handlers : Serves(g, r) /\ g # h =>
        handler[g].at \notin Dry /\ ~Early(g) /\ handler[g].at # "failSave"
  BY <1>1, <1>4, <1>6, NobodyElse DEF RunInv, Failing
<1>8. ASSUME Alone(h)
      PROVE  Writes(h, r, run)
  BY <1>1, <1>3, <1>5, <1>7, <1>8 DEF Writes, Stored, StoreTyped, Alone
<1>9. CASE Goes(h, "stopSweep")
  <2>1. Alone(h) /\ Steps(h, "stopping", "stopSweep")
    BY <1>1, <1>9, GoesEffect, GoesSteps DEF IInv, Places
  <2>2. "stopSweep" \in Granting /\ "stopping" \in Places
        /\ ~Early(h)' /\ ~Executes(h)' /\ "stopSweep" \notin Owner
    BY <2>1 DEF Granting, Places, Dry, Asking, Owner, Before, Early, Executes, Steps
  <2>3. RunInv(r)'
    BY <1>0, <1>1, <1>3, <1>5, <1>8, <2>1, <2>2, WriteGoesOn
  <2>4. QED
    BY <1>0, <1>1, <1>3, <2>1, <2>3, WriteStays DEF Steps
<1>10. CASE Returns(h)
  <2>1. Alone(h) /\ handler'[h] = IdleHandler
    BY <1>1, <1>10, ReturnsEffect
  <2>2. RunInv(r)'
    BY <1>1, <1>8, <2>1, WriteAnswers
  <2>3. handler[h].at # "idle" /\ handler'[h].run = None
    BY <1>1, <2>1 DEF IdleHandler
  <2>4. \A q \in Runs : q # r => grants'[q] = grants[q]
    BY <1>3
  <2>5. UNCHANGED <<worker, driven, owners, plan>> /\ Stored(r, run)
    BY <1>3
  <2>6. QED
    BY <1>0, <2>1, <2>2, <2>3, <2>4, <2>5, WriteStays
<1>11. QED
  BY <1>9, <1>10 DEF StopTransitions

(* What failing its run leaves a handler with: the finally clause gives    *)
(* back what a dual-device run owns, any other handler answers.            *)
LEMMA FailureEnds ==
  ASSUME IInv, NEW h \in Handlers, handler[h].at \in {"fail", "failSave"},
         FailEnds(h), UNCHANGED <<worker, driven, owners, plan>>,
         NEW r \in Runs, r = handler[h].run, NEW run \in Store!Run, Stored(r, run),
         UNCHANGED grants, Linked(run) => grants[r] > 0,
         handler[h].copy.status # "completed" \/ ~plan[r].dual,
         \A g \in Handlers : Serves(g, r) /\ g # h /\ handler[g].at = "failSave" =>
           run = mem[r]
  PROVE  \A q \in Runs : RunInv(q)'
<1>1. /\ PlanTyped /\ HandlerTyped /\ RunInv(r) /\ StoreTyped
      /\ driven \in [Runs -> Nat] /\ Serves(h, r)
  BY Begin DEF Rest, Serves
<1>2. handler[h].at \in Granting
  BY DEF Granting, Places, Dry, Asking
<1>3. \A g \in Handlers : Serves(g, r) /\ g # h => handler[g].at \notin Dry /\ ~Early(g)
  BY <1>1, <1>2, NobodyElse
<1>4. ASSUME Alone(h)
      PROVE  Writes(h, r, run)
  BY <1>1, <1>3, <1>4 DEF Writes, Stored, StoreTyped, Alone
<1>5. CASE Returns(h)
  <2>1. Alone(h) /\ handler'[h] = IdleHandler
    BY <1>1, <1>5, ReturnsEffect
  <2>2. RunInv(r)'
    BY <1>1, <1>4, <2>1, WriteAnswers
  <2>3. handler'[h].run = None /\ handler[h].at # "idle"
    BY <2>1 DEF IdleHandler
  <2>4. QED
    BY <2>1, <2>2, <2>3, WriteStays
<1>6. CASE Goes(h, "release") /\ plan[r].dual
  <2>1. /\ Alone(h) /\ handler'[h].copy = handler[h].copy
        /\ Steps(h, handler[h].at, "release")
    BY <1>1, <1>6, GoesEffect, GoesSteps DEF IInv, Places
  <2>2. /\ "release" \in Granting /\ handler[h].at \in Places
        /\ "release" \notin Owner \union Before /\ ~Early(h)' /\ Executes(h)
    BY <1>1, <1>6, <2>1
       DEF Granting, Places, Dry, Asking, Owner, Before, Early, Executes, Steps
  <2>3. /\ grants[r] > 0 /\ worker[r] = "none"
        /\ \A g \in Handlers : Serves(g, r) /\ g # h => ~Executes(g)
    BY <1>1, <1>2, <2>2 DEF RunInv, Granted, ExecutesAlone
  <2>4. Writes(h, r, run)
    BY <1>4, <2>1
  <2>5. RunInv(r)'
    BY <1>1, <1>6, <2>1, <2>2, <2>3, <2>4, WriteGoesOn
  <2>6. QED
    BY <1>1, <2>1, <2>5, WriteStays DEF Steps
<1>7. QED
  BY <1>5, <1>6 DEF FailEnds, InFinally

(* _fail_reserved_run moves the run to ERROR ...                           *)
LEMMA FailTransitionsStep ==
  ASSUME IInv, NEW h \in Handlers, NEW saved, FailTransitions(h, saved), UNCHANGED plan
  PROVE  \A q \in Runs : RunInv(q)'
<1>0. PICK r \in Runs : r = handler[h].run
  BY Begin DEF FailTransitions, At
<1>1. /\ handler[h].at = "fail" /\ PlanTyped /\ HandlerTyped /\ RunInv(r)
      /\ StoreTyped /\ mem[r] \in Store!Run
      /\ driven \in [Runs -> Nat] /\ Serves(h, r)
  BY <1>0, Begin DEF FailTransitions, At, Rest, Serves
<1>2. PICK run \in Store!Run :
        run = [mem[r] EXCEPT !.status = "error"] /\ run.status = "error"
  <2>1. [mem[r] EXCEPT !.status = "error"] \in Store!Run
    BY <1>1, Lifecycle DEF Store!Run
  <2>2. [mem[r] EXCEPT !.status = "error"].status = "error"
    BY <1>1 DEF Store!Run
  <2>3. QED
    BY <2>1, <2>2
<1>3. /\ Stored(r, run) /\ UNCHANGED grants /\ CanTransition(mem[r].status, "error")
      /\ UNCHANGED <<worker, driven, owners, plan>>
  BY <1>0, <1>1, <1>2, Lifecycle, TransitionEffect DEF FailTransitions,
     QuietSweep, sweepVars
<1>4. handler[h].at \in Granting
  BY <1>1 DEF Granting, Places, Dry, Asking
<1>5. grants[r] > 0
  BY <1>1, <1>4 DEF RunInv, Granted
<1>6. mem[r].status # "error"
  BY <1>3 DEF CanTransition, AllowedTransitions
<1>7. \A g \in Handlers : Serves(g, r) /\ g # h =>
        handler[g].at \notin Dry /\ ~Early(g) /\ handler[g].at # "failSave"
  BY <1>1, <1>4, <1>6, NobodyElse DEF RunInv, Failing
<1>8. CASE GoesWith(h, "failSave", run)
  <2>1. Alone(h) /\ handler'[h].copy = run /\ Steps(h, "fail", "failSave")
    BY <1>1, <1>8, GoesWithEffect, GoesSteps DEF IInv, Places
  <2>2. Writes(h, r, run)
    BY <1>1, <1>3, <1>5, <1>7, <2>1 DEF Writes, Stored, StoreTyped, Alone
  <2>3. "failSave" \in Granting /\ "fail" \in Places
        /\ ~Early(h)' /\ "failSave" \notin Owner \union Before
    BY <2>1 DEF Granting, Places, Dry, Asking, Owner, Before, Early, Steps
  <2>4. Executes(h)' => /\ \A g \in Handlers : Serves(g, r) /\ g # h => ~Executes(g)
                        /\ worker[r] = "none"
    <3>1. SUFFICES ASSUME Executes(h)'
                   PROVE  Executes(h)
      BY <1>1 DEF RunInv, ExecutesAlone
    <3>2. QED
      BY <1>1, <1>3, <2>1, <2>3, <3>1 DEF Executes, Steps
  <2>5. RunInv(r)'
    BY <1>0, <1>1, <1>2, <1>3, <1>5, <2>1, <2>2, <2>3, <2>4, WriteGoesOn
  <2>6. QED
    BY <1>0, <1>1, <1>3, <2>1, <2>5, WriteStays DEF Steps
<1>9. CASE FailEnds(h)
  <2>1. handler[h].copy.status # "completed" \/ ~plan[r].dual
    BY <1>1 DEF RunInv, Failing
  <2>2. QED
    BY <1>0, <1>1, <1>3, <1>5, <1>7, <1>9, <2>1, FailureEnds
<1>10. QED
  BY <1>0, <1>2, <1>3, <1>8, <1>9 DEF FailTransitions, Stored

(* ... and writes its copy back with the message.                          *)
LEMMA FailSavesStep ==
  ASSUME IInv, NEW h \in Handlers, NEW saved, FailSaves(h, saved), UNCHANGED plan
  PROVE  \A q \in Runs : RunInv(q)'
<1>0. PICK r \in Runs : r = handler[h].run
  BY Begin DEF FailSaves, At
<1>1. /\ handler[h].at = "failSave" /\ RunInv(r) /\ StoreTyped
      /\ mem[r] \in Store!Run /\ Serves(h, r)
  BY <1>0, Begin DEF FailSaves, At, Serves
<1>2. handler[h].copy = mem[r] /\ mem[r].status = "error"
  BY <1>1 DEF RunInv, Failing
<1>3. /\ Stored(r, mem[r]) /\ UNCHANGED grants
      /\ UNCHANGED <<worker, driven, owners, plan>>
  BY <1>0, <1>1, <1>2, UpdateEffect DEF FailSaves, QuietSweep, sweepVars
<1>4. Linked(mem[r]) => grants[r] > 0
  BY <1>1 DEF RunInv, Granted
<1>5. QED
  BY <1>0, <1>1, <1>2, <1>3, <1>4, FailureEnds DEF FailSaves

-----------------------------------------------------------------------------
(* Requests.                                                               *)

(* What every step that is not of a handler on its way starts from.        *)
LEMMA Facts ==
  ASSUME IInv
  PROVE  /\ StoreTyped /\ Sweep!TypeOK /\ HandlerTyped /\ Rest
         /\ Ownership!TypeOK /\ PlanTyped
         /\ \A h \in Handlers : handler[h].at = "idle" => handler[h].run = None
         /\ \A h \in Handlers, r \in Runs : Serves(h, r) =>
              handler[h].at # "idle" /\ mem[r] # Absent
         /\ None \notin Runs
<1>1. StoreTyped /\ Sweep!TypeOK /\ HandlerTyped /\ Rest
  BY TypeParts DEF IInv
<1>2. PlanTyped
  BY <1>1, PlanAssumption DEF PlanTyped, Rest
<1>3. QED
  BY <1>1, <1>2, NoneAssumption DEF IInv, Serving, Served, Serves, Rest

(* create refuses an id it has, so nobody is serving the run.              *)
LEMMA CreateStep ==
  ASSUME IInv, NEW r \in Runs, NEW saved, CreatePlan(r, saved), UNCHANGED plan
  PROVE  \A q \in Runs : RunInv(q)'
<1>1. /\ Ownership!TypeOK /\ PlanTyped /\ RunInv(r)
      /\ \A h \in Handlers : Serves(h, r) => mem[r] # Absent
  BY Facts DEF IInv
<1>2. /\ mem[r] = Absent /\ Stored(r, Store!NewRun) /\ UNCHANGED grants
      /\ UNCHANGED <<worker, driven, owners, plan, handler>>
  BY Facts, CreateEffect DEF CreatePlan, QuietSweep, sweepVars
<1>3. ~Linked(Store!NewRun)
  BY DEF Linked, Store!NewRun
<1>4. \A h \in Handlers : ~Serves(h, r)'
  BY <1>1, <1>2 DEF Serves
<1>5. DryAlone(r)' /\ EarlyAlone(r)' /\ ExecutesAlone(r)' /\ Routes(r)' /\ Failing(r)'
  BY <1>4 DEF DryAlone, EarlyAlone, ExecutesAlone, Routes, Failing
<1>6. Granted(r)'
  BY <1>1, <1>2, <1>3, <1>4 DEF RunInv, Granted, Stored, Linked
<1>7. Owning(r)'
  BY <1>1, <1>2, <1>4 DEF RunInv, Owning
<1>8. Only(r)
  BY <1>2 DEF Only, Stored
<1>9. QED
  BY <1>1, <1>2, <1>5, <1>6, <1>7, <1>8, OnlyTheRun DEF RunInv, IInv

(* A request that begins where all else is as it was.                      *)
LEMMA RequestBegins ==
  ASSUME IInv, NEW h \in Handlers, NEW r \in Runs,
         NEW place \in {"dryFingerprint", "fingerprint", "stopping"},
         NEW copy \in Store!Run, NEW k \in Keys \union {None},
         At(h, "idle"), Begins(h, place, r, copy, k),
         QuietStore, QuietSweep, UNCHANGED <<owners, plan>>,
         place = "dryFingerprint" =>
           /\ \A g \in Handlers : ~Serves(g, r)
           /\ mem[r].status \in Executable /\ copy.status = "dry_run"
           /\ copy.key = mem[r].key /\ copy.execFp = mem[r].execFp
           /\ copy.linked = mem[r].linked,
         \A g \in Handlers : Serves(g, r) => handler[g].at \notin Dry,
         place = "stopping" => ~plan[r].dual /\ mem[r] \in Store!Run /\ mem[r].linked
  PROVE  \A q \in Runs : RunInv(q)'
<1>1. /\ Ownership!TypeOK /\ PlanTyped /\ RunInv(r) /\ HandlerTyped
      /\ handler[h].at = "idle" /\ handler[h].run = None /\ ~Serves(h, r)
  BY Facts DEF IInv, At, Serves
<1>2. /\ Alone(h)
      /\ handler'[h] = [at |-> place, run |-> r, copy |-> copy, key |-> k, fp |-> None]
  BY <1>1, BeginsEffect DEF Places
<1>3. UNCHANGED <<mem, disk, grants, driven, worker, owners, plan>>
  BY DEF QuietStore, QuietSweep, storeVars, sweepVars
<1>4. Only(r)
  BY <1>3 DEF Only
<1>5. \A g \in Handlers : Serves(g, r)' =>
        g = h \/ (Serves(g, r) /\ handler'[g] = handler[g])
  BY <1>2 DEF Alone, Serves
<1>6. handler'[h].at = place /\ handler'[h].copy = copy /\ handler'[h].run = r
  BY <1>2
<1>7. ~Early(h)' /\ ~Executes(h)' /\ handler'[h].at \notin Before \union {"drive"}
  BY <1>6 DEF Early, Executes, Before
<1>8. DryAlone(r)'
  BY <1>3, <1>5, <1>6 DEF DryAlone, Dry
<1>9. EarlyAlone(r)'
  <2>1. ASSUME NEW g \in Handlers, Serves(g, r)', Early(g)'
        PROVE  g # h /\ Serves(g, r) /\ Early(g) /\ handler'[g] = handler[g]
    BY <1>5, <1>7, <2>1 DEF Early
  <2>2. ASSUME NEW g \in Handlers, Serves(g, r), Early(g)
        PROVE  place = "fingerprint"
    BY <1>1, <2>2 DEF RunInv, EarlyAlone
  <2>3. QED
    BY <1>1, <1>3, <1>5, <1>6, <2>1, <2>2 DEF RunInv, EarlyAlone, Asking
<1>10. ExecutesAlone(r)'
  <2>1. ASSUME NEW g \in Handlers, Serves(g, r)', Executes(g)'
        PROVE  g # h /\ Serves(g, r) /\ Executes(g) /\ handler'[g] = handler[g]
    BY <1>3, <1>5, <1>7, <2>1 DEF Executes
  <2>2. QED
    BY <1>1, <1>3, <2>1 DEF RunInv, ExecutesAlone
<1>11. Granted(r)'
  BY <1>1, <1>3, <1>5, <1>6 DEF RunInv, Granted, Linked, Granting, Dry, Asking
<1>12. Routes(r)' /\ Failing(r)'
  BY <1>1, <1>3, <1>5, <1>6 DEF RunInv, Routes, Failing
<1>13. Owning(r)'
  BY <1>1, <1>3, <1>5, <1>7 DEF RunInv, Owning
<1>14. QED
  BY <1>1, <1>2, <1>4, <1>6, <1>8, <1>9, <1>10, <1>11, <1>12, <1>13, OnlyTheRun
     DEF RunInv, IInv

(* A dry-run begins when nobody serves its run ...                         *)
LEMMA DryRunReadsStep ==
  ASSUME IInv, ~DryRunOverlaps, NEW h \in Handlers, NEW r \in Runs,
         NEW valid \in BOOLEAN, DryRunReads(h, r, valid), UNCHANGED plan
  PROVE  \A q \in Runs : RunInv(q)'
<1>1. mem[r] \in Store!Run
  BY Facts DEF DryRunReads, Store!Known, StoreTyped
<1>2. PICK copy \in Store!Run :
        copy = [mem[r] EXCEPT !.status = "dry_run", !.valid = valid]
  BY <1>1, Lifecycle DEF Store!Run
<1>3. /\ copy.status = "dry_run" /\ copy.key = mem[r].key
      /\ copy.execFp = mem[r].execFp /\ copy.linked = mem[r].linked
  BY <1>1, <1>2 DEF Store!Run
<1>4. \A g \in Handlers : ~Serves(g, r)
  BY DEF DryRunReads, DryRunMayBegin
<1>5. mem[r].status \in Executable
  <2>1. mem[r].status \in RunStatus /\ CanTransition(mem[r].status, "dry_run")
    BY <1>1, Lifecycle DEF Store!Run, DryRunReads
  <2>2. QED
    BY <2>1 DEF CanTransition, AllowedTransitions, RunStatus, Executable, Active,
       Terminal
<1>6. Begins(h, "dryFingerprint", r, copy, None)
  BY <1>2 DEF DryRunReads
<1>7. QED
  BY <1>3, <1>4, <1>5, <1>6, RequestBegins DEF DryRunReads

(* ... an execution or a stop when no dry-run does.                        *)
LEMMA OtherReadsStep ==
  ASSUME IInv, ~DryRunOverlaps, NEW h \in Handlers, NEW r \in Runs,
         StopReads(h, r) \/ \E k \in Keys : ExecuteReads(h, r, k), UNCHANGED plan
  PROVE  \A q \in Runs : RunInv(q)'
<1>1. mem[r] \in Store!Run
  BY Facts DEF StopReads, ExecuteReads, Store!Known, StoreTyped
<1>2. \A g \in Handlers : Serves(g, r) => handler[g].at \notin Dry
  BY DEF StopReads, ExecuteReads, OtherMayBegin, Dry
<1>3. CASE StopReads(h, r)
  BY <1>1, <1>2, <1>3, RequestBegins DEF StopReads
<1>4. ASSUME NEW k \in Keys, ExecuteReads(h, r, k)
      PROVE  \A q \in Runs : RunInv(q)'
  BY <1>1, <1>2, <1>4, RequestBegins DEF ExecuteReads
<1>5. QED
  BY <1>3, <1>4

-----------------------------------------------------------------------------
(* The sweeps' threads, the world, and all of it together.                 *)

(* A run that a sweep has is executed by no handler any more.              *)
LEMMA SweptIsLeft ==
  ASSUME IInv, NEW r \in Runs, worker[r] # "none"
  PROVE  /\ grants[r] > 0
         /\ \A h \in Handlers : Serves(h, r) => ~Executes(h)
BY DEF IInv, RunInv, Granted, ExecutesAlone

(* A thread goes on, and may let go of the addresses as it ends.           *)
LEMMA ThreadStep ==
  ASSUME IInv, NEW r \in Runs, worker[r] \notin {"none", "done"},
         NEW to \in Sweep!WorkerStates \ {"none"},
         worker' = [worker EXCEPT ![r] = to],
         UNCHANGED <<mem, disk, grants, driven, handler, plan>>,
         \/ UNCHANGED owners
         \/ to = "done" /\ Ownership!ReleaseMany(plan[r].addresses, r)
  PROVE  \A q \in Runs : RunInv(q)'
<1>1. Ownership!TypeOK /\ PlanTyped /\ RunInv(r) /\ Sweep!TypeOK
  BY Facts DEF IInv
<1>2. worker'[r] = to /\ \A q \in Runs : q # r => worker'[q] = worker[q]
  BY <1>1 DEF Sweep!TypeOK
<1>3. grants[r] > 0 /\ \A h \in Handlers : Serves(h, r) => ~Executes(h)
  BY SweptIsLeft
<1>4. DryAlone(r)' /\ EarlyAlone(r)'
  BY <1>1 DEF RunInv, DryAlone, EarlyAlone, Early, Serves
<1>5. ExecutesAlone(r)'
  BY <1>3 DEF ExecutesAlone, Executes, Serves
<1>6. Granted(r)' /\ Routes(r)' /\ Failing(r)'
  BY <1>1, <1>3 DEF RunInv, Granted, Linked, Routes, Failing, Serves
<1>7. Owning(r)'
  BY <1>1, <1>2, <1>3 DEF RunInv, Owning, Executes, Serves
<1>8. Only(r)
  BY <1>2 DEF Only
<1>9. QED
  BY <1>1, <1>4, <1>5, <1>6, <1>7, <1>8, OnlyTheRun DEF RunInv, IInv

(* What the engine does in a thread is such a step.                        *)
LEMMA SweepWorksStep ==
  ASSUME IInv, NEW r \in Runs, SweepWorks(r), UNCHANGED plan
  PROVE  \A q \in Runs : RunInv(q)'
<1>1. PICK from \in {"enter", "driving", "checking", "failed", "assigning"},
           to \in Sweep!WorkerStates \ {"none"} : Sweep!Working(r, from, to)
  BY DEF SweepWorks, Sweep!Work, Sweep!EnterLease, Sweep!LeaseFails, Sweep!Decide,
     Sweep!Fail, Sweep!Check, Sweep!CheckError, Sweep!Assign, Sweep!WorkerStates
<1>2. worker[r] \notin {"none", "done"} /\ worker' = [worker EXCEPT ![r] = to]
  BY <1>1 DEF Sweep!Working
<1>3. QED
  BY <1>2, ThreadStep DEF SweepWorks, QuietStore, storeVars

(* The callback writes the outcome back if the run may have it: then no    *)
(* dry-run and no failing handler relies on its copy.                      *)
LEMMA CallbackSyncsStep ==
  ASSUME IInv, NEW r \in Runs, NEW saved, CallbackSyncs(r, saved), UNCHANGED plan
  PROVE  \A q \in Runs : RunInv(q)'
<1>1. CASE QuietStore
  BY <1>1, NothingMoves DEF CallbackSyncs, QuietStore, storeVars, sweepVars
<1>2. CASE Store!UpdateFromSweep(r, status[r], saved)
  <2>1. /\ Ownership!TypeOK /\ PlanTyped /\ RunInv(r) /\ StoreTyped
        /\ status[r] \in RunStatus
    BY Facts, Lifecycle DEF IInv, Sweep!TypeOK
  <2>2. status[r] \in Terminal /\ Store!Transition(r, status[r], saved)
    BY <1>2 DEF Store!UpdateFromSweep, Store!IsTerminal, Store!Terminal, Terminal
  <2>3. PICK run \in Store!Run : run = [mem[r] EXCEPT !.status = status[r]]
    BY <2>1, <2>2, TransitionEffect
  <2>4. /\ mem[r] \in Store!Run /\ CanTransition(mem[r].status, status[r])
        /\ Stored(r, run) /\ UNCHANGED grants
        /\ UNCHANGED <<worker, driven, owners, handler, plan>>
    BY <2>1, <2>2, <2>3, TransitionEffect DEF CallbackSyncs, sweepVars
  <2>5. mem[r].status \notin Executable /\ mem[r].status # "error"
    <3>1. mem[r].status \in RunStatus
      BY <2>4, Lifecycle DEF Store!Run
    <3>2. QED
      BY <2>2, <2>4, <3>1
         DEF CanTransition, AllowedTransitions, RunStatus, Executable, Active,
            Terminal
  <2>6. grants[r] > 0 /\ \A h \in Handlers : Serves(h, r) => ~Executes(h)
    BY SweptIsLeft DEF CallbackSyncs, InCallback
  <2>7. \A h \in Handlers : Serves(h, r) =>
          /\ handler[h].at \notin Dry /\ handler[h].at # "failSave"
          /\ ~Executes(h) /\ ~Early(h)
    BY <2>1, <2>5, <2>6 DEF RunInv, DryAlone, Failing, Executes, Early, Before
  <2>8. \A h \in Handlers : Serves(h, r)' =>
          /\ Serves(h, r)
          /\ handler'[h].at \notin Dry /\ handler'[h].at # "failSave"
          /\ ~Executes(h)' /\ ~Early(h)'
    BY <2>4, <2>7 DEF Serves, Executes, Early
  <2>9. DryAlone(r)' /\ EarlyAlone(r)' /\ ExecutesAlone(r)'
    BY <2>8 DEF DryAlone, EarlyAlone, ExecutesAlone
  <2>10. Granted(r)'
    BY <2>1, <2>4, <2>6 DEF RunInv, Granted, Serves
  <2>11. Routes(r)'
    BY <2>1, <2>4 DEF RunInv, Routes, Serves
  <2>12. Failing(r)'
    BY <2>1, <2>4, <2>8 DEF RunInv, Failing, Serves
  <2>13. Owning(r)'
    BY <2>1, <2>4 DEF RunInv, Owning, Serves
  <2>14. Only(r)
    BY <2>4 DEF Only, Stored
  <2>15. QED
    BY <2>1, <2>4, <2>9, <2>10, <2>11, <2>12, <2>13, <2>14, OnlyTheRun
       DEF RunInv, IInv
<1>3. QED
  BY <1>1, <1>2 DEF CallbackSyncs

(* The callback of a sweep, whose last step lets go of the addresses.      *)
LEMMA CallsBackStep ==
  ASSUME IInv, NEW r \in Runs, CallsBack(r), UNCHANGED plan
  PROVE  \A q \in Runs : RunInv(q)'
<1>1. ASSUME NEW found, CallbackMarksHealth(r, found)
      PROVE  \A q \in Runs : RunInv(q)'
  BY <1>1, NothingMoves DEF CallbackMarksHealth, QuietStore, storeVars, sweepVars
<1>2. CASE CallbackReleases(r)
  <2>1. /\ worker[r] = "callback" /\ worker' = [worker EXCEPT ![r] = "done"]
        /\ "done" \in Sweep!WorkerStates \ {"none"}
    BY <1>2 DEF CallbackReleases, InCallback, Sweep!Finish, Sweep!Working,
       Sweep!WorkerStates
  <2>2. QED
    BY <1>2, <2>1, ThreadStep DEF CallbackReleases, QuietStore, storeVars
<1>3. QED
  BY <1>1, <1>2, CallbackSyncsStep DEF CallsBack

(* A crash leaves the files and the history.                               *)
LEMMA CrashStep ==
  ASSUME IInv, Crash, UNCHANGED plan
  PROVE  \A q \in Runs : RunInv(q)'
<1> SUFFICES ASSUME NEW q \in Runs
             PROVE  RunInv(q)'
  OBVIOUS
<1>1. \A h \in Handlers : ~Serves(h, q)'
  BY NoneAssumption DEF Crash, Serves, IdleHandler
<1>2. /\ mem'[q] = Absent /\ worker'[q] = "none"
      /\ disk'[q] = disk[q] /\ grants'[q] = grants[q] /\ driven'[q] = driven[q]
  BY DEF Crash, Store!Crash
<1>3. ~Linked(mem[q])'
  BY <1>2, MarkAssumption DEF Linked
<1>4. Granted(q)'
  BY <1>1, <1>2, <1>3 DEF IInv, RunInv, Granted, Linked
<1>5. QED
  BY <1>1, <1>2, <1>4
     DEF RunInv, DryAlone, EarlyAlone, ExecutesAlone, Routes, Failing, Owning

(* A restart finds on disk what was linked there; nobody serves anything.  *)
LEMMA RestartStep ==
  ASSUME IInv, Restart, UNCHANGED plan
  PROVE  \A q \in Runs : RunInv(q)'
<1> SUFFICES ASSUME NEW q \in Runs
             PROVE  RunInv(q)'
  OBVIOUS
<1>1. /\ ~up /\ UNCHANGED grants
      /\ Linked(mem'[q]) \/ Linked(disk'[q]) => Linked(disk[q])
  BY Facts, RestartEffect DEF Restart
<1>2. UNCHANGED <<worker, driven, owners, handler, plan>>
  BY DEF Restart, QuietSweep, sweepVars
<1>3. \A h \in Handlers : ~Serves(h, q)'
  BY <1>1, <1>2, OnItsWay, Facts DEF IInv, Serves
<1>4. Granted(q)'
  BY <1>1, <1>2, <1>3 DEF IInv, RunInv, Granted, Linked
<1>5. Owning(q)'
  BY <1>2, <1>3 DEF IInv, RunInv, Owning
<1>6. QED
  BY <1>3, <1>4, <1>5
     DEF RunInv, DryAlone, EarlyAlone, ExecutesAlone, Routes, Failing

(* Every step keeps what is promised of every run.                         *)
LEMMA RunsStep ==
  ASSUME IInv, Next, ~DryRunOverlaps
  PROVE  \A q \in Runs : RunInv(q)'
<1>0. UNCHANGED plan /\ \A saved \in Saves : saved \in BOOLEAN
  BY DEF Next, Saves
<1>1. CASE Requests
  BY <1>0, <1>1, CreateStep, DryRunReadsStep, OtherReadsStep DEF Requests
<1>2. ASSUME NEW h \in Handlers, Handles(h)
      PROVE  \A q \in Runs : RunInv(q)'
  <2>1. CASE DryRunFingerprints(h) \/ ExecuteFingerprints(h)
    BY <1>0, <2>1, FingerprintsStep
  <2>2. CASE ExecuteIsAnswered(h) \/ ExecuteBreaks(h) \/ StopIsRefused(h)
    BY <1>0, <2>2, AnswersStep
  <2>3. CASE ExecuteOwns(h) \/ \E found \in BOOLEAN : ExecuteFindsSession(h, found)
    BY <1>0, <2>3, OwnsStep, FindsStep
  <2>4. CASE ExecuteRegisters(h) \/ ExecuteLaunches(h) \/ ExecuteUndoes(h)
    BY <1>0, <2>4, RegistersStep, LaunchesStep, UndoesStep
  <2>5. CASE FailIsRefused(h) \/ DualReleases(h)
    BY <1>0, <2>5, FailIsRefusedStep, ReleasesStep
  <2>6. CASE \E done \in BOOLEAN : DualLeases(h, done) \/ DualDrives(h, done)
    BY <1>0, <2>6, LeasesStep, DrivesStep
  <2>7. CASE StopLooksUp(h) \/ StopRuns(h)
    BY <1>0, <2>7, LooksUpStep, StopRunsStep
  <2>8. ASSUME NEW saved \in Saves,
               \/ DryRunSaves(h, saved)
               \/ ExecuteReserves(h, saved) \/ ExecuteLinks(h, saved)
               \/ FailTransitions(h, saved) \/ FailSaves(h, saved)
               \/ DualSaves(h, saved)
               \/ StopTransitions(h, saved)
        PROVE  \A q \in Runs : RunInv(q)'
    BY <1>0, <2>8, DryRunSavesStep, ReservesStep, LinksStep, FailTransitionsStep,
       FailSavesStep, DualSavesStep, StopTransitionsStep
  <2>9. QED
    BY <1>2, <2>1, <2>2, <2>3, <2>4, <2>5, <2>6, <2>7, <2>8 DEF Handles
<1>3. ASSUME NEW r \in Runs, SweepWorks(r) \/ CallsBack(r)
      PROVE  \A q \in Runs : RunInv(q)'
  BY <1>0, <1>3, SweepWorksStep, CallsBackStep
<1>4. CASE ContextChanges
  BY <1>0, <1>4, NothingMoves
     DEF ContextChanges, QuietStore, QuietSweep, storeVars, sweepVars
<1>5. CASE Crash \/ Restart
  BY <1>0, <1>5, CrashStep, RestartStep
<1>6. QED
  BY <1>1, <1>2, <1>3, <1>4, <1>5 DEF Next

-----------------------------------------------------------------------------
(* The theorems.                                                           *)

(* Nothing has been requested yet.                                         *)
LEMMA InitIInv == Init => IInv
<1> SUFFICES ASSUME Init
             PROVE  IInv
  OBVIOUS
<1>1. TypeOK
  BY Lifecycle DEF Init, TypeOK, Store!Init, Store!TypeOK, Sweep!Init, Sweep!TypeOK,
     Sweep!IdleStopper, Sweep!WorkerStates, Sweep!Terminal, Ownership!Init,
     Ownership!TypeOK, Handler, IdleHandler, Places
<1>2. \A h \in Handlers : handler[h].at = "idle" /\ handler[h].run = None
  BY DEF Init, IdleHandler
<1>3. Serving
  BY <1>2 DEF Serving, Served
<1>4. StoreProofs!IInv
  <2>1. StoreProofs!Init
    BY DEF Init, Store!Init, StoreProofs!Init
  <2>2. StoreProofs!NoneAssumption /\ StoreProofs!MarkAssumption
    BY NoneAssumption, MarkAssumption
       DEF StoreProofs!NoneAssumption, StoreProofs!MarkAssumption, Store!Run,
       StoreProofs!Run, Store!RunStatus, StoreProofs!RunStatus, Store!Active,
       Store!Executable, Store!Terminal, StoreProofs!Active,
       StoreProofs!Executable, StoreProofs!Terminal
  <2>3. QED
    BY <2>1, <2>2, StoreProofs!InitIInv
<1>5. ASSUME NEW r \in Runs
      PROVE  RunInv(r)
  <2>1. /\ mem[r] = Absent /\ disk[r] = Absent /\ grants[r] = 0
        /\ driven[r] = 0 /\ worker[r] = "none"
    BY DEF Init, Store!Init, Sweep!Init
  <2>2. \A h \in Handlers : ~Serves(h, r)
    BY <1>2, NoneAssumption DEF Serves
  <2>3. ~Linked(mem[r]) /\ ~Linked(disk[r])
    BY <2>1, MarkAssumption DEF Linked
  <2>4. QED
    BY <2>1, <2>2, <2>3 DEF RunInv, DryAlone, EarlyAlone, ExecutesAlone, Granted,
       Routes, Failing, Owning
<1>6. QED
  BY <1>1, <1>3, <1>4, <1>5 DEF IInv

(* A step that leaves everything as it is.                                 *)
LEMMA Stutter ==
  ASSUME UNCHANGED vars
  PROVE  /\ TypeOK /\ Serving => TypeOK' /\ Serving'
         /\ IInv => UNCHANGED storeVars /\ \A r \in Runs : RunInv(r)'
<1>1. /\ UNCHANGED <<up, mem, disk, grants, owners, plan, handler, callback, context,
                     driven>>
      /\ UNCHANGED <<sessions, status, event, starter, worker, target, stopper>>
      /\ UNCHANGED storeVars
  BY DEF vars, storeVars, sweepVars
<1>2. TypeOK => TypeOK'
  BY <1>1 DEF TypeOK, Store!TypeOK, Sweep!TypeOK, Ownership!TypeOK
<1>3. Serving => Serving'
  BY <1>1 DEF Serving, Served
<1>4. IInv => \A r \in Runs : RunInv(r)'
  BY <1>1, NothingMoves
<1>5. QED
  BY <1>1, <1>2, <1>3, <1>4

(* Handlers, records, sweeps and owners are what they are declared to be,  *)
(* whether clients wait for their dry-runs or not.                         *)
THEOREM TypeCorrect == Spec => []TypeOK
<1> DEFINE Typed == TypeOK /\ Serving
<1>1. Init => Typed
  BY InitIInv DEF IInv
<1>2. Typed /\ [Next]_vars => Typed'
  BY TypeStep, Stutter
<1>3. Typed => TypeOK
  OBVIOUS
<1>4. QED
  BY <1>1, <1>2, <1>3, PTL DEF Spec

(* The invariant holds where clients wait for the answer to a dry-run.     *)
LEMMA NextIInv ==
  ASSUME ~DryRunOverlaps, IInv, [Next]_vars
  PROVE  IInv'
<1>1. CASE Next
  <2>1. TypeOK' /\ Serving'
    BY <1>1, TypeStep DEF IInv
  <2>2. StoreProofs!IInv'
    BY <1>1, StoreStep, SameStoreStep DEF IInv
  <2>3. QED
    BY <1>1, <2>1, <2>2, RunsStep DEF IInv
<1>2. CASE UNCHANGED vars
  BY <1>2, Stutter, SameStoreStep DEF IInv
<1>3. QED
  BY <1>1, <1>2

(* So it holds in every state that can be reached.                         *)
LEMMA Invariance ==
  ASSUME ~DryRunOverlaps
  PROVE  Spec => []IInv
<1>1. IInv /\ [Next]_vars => IInv'
  BY NextIInv
<1>2. QED
  BY <1>1, InitIInv, PTL DEF Spec

(* Whatever overlaps, fails or crashes, a run drives hardware at most once,*)
(* be it by the thread of a sweep or by the handler of a dual-device run:  *)
(* instruments are driven for it only against a grant, and there is one.   *)
THEOREM HardwareIsDrivenOnce ==
  ASSUME ~DryRunOverlaps
  PROVE  Spec => []AtMostOneSweep
<1>1. IInv => AtMostOneSweep
  <2>1. ASSUME IInv, NEW r \in Runs
        PROVE  driven[r] <= 1
    <3>1. grants[r] \in {0, 1} /\ driven[r] <= grants[r] /\ driven[r] \in Nat
      BY <2>1, StoreFacts DEF IInv, RunInv, Granted, TypeOK
    <3>2. QED
      BY <3>1
  <2>2. QED
    BY <2>1 DEF AtMostOneSweep
<1>2. QED
  BY <1>1, Invariance, PTL

(* Who drives an instrument for a run, a sweep's thread to the end of its  *)
(* callback or execute_multi, owns every address of its plan, and no other *)
(* run takes one from it.                                                  *)
THEOREM DriversOwn ==
  ASSUME ~DryRunOverlaps
  PROVE  Spec => []SweepOwnsItsAddresses
<1>1. IInv => SweepOwnsItsAddresses
  BY DEF IInv, RunInv, Owning, SweepOwnsItsAddresses, Driving
<1>2. QED
  BY <1>1, Invariance, PTL

(* What requests, callbacks, crashes and restarts do with the store, in    *)
(* any order, is what RunStore asks of its callers: so all that is proved  *)
(* of RunStore is true of the program that uses it.                        *)
THEOREM StoreImplemented ==
  ASSUME ~DryRunOverlaps
  PROVE  Spec => ImplementsRunStore
<1>1. Init => Store!Init
  BY DEF Init
<1>2. IInv /\ [Next]_vars => [Store!Next]_(Store!vars)
  <2>1. ASSUME IInv, [Next]_vars
        PROVE  Store!Next \/ UNCHANGED storeVars
    BY <2>1, StoreStep, Stutter
  <2>2. QED
    BY <2>1 DEF Store!vars, storeVars
<1>3. QED
  BY <1>1, <1>2, Invariance, PTL DEF Spec, ImplementsRunStore, Store!Spec

====
