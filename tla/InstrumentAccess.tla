-------------------------- MODULE InstrumentAccess --------------------------
(***************************************************************************)
(* Everybody who talks to instruments, over the ownership registry and the *)
(* session manager: sweeps started by an agent run or directly, dual runs  *)
(* on two instruments, the connection and command routes, the emergency    *)
(* stop, and the shutdown of the application.                              *)
(* src/src/instr_core/api/routes/{agent,sweep,visa}.py                     *)
(* src/src/instr_core/api/dependencies.py                                  *)
(*                                                                         *)
(* An operation acquires its addresses, takes their leases one after the   *)
(* other, drives the instruments, and gives up the leases and then the     *)
(* addresses.  What it drives them to do is SweepEngine's.                 *)
(*                                                                         *)
(* The sessions change by the actions of VisaSessions only, so what that   *)
(* module shows of them holds here too.                                    *)
(***************************************************************************)
EXTENDS FiniteSets, Naturals

CONSTANTS
  Addresses, Resources, None,  \* as in VisaSessions
  Rank,        \* the place of an address in lexicographic order
  Operations,  \* run and sweep ids, and the threads that serve them
  Plans,       \* what operations are for: the route and the instruments
  Clients,     \* threads that serve connect, disconnect, reconnect, command
  Stopper      \* the thread that serves an emergency stop, or shuts down

Kinds == {"agent", "sweep", "dual"}

(* An operation of one instrument or of two.  The code does not refuse a   *)
(* dual plan that names one instrument twice; it is not modelled.          *)
ASSUME PlanAssumption ==
  \A p \in Plans :
    /\ p.kind \in Kinds
    /\ p.addresses \subseteq Addresses
    /\ Cardinality(p.addresses) = IF p.kind = "dual" THEN 2 ELSE 1

ASSUME RankAssumption ==
  /\ IsFiniteSet(Addresses)
  /\ Rank \in [Addresses -> 1 .. Cardinality(Addresses)]
  /\ \A a, b \in Addresses : Rank[a] = Rank[b] => a = b

(* Every request is served by a thread of its own.                         *)
ASSUME ThreadAssumption ==
  /\ Operations \intersect Clients = {}
  /\ Stopper \notin Operations \union Clients
  /\ None \notin Operations \union Clients \union {Stopper}
  /\ None \notin Resources

VARIABLES
  owners,                                  \* AddressOwnership
  table, opened, healthy, holder, call,    \* VisaSessions
  op,       \* where an operation is
  client,   \* where a client is between two calls of the manager
  estop,    \* where the emergency stop is, or (final) the shutdown
  freed     \* history: operations whose address an emergency stop released

Ownership == INSTANCE AddressOwnership

Threads == Operations \union Clients \union {Stopper}

Visa == INSTANCE VisaSessions

visaVars == <<table, opened, healthy, holder, call>>
vars == <<owners, visaVars, op, client, estop, freed>>

IdleOp ==
  [at |-> "idle", kind |-> "agent", addresses |-> {}, todo |-> {}, failed |-> FALSE]

IdleClient == [at |-> "idle", address |-> None, again |-> FALSE]

IdleStop ==
  [todo |-> {}, at |-> "idle", address |-> None, operation |-> None, final |-> FALSE]

TypeOK ==
  /\ Ownership!TypeOK
  /\ Visa!TypeOK
  /\ op \in [Operations ->
       [ at : {"idle", "find", "lease", "drive", "leave", "mark", "release", "over"},
         kind : Kinds, addresses : SUBSET Addresses, todo : SUBSET Addresses,
         failed : BOOLEAN ]]
  /\ client \in [Clients ->
       [ at : {"idle", "checked", "closing", "reopen"},
         address : Addresses \union {None}, again : BOOLEAN ]]
  /\ estop \in
       [ todo : SUBSET (Addresses \X Operations),
         at : {"idle", "lease", "tear", "release", "close", "down"},
         address : Addresses \union {None}, operation : Operations \union {None},
         final : BOOLEAN ]
  /\ freed \subseteq Operations

Init ==
  /\ Ownership!Init
  /\ Visa!Init
  /\ op = [o \in Operations |-> IdleOp]
  /\ client = [c \in Clients |-> IdleClient]
  /\ estop = IdleStop
  /\ freed = {}

-----------------------------------------------------------------------------
(* Operations.                                                             *)

InCall(t) == call[t].at # "idle"

Leases(t) == {r \in Resources : holder[r] = t}

OpAt(o, place) == op[o].at = place /\ ~InCall(o)

Goes(o, place) == op' = [op EXCEPT ![o].at = place]

Ends(o) == op' = [op EXCEPT ![o] = [IdleOp EXCEPT !.at = "over"]]

(* A request that is refused because of its ownership changes nothing here.*)
OperationOwns(o, p) ==
  /\ OpAt(o, "idle")
  /\ Ownership!AcquireMany(p.addresses, o)
  /\ op' = [op EXCEPT ![o] = [at |-> "find", kind |-> p.kind, addresses |-> p.addresses,
                              todo |-> p.addresses, failed |-> FALSE]]
  /\ UNCHANGED <<visaVars, client, estop, freed>>

(* get of every address.  Nobody can tell two of them from one: a session  *)
(* removed in between is missed again, with the same effect, by its lease. *)
OperationFinds(o) ==
  /\ OpAt(o, "find")
  /\ Goes(o, IF \A a \in op[o].addresses : Visa!Published(a) THEN "lease" ELSE "release")
  /\ UNCHANGED <<owners, visaVars, client, estop, freed>>

(* Fault: the leases are taken in the order of the plan.                   *)
NextLeaseOfPlan(todo) == todo

(* sorted(addresses)                                                       *)
NextLease(todo) == {a \in todo : \A b \in todo : Rank[a] <= Rank[b]}

(* Fault: a dual run that failed goes the way of a sweep that failed.      *)
CompletesAlike(o) == IF op[o].failed THEN "mark" ELSE "release"

(* What follows the leases: the completion callback of a sweep, or the     *)
(* finally clause of a dual run.                                           *)
Completes(o) == IF op[o].failed /\ op[o].kind # "dual" THEN "mark" ELSE "release"

(* A lease that raises ends the operation, after the leases it has.        *)
GivesUp(o) == IF Leases(o) = {} THEN Completes(o) ELSE "leave"

(* The lease raises when there is no session ...                           *)
OperationLooks(o) ==
  /\ OpAt(o, "lease")
  /\ \E a \in NextLease(op[o].todo) :
       \/ Visa!LeaseLooks(o, a) /\ UNCHANGED op
       \/ ~Visa!Published(a) /\ Goes(o, GivesUp(o)) /\ UNCHANGED visaVars
  /\ UNCHANGED <<owners, client, estop, freed>>

(* ... and when it is unhealthy.                                           *)
OperationEnters(o) ==
  LET left == op[o].todo \ {call[o].address}
  IN  /\ op[o].at = "lease"
      /\ Visa!LeaseEnters(o)
      /\ op' = [op EXCEPT ![o].todo = left,
                          ![o].at = IF ~healthy[call[o].resource] THEN GivesUp(o)
                                    ELSE IF left = {} THEN "drive" ELSE "lease"]
      /\ UNCHANGED <<owners, client, estop, freed>>

(* The last teardown is over, and an attempt of it has raised: the         *)
(* operation completes all the same.                                       *)
OperationStumbles(o, r) ==
  /\ OpAt(o, "drive")
  /\ Visa!Fails(o, r)
  /\ Goes(o, "leave")
  /\ UNCHANGED <<owners, client, estop, freed>>

(* A command raises, or an answer cannot be read, which leaves the session *)
(* healthy; the teardown that follows is tried all the same.               *)
OperationFails(o, r) ==
  /\ OpAt(o, "drive") /\ holder[r] = o
  /\ Visa!Fails(o, r) \/ UNCHANGED visaVars
  /\ op' = [op EXCEPT ![o].at = "leave", ![o].failed = TRUE]
  /\ UNCHANGED <<owners, client, estop, freed>>

(* The end of the with statement, one lease after the other.               *)
OperationExits(o, r) ==
  /\ OpAt(o, "drive") \/ OpAt(o, "leave")
  /\ Visa!LeaseExits(o, r)
  /\ Goes(o, IF Leases(o) = {r} THEN Completes(o) ELSE "leave")
  /\ UNCHANGED <<owners, client, estop, freed>>

(* mark_unhealthy raises when the session is gone: the agent's callback    *)
(* releases the address all the same, the sweep's does not.                *)
OperationMarks(o) ==
  /\ op[o].at = "mark"
  /\ \/ /\ \E a \in op[o].addresses : Visa!MarkLooks(o, a)
        /\ UNCHANGED op
     \/ /\ Visa!Marks(o)
        /\ Goes(o, "release")
     \/ /\ ~InCall(o)
        /\ \A a \in op[o].addresses : ~Visa!Published(a)
        /\ IF op[o].kind = "agent" THEN Goes(o, "release") ELSE Ends(o)
        /\ UNCHANGED visaVars
  /\ UNCHANGED <<owners, client, estop, freed>>

OperationReleases(o) ==
  /\ OpAt(o, "release")
  /\ Ownership!ReleaseMany(op[o].addresses, o)
  /\ Ends(o)
  /\ UNCHANGED <<visaVars, client, estop, freed>>

Operate(o) ==
  \/ OperationFinds(o) \/ OperationLooks(o) \/ OperationEnters(o)
  \/ OperationMarks(o) \/ OperationReleases(o)
  \/ \E r \in Resources :
       OperationFails(o, r) \/ OperationStumbles(o, r) \/ OperationExits(o, r)

-----------------------------------------------------------------------------
(* The connection and command routes.                                      *)

ClientAt(c, place) == client[c].at = place /\ ~InCall(c)

ClientFree(c) == ClientAt(c, "idle") /\ Leases(c) = {}

ClientGoes(c, place) == client' = [client EXCEPT ![c].at = place]

ClientConnects(c, a) ==
  /\ ClientFree(c)
  /\ Visa!ConnectLooks(c, a)
  /\ UNCHANGED <<owners, op, client, estop, freed>>

(* disconnect and reconnect look at the ownership first.                   *)
ClientChecks(c, a, again) ==
  /\ ClientFree(c)
  /\ owners[a] = None
  /\ client' = [client EXCEPT ![c] = [at |-> "checked", address |-> a, again |-> again]]
  /\ UNCHANGED <<owners, visaVars, op, estop, freed>>

ClientDisconnects(c) ==
  LET a == client[c].address
  IN  /\ ClientAt(c, "checked")
      /\ \/ Visa!DisconnectPops(c, a) /\ ClientGoes(c, "closing")
         \/ /\ ~Visa!Published(a)
            /\ IF client[c].again THEN ClientGoes(c, "reopen")
                                  ELSE client' = [client EXCEPT ![c] = IdleClient]
            /\ UNCHANGED visaVars
      /\ UNCHANGED <<owners, op, estop, freed>>

(* A close that raises ends the request, reconnect's too.                  *)
ClientCloses(c, closed) ==
  /\ client[c].at = "closing"
  /\ Visa!DisconnectCloses(c)
  /\ IF client[c].again /\ closed THEN ClientGoes(c, "reopen")
                                  ELSE client' = [client EXCEPT ![c] = IdleClient]
  /\ UNCHANGED <<owners, op, estop, freed>>

ClientReopens(c) ==
  LET a == client[c].address
  IN  /\ ClientAt(c, "reopen")
      /\ Visa!ConnectLooks(c, a) \/ (Visa!Usable(a) /\ UNCHANGED visaVars)
      /\ client' = [client EXCEPT ![c] = IdleClient]
      /\ UNCHANGED <<owners, op, estop, freed>>

(* A command that passed the preflight is sent under a lease.              *)
ClientCommands(c, a) ==
  /\ ClientFree(c)
  /\ Visa!LeaseLooks(c, a)
  /\ UNCHANGED <<owners, op, client, estop, freed>>

ClientTalks(c) ==
  /\ client[c].at = "idle"
  /\ \/ Visa!Connect(c) \/ Visa!LeaseEnters(c)
     \/ \E r \in Resources : Visa!LeaseExits(c, r) \/ (healthy[r] /\ Visa!Fails(c, r))
  /\ UNCHANGED <<owners, op, client, estop, freed>>

Serve(c) ==
  \/ ClientDisconnects(c) \/ ClientReopens(c) \/ ClientTalks(c)
  \/ \E closed \in BOOLEAN : ClientCloses(c, closed)

-----------------------------------------------------------------------------
(* emergency_stop, and shutdown_app_state, which does the same and goes on *)
(* to close the sessions.                                                  *)

Owned == {p \in Addresses \X Operations : owners[p[1]] = p[2]}

StopSnapshots ==
  /\ estop = IdleStop
  /\ Owned # {}
  /\ estop' = [IdleStop EXCEPT !.todo = Owned, !.at = "lease"]
  /\ UNCHANGED <<owners, visaVars, op, client, freed>>

(* Fault: after the last address the stop is in a state of its own.        *)
StopRestsInTheEnd(rest, final) == IF rest # {} THEN "lease" ELSE "over"

(* What follows when the addresses of rest are left.                       *)
StopRests(rest, final) ==
  IF rest # {} THEN "lease" ELSE IF final THEN "close" ELSE "idle"

StopGoesOn ==
  estop' = [estop EXCEPT !.at = StopRests(estop.todo, estop.final),
                         !.address = None, !.operation = None]

(* An address without a session is unsafe, and the next one is tried.      *)
StopLooks(a, o) ==
  LET rest == estop.todo \ {<<a, o>>}
  IN  /\ estop.at = "lease" /\ ~InCall(Stopper)
      /\ <<a, o>> \in estop.todo
      /\ \/ /\ Visa!LeaseLooks(Stopper, a)
            /\ estop' = [estop EXCEPT !.todo = rest, !.address = a, !.operation = o]
         \/ /\ ~Visa!Published(a)
            /\ estop' = [estop EXCEPT !.todo = rest, !.at = StopRests(rest, estop.final)]
            /\ UNCHANGED visaVars
      /\ UNCHANGED <<owners, op, client, freed>>

StopEnters ==
  /\ Visa!LeaseEnters(Stopper)
  /\ IF healthy[call[Stopper].resource] THEN estop' = [estop EXCEPT !.at = "tear"]
                                        ELSE StopGoesOn
  /\ UNCHANGED <<owners, op, client, freed>>

(* safe_turn_off_output, and the end of the lease.  A write that raised    *)
(* has marked the session unhealthy even when a later attempt succeeded.   *)
StopTears(r, safe) ==
  /\ estop.at = "tear"
  /\ Visa!LeaseExits(Stopper, r)
  /\ IF safe THEN estop' = [estop EXCEPT !.at = "release"] ELSE StopGoesOn
  /\ UNCHANGED <<owners, op, client, freed>>

StopFails(r) ==
  /\ estop.at = "tear"
  /\ healthy[r] /\ Visa!Fails(Stopper, r)
  /\ UNCHANGED <<owners, op, client, estop, freed>>

StopReleases ==
  /\ estop.at = "release"
  /\ Ownership!Release(estop.address, estop.operation)
  /\ freed' = IF owners[estop.address] = estop.operation
                THEN freed \union {estop.operation} ELSE freed
  /\ StopGoesOn
  /\ UNCHANGED <<visaVars, op, client>>

EmergencyStop ==
  \/ StopEnters \/ StopReleases
  \/ \E a \in Addresses, o \in Operations : StopLooks(a, o)
  \/ \E r \in Resources : StopFails(r) \/ \E safe \in BOOLEAN : StopTears(r, safe)

-----------------------------------------------------------------------------
(* shutdown_app_state.                                                     *)

(* The server has answered every request; sweeps have threads of their own *)
(* and go on.                                                              *)
HandlersIdle ==
  /\ \A c \in Clients : client[c] = IdleClient /\ ClientFree(c)
  /\ \A o \in Operations :
       op[o].at \in {"idle", "over"} \/ (op[o].kind # "dual" /\ op[o].at # "find")

ShutdownBegins ==
  /\ estop = IdleStop /\ ~InCall(Stopper)
  /\ HandlersIdle
  /\ estop' = [IdleStop EXCEPT !.todo = Owned, !.at = StopRests(Owned, TRUE),
                               !.final = TRUE]
  /\ UNCHANGED <<owners, visaVars, op, client, freed>>

(* The manager's shutdown: disconnect, address after address.  Nobody      *)
(* publishes a session any more, so its snapshot of the addresses is what  *)
(* the table has.                                                          *)
ShutdownPops(a) ==
  /\ estop.at = "close"
  /\ Visa!DisconnectPops(Stopper, a)
  /\ UNCHANGED <<owners, op, client, estop, freed>>

(* Fault: a close that raises ends the shutdown.                           *)
ShutdownClosesOrGivesUp ==
  /\ Visa!DisconnectCloses(Stopper)
  /\ \E closed \in BOOLEAN :
       estop' = IF closed THEN estop ELSE [estop EXCEPT !.at = "down"]
  /\ UNCHANGED <<owners, op, client, freed>>

(* A close that raises is reported, and the next one is tried.             *)
ShutdownCloses ==
  /\ Visa!DisconnectCloses(Stopper)
  /\ UNCHANGED <<owners, op, client, estop, freed>>

ShutdownEnds ==
  /\ estop.at = "close" /\ ~InCall(Stopper)
  /\ \A a \in Addresses : ~Visa!Published(a)
  /\ estop' = [estop EXCEPT !.at = "down"]
  /\ UNCHANGED <<owners, visaVars, op, client, freed>>

Shutdown ==
  ShutdownCloses \/ ShutdownEnds \/ \E a \in Addresses : ShutdownPops(a)

(* The process ends here; the threads of sweeps, which are daemons, need   *)
(* not be over.                                                            *)
IsDown == estop.at = "down" /\ UNCHANGED vars

-----------------------------------------------------------------------------
(* Once the shutdown has begun, the server takes no request.               *)
Requests ==
  /\ ~estop.final
  /\ \/ \E o \in Operations, p \in Plans : OperationOwns(o, p)
     \/ \E c \in Clients, a \in Addresses :
          \/ ClientConnects(c, a) \/ ClientCommands(c, a)
          \/ \E again \in BOOLEAN : ClientChecks(c, a, again)
     \/ StopSnapshots \/ ShutdownBegins

Next ==
  \/ Requests
  \/ \E o \in Operations : Operate(o)
  \/ \E c \in Clients : Serve(c)
  \/ EmergencyStop
  \/ Shutdown
  \/ IsDown

Spec == Init /\ [][Next]_vars

-----------------------------------------------------------------------------
(* Properties.                                                             *)

(* An operation that has an instrument on lease owns all its addresses,    *)
(* whatever other operations do, and nobody but an emergency stop takes    *)
(* them away.                                                              *)
DrivesWhatItOwns ==
  \A o \in Operations \ freed :
    Leases(o) # {} => \A a \in op[o].addresses : owners[a] = o

(* When an operation is over nothing is owned in its name, whatever has    *)
(* failed and whoever has removed its session, but for a failed sweep that *)
(* was started directly: its callback may raise before it releases its     *)
(* address (sweep.py:148).                                                 *)
OverOwnsNothing ==
  [][\A o \in Operations :
       op[o].at # "over" /\ op'[o].at = "over" =>
         \/ \A a \in Addresses : owners'[a] # o
         \/ op[o].kind = "sweep" /\ op[o].failed]_vars

Waits(t, u) ==
  call[t].at \in {"entering", "closing", "marking"} /\ holder[call[t].resource] = u

(* Threads never wait for each other in a circle, even when an emergency   *)
(* stop has let a second dual run start on the instruments of the first.   *)
NoWaitCycle ==
  ~ \E T \in (SUBSET Threads) \ {{}} : \A t \in T : \E u \in T : Waits(t, u)

(* When the shutdown is over, no session is published, the connections are *)
(* closed (but for failed ones that a connect had replaced), and a sweep   *)
(* that still thinks it drives an instrument has no connection to it:      *)
(* whatever the sweeps' threads were doing meanwhile.                      *)
DownLeavesNothing ==
  estop.at = "down" =>
    /\ \A a \in Addresses : ~Visa!Published(a)
    /\ \A r \in Resources : opened[r] = "open" => ~healthy[r]
    /\ \A o \in Operations : op[o].at = "drive" =>
         \A r \in Leases(o) : opened[r] = "closed"

(* ...visa-session-manager-design.md:376 says: active ownership prevents   *)
(* normal disconnect and reconnect.  It does not: the routes look at the   *)
(* ownership before they remove the session, not while they do.            *)
OwnedStaysConnected ==
  [][\A a \in Addresses :
       owners[a] # None /\ Visa!Published(a) => table'[a] # None]_vars
=============================================================================
