---------------------------- MODULE CommandPath -----------------------------
(***************************************************************************)
(* Manual commands to one instrument: the preflight against a virtual      *)
(* state, the lease, the write, and the update of the virtual state, among *)
(* connects and disconnects, sweeps and emergency stops.                   *)
(* src/src/instr_core/api/routes/visa.py,                                  *)
(* src/src/instr_core/api/services/{command_preflight,visa_service}.py,    *)
(* src/src/instr_core/api/dependencies.py                                  *)
(*                                                                         *)
(* The virtual state is what commands that returned have set since the     *)
(* last connect.  Sweeps and emergency stops do not update it.  Whether it *)
(* still tells the truth when a command is sent is the question here.      *)
(*                                                                         *)
(* The instrument is external: it does what the schema says its commands   *)
(* do.  A write that raises may have reached it, unless the resource is    *)
(* closed.                                                                 *)
(***************************************************************************)
EXTENDS CommandRules, Naturals, Sequences

CONSTANTS
  Address,
  Resources,
  Clients,   \* requests about the address that are served at the same time
  Operator,  \* the thread of the sweep, dual run or emergency stop
  Schema     \* the commands of the instrument, with their definitions

Values == {"ON", "OFF", "VOLT", "CURR", "limit"}

Limit == [VOLT |-> ":SENS:CURR:PROT", CURR |-> ":SENS:VOLT:PROT"]

ASSUME KeyAssumption ==
  Keys = {"output", "source_mode", ":SENS:CURR:PROT", ":SENS:VOLT:PROT"}

ASSUME ThreadAssumption ==
  /\ Operator \notin Clients
  /\ None \notin Clients \union {Operator} \union Resources
  /\ Unknown \notin Values

(* What a command sets is in the state: a value of its own, or an argument *)
(* that is no further than its range and the limits.                       *)
ASSUME SchemaAssumption ==
  \A h \in DOMAIN Schema :
    LET d == Schema[h]
        given == d.arguments \ ({None} \union d.exceeds)
    IN  /\ DOMAIN d.sets \subseteq Keys
        /\ \A k \in DOMAIN d.sets :
             LET values == IF d.sets[k] = "$ARGUMENT" THEN given ELSE {d.sets[k]}
             IN  /\ values \subseteq Values
                 /\ k = "output" => values \subseteq {"ON", "OFF"}

(* A schema that guards the output: it only ever has to be off, a command  *)
(* that must not meet it on needs a source mode, and the source mode is    *)
(* set with the output off.                                                *)
GuardsTheOutput ==
  \A h \in DOMAIN Schema :
    LET d == Schema[h]
    IN  /\ \A p \in d.requires : p[1] = "output" => p[2] = "OFF"
        /\ \A p \in d.forbidden : p[1] = "output" =>
             p[2] = "ON" /\ \E q \in d.requires : q[1] = "source_mode" /\ q[2] # Unknown
        /\ "source_mode" \in DOMAIN d.sets => <<"output", "OFF">> \in d.requires

VARIABLES
  table, opened, healthy, holder, call,  \* VisaSessions
  mapped,   \* address_to_schema has a schema for the address
  tracked,  \* address_state: the virtual state
  device,   \* external: the state the instrument is in
  client,   \* where a request is
  op        \* where the operation is

Visa == INSTANCE VisaSessions
          WITH Addresses <- {Address}, Threads <- Clients \union {Operator}

visaVars == <<table, opened, healthy, holder, call>>
vars == <<visaVars, mapped, tracked, device, client, op>>

Idle == [at |-> "idle", command |-> None, argument |-> None, todo |-> {}, again |-> FALSE]

IdleOp == [at |-> "idle", todo |-> <<>>, owns |-> FALSE]

States == [Keys -> Values \union {Unknown}]

TypeOK ==
  /\ Visa!TypeOK
  /\ mapped \in BOOLEAN
  /\ tracked \in States
  /\ device \in States
  /\ \A c \in Clients :
       /\ client[c].at \in {"idle", "lease", "talk", "raise", "update", "track", "connect",
                            "schema", "state", "checked", "closing", "clear", "reopen"}
       /\ client[c].command \in DOMAIN Schema \union {None}
       /\ client[c].todo \subseteq Keys
  /\ op.at \in {"idle", "lease", "setup", "drive", "teardown", "leave"}
  /\ op.owns \in BOOLEAN

(* What a reset leaves.                                                    *)
AfterReset == [Nothing EXCEPT !["output"] = "OFF", !["source_mode"] = "VOLT"]

(* Whoever used the instrument before may have left it in any state.       *)
Init ==
  /\ Visa!Init
  /\ mapped = FALSE
  /\ tracked = Nothing
  /\ device \in {AfterReset, [AfterReset EXCEPT !["output"] = "ON"]}
  /\ client = [c \in Clients |-> Idle]
  /\ op = IdleOp

-----------------------------------------------------------------------------
InCall(t) == call[t].at # "idle"

At(c, place) == client[c].at = place /\ ~InCall(c)

Goes(c, place) == client' = [client EXCEPT ![c].at = place]

Returns(c) == client' = [client EXCEPT ![c] = Idle]

Tracking == <<mapped, tracked>>

(* What the instrument may do with a write that returns, and with one that *)
(* raises.                                                                 *)
Executed(r, after) == opened[r] = "open" /\ device' = after
Unsure(r, after) == Executed(r, after) \/ UNCHANGED device

-----------------------------------------------------------------------------
(* send_command_endpoint.                                                  *)

(* A command that is refused touches nothing.                              *)
Preflight(c, command, argument) ==
  /\ At(c, "idle")
  /\ mapped
  /\ Accepts(Schema[command], argument, tracked)
  /\ client' = [client EXCEPT ![c] = [Idle EXCEPT !.at = "lease", !.command = command,
                                                  !.argument = argument]]
  /\ UNCHANGED <<visaVars, Tracking, device, op>>

(* *IDN? is sent whatever the address is mapped to, and changes nothing.   *)
Discover(c) ==
  /\ At(c, "idle")
  /\ Goes(c, "lease")
  /\ UNCHANGED <<visaVars, Tracking, device, op>>

Validated(c) == client[c].command # None

CommandLooks(c) ==
  /\ At(c, "lease")
  /\ \/ Visa!LeaseLooks(c, Address) /\ UNCHANGED client
     \/ ~Visa!Published(Address) /\ Returns(c) /\ UNCHANGED visaVars
  /\ UNCHANGED <<Tracking, device, op>>

CommandEnters(c) ==
  /\ client[c].at = "lease"
  /\ Visa!LeaseEnters(c)
  /\ IF healthy[call[c].resource] THEN Goes(c, "talk") ELSE Returns(c)
  /\ UNCHANGED <<Tracking, device, op>>

Sent(c) ==
  IF Validated(c) THEN Apply(Schema[client[c].command], client[c].argument, device)
                  ELSE device

CommandReturns(c, r) ==
  /\ At(c, "talk")
  /\ Executed(r, Sent(c))
  /\ Visa!LeaseExits(c, r)
  /\ Goes(c, "update")
  /\ UNCHANGED <<Tracking, op>>

CommandRaises(c, r) ==
  /\ At(c, "talk")
  /\ Unsure(r, Sent(c))
  /\ Visa!Fails(c, r)
  /\ Goes(c, "raise")
  /\ UNCHANGED <<Tracking, op>>

CommandGivesUp(c, r) ==
  /\ At(c, "raise")
  /\ Visa!LeaseExits(c, r)
  /\ Returns(c)
  /\ UNCHANGED <<Tracking, device, op>>

(* update_address_state: nothing, if the schema is gone by now.            *)
Updates(c) ==
  /\ At(c, "update")
  /\ client' = [client EXCEPT
       ![c].at = "track",
       ![c].todo = IF mapped /\ Validated(c)
                     THEN Changes(Schema[client[c].command], client[c].argument)
                     ELSE {}]
  /\ UNCHANGED <<visaVars, Tracking, device, op>>

(* Each key is set under the lock, one after the other.                    *)
Tracks(c, k) ==
  /\ At(c, "track")
  /\ k \in client[c].todo
  /\ tracked' = [tracked EXCEPT
       ![k] = ValueOf(Schema[client[c].command], k, client[c].argument)]
  /\ client' = [client EXCEPT ![c].todo = @ \ {k}]
  /\ UNCHANGED <<visaVars, mapped, device, op>>

CommandEnds(c) ==
  /\ At(c, "track")
  /\ client[c].todo = {}
  /\ Returns(c)
  /\ UNCHANGED <<visaVars, Tracking, device, op>>

Commands(c) ==
  \/ Discover(c) \/ CommandLooks(c) \/ CommandEnters(c) \/ Updates(c) \/ CommandEnds(c)
  \/ \E r \in Resources : CommandReturns(c, r) \/ CommandRaises(c, r) \/ CommandGivesUp(c, r)
  \/ \E k \in Keys : Tracks(c, k)

-----------------------------------------------------------------------------
(* connect_instrument.  A healthy session is used again, and the virtual   *)
(* state is forgotten all the same.  The instrument is recognised.         *)

ConnectBegins(c) ==
  /\ At(c, "idle") \/ At(c, "reopen")
  /\ \/ Visa!ConnectLooks(c, Address) /\ Goes(c, "connect")
     \/ Visa!Usable(Address) /\ Goes(c, "schema") /\ UNCHANGED visaVars
  /\ UNCHANGED <<Tracking, device, op>>

ConnectProceeds(c) ==
  /\ client[c].at = "connect"
  /\ \/ (\E r \in Resources : Visa!ConnectOpens(c, r)) /\ UNCHANGED client
     \/ (Visa!OpenFails(c) \/ Visa!IdentifyFails(c)) /\ Returns(c)
     \/ Visa!ConnectPublishes(c) /\ Goes(c, "schema")
  /\ UNCHANGED <<Tracking, device, op>>

ConnectMaps(c) ==
  /\ At(c, "schema")
  /\ mapped' = TRUE
  /\ Goes(c, "state")
  /\ UNCHANGED <<visaVars, tracked, device, op>>

(* Fault: the virtual state survives a connect.                            *)
ConnectKeeps(c) ==
  /\ At(c, "state")
  /\ Returns(c)
  /\ UNCHANGED <<visaVars, Tracking, device, op>>

ConnectForgets(c) ==
  /\ At(c, "state")
  /\ tracked' = Nothing
  /\ Returns(c)
  /\ UNCHANGED <<visaVars, mapped, device, op>>

-----------------------------------------------------------------------------
(* disconnect_instrument, and reconnect_instrument (again).                *)

(* A sweep owns the address from before its lease to after it.             *)
DisconnectChecks(c, again) ==
  /\ At(c, "idle")
  /\ ~op.owns
  /\ client' = [client EXCEPT ![c].at = "checked", ![c].again = again]
  /\ UNCHANGED <<visaVars, Tracking, device, op>>

(* An unknown address ends a disconnect at once.                           *)
DisconnectRemoves(c) ==
  /\ At(c, "checked")
  /\ \/ Visa!DisconnectPops(c, Address) /\ Goes(c, "closing")
     \/ /\ ~Visa!Published(Address)
        /\ IF client[c].again THEN Goes(c, "clear") ELSE Returns(c)
        /\ UNCHANGED visaVars
  /\ UNCHANGED <<Tracking, device, op>>

(* The tracking is cleared even when close raises; a reconnect then ends.  *)
DisconnectCloses(c, closed) ==
  /\ client[c].at = "closing"
  /\ Visa!DisconnectCloses(c)
  /\ client' = [client EXCEPT ![c].at = "clear", ![c].again = @ /\ closed]
  /\ UNCHANGED <<Tracking, device, op>>

DisconnectClears(c) ==
  /\ At(c, "clear")
  /\ mapped' = FALSE
  /\ tracked' = Nothing
  /\ IF client[c].again THEN Goes(c, "reopen") ELSE Returns(c)
  /\ UNCHANGED <<visaVars, device, op>>

Connections(c) ==
  \/ ConnectBegins(c) \/ ConnectProceeds(c) \/ ConnectMaps(c) \/ ConnectForgets(c)
  \/ DisconnectRemoves(c) \/ DisconnectClears(c)
  \/ \E closed \in BOOLEAN : DisconnectCloses(c, closed)

-----------------------------------------------------------------------------
(* The operation: a sweep in either mode, or an emergency stop.  Only what *)
(* its writes do to the keys of the virtual state is told.                 *)

After(command) ==
  CASE command = "*RST"      -> AfterReset
    [] command = ":OUTP OFF" -> [device EXCEPT !["output"] = "OFF"]
    [] command = ":OUTP ON"  -> [device EXCEPT !["output"] = "ON"]
    [] command = "VOLT"      -> [device EXCEPT !["source_mode"] = "VOLT"]
    [] command = "CURR"      -> [device EXCEPT !["source_mode"] = "CURR"]
    [] OTHER                 -> [device EXCEPT ![command] = "limit"]

SetupOf(mode) == <<"*RST", ":OUTP OFF", mode, Limit[mode], ":OUTP ON">>

Teardown == <<":OUTP OFF", ":OUTP OFF", "*RST">>

OpGoes(place, todo) == op' = [op EXCEPT !.at = place, !.todo = todo]

OpAt(place) == op.at = place /\ ~InCall(Operator)

(* todo is what the operation writes first: an emergency stop only tears   *)
(* down, and owns nothing.                                                 *)
OpBegins(todo) ==
  /\ OpAt("idle")
  /\ op' = [at |-> "lease", todo |-> todo, owns |-> todo # <<>>]
  /\ UNCHANGED <<visaVars, Tracking, device, client>>

OpLooks ==
  /\ OpAt("lease")
  /\ \/ Visa!LeaseLooks(Operator, Address) /\ UNCHANGED op
     \/ ~Visa!Published(Address) /\ op' = IdleOp /\ UNCHANGED visaVars
  /\ UNCHANGED <<Tracking, device, client>>

OpEnters ==
  /\ Visa!LeaseEnters(Operator)
  /\ IF ~healthy[call[Operator].resource] THEN op' = IdleOp
     ELSE IF op.todo = <<>> THEN OpGoes("teardown", Teardown)
     ELSE OpGoes("setup", op.todo)
  /\ UNCHANGED <<Tracking, device, client>>

Holds(r) == holder[r] = Operator

OpWrites(r) ==
  /\ OpAt("setup") /\ Holds(r)
  /\ Executed(r, After(Head(op.todo)))
  /\ OpGoes(IF Len(op.todo) = 1 THEN "drive" ELSE "setup", Tail(op.todo))
  /\ UNCHANGED <<visaVars, Tracking, client>>

OpRaises(r) ==
  /\ \/ OpAt("setup") /\ Unsure(r, After(Head(op.todo)))
     \/ OpAt("drive") /\ UNCHANGED device
  /\ Visa!Fails(Operator, r)
  /\ OpGoes("teardown", Teardown)
  /\ UNCHANGED <<Tracking, client>>

(* All levels are done, the sweep is stopped, or an answer cannot be read. *)
OpFinishes ==
  /\ OpAt("drive")
  /\ OpGoes("teardown", Teardown)
  /\ UNCHANGED <<visaVars, Tracking, device, client>>

OpTears(r) ==
  /\ OpAt("teardown") /\ Holds(r)
  /\ \/ /\ Executed(r, After(Head(op.todo)))
        /\ OpGoes("leave", <<>>)
        /\ UNCHANGED visaVars
     \/ /\ Unsure(r, After(Head(op.todo)))
        /\ Visa!Fails(Operator, r)
        /\ OpGoes(IF Len(op.todo) = 1 THEN "leave" ELSE "teardown", Tail(op.todo))
  /\ UNCHANGED <<Tracking, client>>

OpLeaves(r) ==
  /\ OpAt("leave")
  /\ Visa!LeaseExits(Operator, r)
  /\ op' = IdleOp
  /\ UNCHANGED <<Tracking, device, client>>

Operate ==
  \/ OpLooks \/ OpEnters \/ OpFinishes
  \/ \E r \in Resources : OpWrites(r) \/ OpRaises(r) \/ OpTears(r) \/ OpLeaves(r)

-----------------------------------------------------------------------------
Next ==
  \/ \E c \in Clients :
       \/ \E command \in DOMAIN Schema :
            \E argument \in Schema[command].arguments : Preflight(c, command, argument)
       \/ \E again \in BOOLEAN : DisconnectChecks(c, again)
       \/ Commands(c)
       \/ Connections(c)
  \/ \E todo \in {SetupOf("VOLT"), SetupOf("CURR"), <<>>} : OpBegins(todo)
  \/ Operate

Spec == Init /\ [][Next]_vars

-----------------------------------------------------------------------------
(* Properties.                                                             *)

(* c's validated command reaches the instrument, or may.                   *)
Sends(c) ==
  /\ Validated(c)
  /\ client[c].at = "talk" /\ client'[c].at # "talk"
  /\ \E r \in Resources : holder[r] = c /\ opened[r] = "open"

(* A command reaches the instrument only while the output is as the schema *)
(* wants it for the command (README.md:73, "Is output currently on?"):     *)
(* levels and modes are never changed under a live output, although sweeps,*)
(* emergency stops, failed writes and reconnects change the output behind  *)
(* the virtual state the command was validated against.                    *)
OutputAsValidated ==
  [][\A c \in Clients : Sends(c) =>
       LET d == Schema[client[c].command]
       IN  /\ \A p \in d.requires : p[1] = "output" => device["output"] = p[2]
           /\ \A p \in d.forbidden : p[1] = "output" => device["output"] # p[2]]_vars
=============================================================================
