------------------------- MODULE CommandPathProofs --------------------------
(***************************************************************************)
(* Proofs about the path of a command: its types, that it uses the session *)
(* manager as VisaSessions describes it, and, for one request at a time,   *)
(* that a command meets the output it was validated for.                   *)
(*                                                                         *)
(* The virtual state may be wrong about the output.  It is wrong only      *)
(* while a sweep has the session of the address, or when that session can  *)
(* no longer be used, or when the request under way is about to forget the *)
(* state (Truthful): a command that reaches the instrument has a healthy   *)
(* session to itself, and none of that is the case.                        *)
(***************************************************************************)
EXTENDS CommandPath, SequenceTheorems, TLAPS

Threads == Clients \union {Operator}

Places == {"idle", "lease", "talk", "raise", "update", "track", "connect",
           "schema", "state", "checked", "closing", "clear", "reopen"}

Arguments == {None} \union UNION {Schema[h].arguments : h \in DOMAIN Schema}

ClientTyped ==
  client \in [Clients ->
    [ at : Places, command : DOMAIN Schema \union {None}, argument : Arguments,
      todo : SUBSET Keys, again : BOOLEAN ]]

(* What an operation writes; a teardown only turns the output off.         *)
TearWrites == {":OUTP OFF", "*RST"}
Writes == TearWrites \union {":OUTP ON", "VOLT", "CURR"} \union {Limit["VOLT"], Limit["CURR"]}

OpTyped ==
  /\ op \in [ at : {"idle", "lease", "setup", "drive", "teardown", "leave"},
              todo : Seq(Writes), owns : BOOLEAN ]
  /\ op.at = "setup" => op.todo # <<>>
  /\ op.at = "teardown" => op.todo \in Seq(TearWrites) /\ op.todo # <<>>

(* A request carries a command only on the way of a command, and one that  *)
(* the preflight has let through; what is left to record is what it sets.  *)
Definition(c) == Schema[client[c].command]

Carries(c) ==
  /\ Validated(c) =>
       /\ client[c].at \in {"lease", "talk", "raise", "update", "track"}
       /\ client[c].argument \in Definition(c).arguments
       /\ ArgumentAllowed(Definition(c), client[c].argument)
  /\ client[c].todo # {} =>
       /\ client[c].at = "track" /\ Validated(c)
       /\ client[c].todo \subseteq Changes(Definition(c), client[c].argument)

(* The call of the session manager a thread is in fits what it is doing.   *)
Ordered(c) ==
  /\ call[c].at \in {"idle", "entering", "opening", "identifying", "closing"}
  /\ call[c].at = "entering" => client[c].at = "lease" /\ call[c].resource \in Resources
  /\ call[c].at \in {"opening", "identifying"} <=> client[c].at = "connect"
  /\ call[c].at = "closing" <=> client[c].at = "closing"

OpOrdered ==
  /\ call[Operator].at \in {"idle", "entering"}
  /\ call[Operator].at = "entering" =>
       op.at = "lease" /\ call[Operator].resource \in Resources

IInv ==
  /\ TypeOK /\ ClientTyped /\ OpTyped /\ OpOrdered
  /\ \A c \in Clients : Carries(c) /\ Ordered(c)

-----------------------------------------------------------------------------
(* What calls of the session manager do.                                   *)

Others(t) == \A u \in Threads : u # t => call'[u] = call[u]

Moves(t, from, to) == call[t].at = from /\ call'[t].at = to /\ Others(t)

(* Every call keeps the types of the sessions.                             *)
LEMMA SessionTypes ==
  ASSUME Visa!TypeOK, NEW t \in Threads, Visa!Step(t)
  PROVE  Visa!TypeOK'
<1> USE DEF Threads, Visa!TypeOK, Visa!Begins, Visa!Returns, Visa!Idle, Visa!At,
      Visa!Published, Visa!Close
<1>1. CASE \E a \in {Address} :
             \/ Visa!ConnectLooks(t, a) \/ Visa!LeaseLooks(t, a)
             \/ Visa!DisconnectPops(t, a) \/ Visa!MarkLooks(t, a)
  BY <1>1 DEF Visa!ConnectLooks, Visa!LeaseLooks, Visa!DisconnectPops,
     Visa!MarkLooks
<1>2. CASE \E r \in Resources : Visa!LeaseExits(t, r) \/ Visa!Fails(t, r)
  BY <1>2 DEF Visa!LeaseExits, Visa!Fails
<1>3. CASE Visa!OpenFails(t) \/ Visa!IdentifyFails(t)
  BY <1>3 DEF Visa!OpenFails, Visa!IdentifyFails
<1>4. CASE Visa!ConnectPublishes(t)
  BY <1>4 DEF Visa!ConnectPublishes
<1>5. CASE \E r \in Resources : Visa!ConnectOpens(t, r)
  BY <1>5 DEF Visa!ConnectOpens
<1>6. CASE Visa!LeaseEnters(t)
  <2>1. holder' \in [Resources -> Threads \union {None}]
    BY <1>6 DEF Visa!LeaseEnters
  <2>2. QED
    BY <1>6, <2>1 DEF Visa!LeaseEnters
<1>7. CASE Visa!DisconnectCloses(t)
  BY <1>7 DEF Visa!DisconnectCloses
<1>8. CASE Visa!Marks(t)
  BY <1>8 DEF Visa!Marks
<1>9. QED
  BY <1>1, <1>2, <1>3, <1>4, <1>5, <1>6, <1>7, <1>8 DEF Visa!Step, Visa!Connect

(* lease looks the session up ...                                          *)
LEMMA LooksEffect ==
  ASSUME Visa!TypeOK, NEW t \in Threads, Visa!LeaseLooks(t, Address)
  PROVE  /\ Moves(t, "idle", "entering")
         /\ call'[t].resource = table[Address] /\ table[Address] \in Resources
         /\ UNCHANGED <<table, opened, healthy, holder>>
BY DEF Threads, Visa!TypeOK, Visa!LeaseLooks, Visa!Begins, Visa!At, Visa!Published,
   Moves, Others

(* ... and has got its lock, which it keeps if the session is healthy.     *)
LEMMA EntersEffect ==
  ASSUME Visa!TypeOK, NEW t \in Threads, Visa!LeaseEnters(t)
  PROVE  /\ Moves(t, "entering", "idle")
         /\ holder[call[t].resource] = None
         /\ holder' = IF healthy[call[t].resource]
                        THEN [holder EXCEPT ![call[t].resource] = t] ELSE holder
         /\ UNCHANGED <<table, opened, healthy>>
BY DEF Threads, Visa!TypeOK, Visa!LeaseEnters, Visa!Returns, Visa!Idle, Visa!At,
   Visa!Free, Moves, Others

(* disconnect takes the session out of the table ...                       *)
LEMMA PopsEffect ==
  ASSUME Visa!TypeOK, NEW t \in Threads, Visa!DisconnectPops(t, Address)
  PROVE  /\ Moves(t, "idle", "closing")
         /\ call'[t].resource = table[Address]
         /\ table'[Address] = None
         /\ UNCHANGED <<opened, healthy, holder>>
BY DEF Threads, Visa!TypeOK, Visa!DisconnectPops, Visa!Begins, Visa!At,
   Visa!Published, Moves, Others

(* ... and closes it when nobody has it on lease.                          *)
LEMMA ClosesEffect ==
  ASSUME Visa!TypeOK, NEW t \in Threads, Visa!DisconnectCloses(t)
  PROVE  /\ Moves(t, "closing", "idle")
         /\ holder[call[t].resource] = None
         /\ opened' = [opened EXCEPT ![call[t].resource] = "closed"]
         /\ UNCHANGED <<table, healthy, holder>>
BY DEF Threads, Visa!TypeOK, Visa!DisconnectCloses, Visa!Returns, Visa!Idle,
   Visa!At,
   Visa!Free, Visa!Close, Moves, Others

(* connect finds no session that it can return.                            *)
LEMMA ConnectLooksEffect ==
  ASSUME Visa!TypeOK, NEW t \in Threads, Visa!ConnectLooks(t, Address)
  PROVE  /\ Moves(t, "idle", "opening")
         /\ ~Visa!Usable(Address)
         /\ UNCHANGED <<table, opened, healthy, holder>>
BY DEF Threads, Visa!TypeOK, Visa!ConnectLooks, Visa!Begins, Visa!At, Moves, Others

(* connect opens a resource ...                                            *)
LEMMA OpensEffect ==
  ASSUME Visa!TypeOK, NEW t \in Threads, NEW r \in Resources, Visa!ConnectOpens(t, r)
  PROVE  /\ Moves(t, "opening", "identifying")
         /\ opened[r] = "unused"
         /\ opened' = [opened EXCEPT ![r] = "open"]
         /\ UNCHANGED <<table, healthy, holder>>
BY DEF Threads, Visa!TypeOK, Visa!ConnectOpens, Visa!At, Moves, Others

(* ... gives up ...                                                        *)
LEMMA ConnectFailsEffect ==
  ASSUME Visa!TypeOK, NEW t \in Threads, Visa!OpenFails(t) \/ Visa!IdentifyFails(t)
  PROVE  /\ call[t].at \in {"opening", "identifying"}
         /\ call'[t].at = "idle" /\ Others(t)
         /\ \A r \in Resources : opened'[r] \in {opened[r], "closed"}
         /\ UNCHANGED <<table, healthy, holder>>
BY DEF Threads, Visa!TypeOK, Visa!OpenFails, Visa!IdentifyFails, Visa!Returns,
   Visa!Idle, Visa!At, Visa!Close, Others

(* ... or publishes it, unless there is a healthy session by now.          *)
LEMMA PublishesEffect ==
  ASSUME Visa!TypeOK, NEW t \in Threads, Visa!ConnectPublishes(t)
  PROVE  /\ Moves(t, "identifying", "idle")
         /\ \A r \in Resources : opened'[r] \in {opened[r], "closed"}
         /\ table' = table \/ ~Visa!Usable(Address)
         /\ UNCHANGED <<healthy, holder>>
<1>1. CASE call[t].address = Address
  BY <1>1 DEF Threads, Visa!TypeOK, Visa!ConnectPublishes, Visa!Returns, Visa!Idle,
     Visa!At, Visa!Close, Moves, Others
<1>2. CASE call[t].address # Address
  <2>1. table' = table
    BY <1>2 DEF Visa!TypeOK, Visa!ConnectPublishes
  <2>2. QED
    BY <2>1 DEF Threads, Visa!TypeOK, Visa!ConnectPublishes, Visa!Returns,
       Visa!Idle,
     Visa!At, Visa!Close, Moves, Others
<1>3. QED
  BY <1>1, <1>2


(* A step of the program is a step of the session manager, or leaves it    *)
(* alone.                                                                  *)
LEMMA SessionStep ==
  ASSUME Next
  PROVE  (\E t \in Threads : Visa!Step(t)) \/ UNCHANGED visaVars
<1>1. ASSUME NEW c \in Clients, Commands(c)
      PROVE  Visa!Step(c) \/ UNCHANGED visaVars
  BY <1>1 DEF Commands, Discover, CommandLooks, CommandEnters, CommandReturns,
     CommandRaises, CommandGivesUp, Updates, Tracks, CommandEnds, Visa!Step
<1>2. ASSUME NEW c \in Clients, Connections(c)
      PROVE  Visa!Step(c) \/ UNCHANGED visaVars
  BY <1>2 DEF Connections, ConnectBegins, ConnectProceeds, ConnectMaps,
     ConnectForgets,
     DisconnectRemoves, DisconnectCloses, DisconnectClears, Visa!Step, Visa!Connect
<1>3. ASSUME Operate
      PROVE  Visa!Step(Operator) \/ UNCHANGED visaVars
  BY <1>3 DEF Operate, OpLooks, OpEnters, OpFinishes, OpWrites, OpRaises, OpTears,
     OpLeaves, Visa!Step
<1>4. QED
  BY <1>1, <1>2, <1>3 DEF Next, Threads, Preflight, DisconnectChecks, OpBegins

-----------------------------------------------------------------------------
(* What steps do to the place of a request.                                *)

OnlyClient(c) == \A d \in Clients : d # c => client'[d] = client[d]

SameRequest(c) ==
  /\ client'[c].command = client[c].command /\ client'[c].argument = client[c].argument
  /\ client'[c].todo = client[c].todo

LEMMA GoesEffect ==
  ASSUME ClientTyped, NEW c \in Clients, NEW place \in Places, Goes(c, place)
  PROVE  ClientTyped' /\ OnlyClient(c) /\ SameRequest(c) /\ client'[c].at = place
BY DEF ClientTyped, Goes, OnlyClient, SameRequest

LEMMA AgainEffect ==
  ASSUME ClientTyped, NEW c \in Clients, NEW place \in Places, NEW again,
         client' = [client EXCEPT ![c].at = place, ![c].again = again]
  PROVE  OnlyClient(c) /\ SameRequest(c) /\ client'[c].at = place
BY DEF ClientTyped, OnlyClient, SameRequest

LEMMA IdleTyped ==
  Idle \in [ at : Places, command : DOMAIN Schema \union {None}, argument : Arguments,
             todo : SUBSET Keys, again : BOOLEAN ]
BY DEF Idle, Places, Arguments

LEMMA ReturnsEffect ==
  ASSUME ClientTyped, NEW c \in Clients, Returns(c)
  PROVE  ClientTyped' /\ OnlyClient(c) /\ client'[c] = Idle
BY IdleTyped DEF ClientTyped, Returns, OnlyClient

(* What a command sets, if the preflight lets its argument through.        *)
LEMMA ValuesSet ==
  ASSUME NEW h \in DOMAIN Schema, NEW a \in Schema[h].arguments,
         ArgumentAllowed(Schema[h], a), NEW k \in Changes(Schema[h], a)
  PROVE  /\ k \in Keys /\ ValueOf(Schema[h], k, a) \in Values
         /\ k = "output" => ValueOf(Schema[h], k, a) \in {"ON", "OFF"}
<1> DEFINE d == Schema[h]
           given == d.arguments \ ({None} \union d.exceeds)
<1>1. k \in DOMAIN d.sets /\ ValueOf(d, k, a) # None
  BY DEF Changes
<1>2. CASE d.sets[k] = "$ARGUMENT"
  <2>1. ValueOf(d, k, a) = a /\ a \in given
    BY <1>1, <1>2 DEF ValueOf, ArgumentAllowed
  <2>2. QED
    BY <1>1, <1>2, <2>1, SchemaAssumption
<1>3. CASE d.sets[k] # "$ARGUMENT"
  <2>1. ValueOf(d, k, a) = d.sets[k]
    BY <1>3 DEF ValueOf
  <2>2. QED
    BY <1>1, <1>3, <2>1, SchemaAssumption
<1>4. QED
  BY <1>2, <1>3

(* What the instrument is in after a command ...                           *)
LEMMA SentTyped ==
  ASSUME IInv, NEW c \in Clients
  PROVE  Sent(c) \in States
<1>1. device \in States
  BY DEF IInv, TypeOK
<1>2. CASE Validated(c)
  <2>1. /\ client[c].command \in DOMAIN Schema
        /\ client[c].argument \in Definition(c).arguments
        /\ ArgumentAllowed(Definition(c), client[c].argument)
    BY <1>2 DEF IInv, ClientTyped, Validated, Carries
  <2>2. \A k \in Changes(Definition(c), client[c].argument) :
          ValueOf(Definition(c), k, client[c].argument) \in Values
    BY <2>1, ValuesSet DEF Definition
  <2>3. QED
    BY <1>1, <1>2, <2>2 DEF Sent, Apply, States, Definition
<1>3. QED
  BY <1>1, <1>2 DEF Sent

(* ... and after a write of the operation.                                 *)
LEMMA AfterTyped ==
  ASSUME device \in States, NEW w \in Writes
  PROVE  /\ After(w) \in States
         /\ w \in TearWrites => After(w)["output"] = "OFF"
<1>1. AfterReset \in States /\ AfterReset["output"] = "OFF"
  BY KeyAssumption DEF AfterReset, Nothing, States, Values
<1>2. QED
  BY <1>1, KeyAssumption DEF After, Writes, TearWrites, Limit, States, Values

-----------------------------------------------------------------------------
(* Types.                                                                  *)

LEMMA Types ==
  ASSUME Visa!TypeOK, mapped \in BOOLEAN, tracked \in States, device \in States,
         ClientTyped, OpTyped
  PROVE  TypeOK
BY DEF TypeOK, ClientTyped, OpTyped, Places

(* A step of a client keeps the invariant if what it leaves of the client  *)
(* does.                                                                   *)
LEMMA ClientFrame ==
  ASSUME IInv, NEW c \in Clients, Visa!TypeOK', UNCHANGED op,
         mapped' \in BOOLEAN, tracked' \in States, device' \in States,
         ClientTyped', OnlyClient(c), Others(c), Carries(c)', Ordered(c)'
  PROVE  IInv'
<1>1. OpTyped' /\ TypeOK'
  <2>1. OpTyped'
    BY DEF IInv, OpTyped
  <2>2. QED
    BY <2>1, Types DEF IInv, Visa!TypeOK, States, ClientTyped, OpTyped, TypeOK,
       Places
<1>2. OpOrdered'
  BY ThreadAssumption DEF IInv, OpOrdered, Others, Threads
<1>3. ASSUME NEW d \in Clients
      PROVE  Carries(d)' /\ Ordered(d)'
  <2>1. CASE d = c
    BY <2>1
  <2>2. CASE d # c
    <3>1. client'[d] = client[d] /\ call'[d] = call[d]
      BY <2>2 DEF OnlyClient, Others, Threads
    <3>2. QED
      BY <3>1 DEF IInv, Carries, Ordered, Validated, Definition
  <2>3. QED
    BY <2>1, <2>2
<1>4. QED
  BY <1>1, <1>2, <1>3 DEF IInv

(* A step of the operation keeps it if what it leaves of the operation     *)
(* does.                                                                   *)
LEMMA OpFrame ==
  ASSUME IInv, Visa!TypeOK', UNCHANGED <<mapped, tracked, client>>, device' \in States,
         OpTyped', OpOrdered', Others(Operator)
  PROVE  IInv'
<1>1. TypeOK' /\ ClientTyped'
  BY DEF IInv, TypeOK, OpTyped, ClientTyped, Places
<1>2. ASSUME NEW c \in Clients
      PROVE  Carries(c)' /\ Ordered(c)'
  <2>1. call'[c] = call[c]
    BY ThreadAssumption DEF Others, Threads
  <2>2. QED
    BY <2>1 DEF IInv, Carries, Ordered, Validated, Definition
<1>3. QED
  BY <1>1, <1>2 DEF IInv

(* What IInv says of one client.                                           *)
LEMMA Facts ==
  ASSUME IInv, NEW c \in Clients
  PROVE  /\ Visa!TypeOK /\ mapped \in BOOLEAN /\ tracked \in States /\ device \in States
         /\ ClientTyped /\ Carries(c) /\ Ordered(c) /\ c \in Threads
         /\ client[c].at \in Places /\ client[c].command \in DOMAIN Schema \union {None}
         /\ client[c].todo \subseteq Keys
BY DEF IInv, TypeOK, ClientTyped, Threads

(* A step that only moves a client on its way, with or without a call of   *)
(* the session manager.                                                    *)
LEMMA MovesOn ==
  ASSUME IInv, NEW c \in Clients, NEW place \in Places, Goes(c, place),
         Visa!TypeOK', Others(c), UNCHANGED op,
         mapped' \in BOOLEAN, tracked' \in States, device' \in States,
         client[c].at # "track", Ordered(c)',
         Validated(c) => place \in {"lease", "talk", "raise", "update"}
  PROVE  IInv'
<1>1. ClientTyped' /\ OnlyClient(c) /\ SameRequest(c) /\ client'[c].at = place
  BY Facts, GoesEffect
<1>2. Carries(c)'
  BY <1>1, Facts DEF SameRequest, Carries, Validated, Definition
<1>3. QED
  BY <1>1, <1>2, ClientFrame

(* A step with which a request ends.                                       *)
LEMMA Ends ==
  ASSUME IInv, NEW c \in Clients, Returns(c),
         Visa!TypeOK', Others(c), UNCHANGED op,
         mapped' \in BOOLEAN, tracked' \in States, device' \in States,
         call'[c].at = "idle"
  PROVE  IInv'
<1>1. ClientTyped' /\ OnlyClient(c) /\ client'[c] = Idle
  BY Facts, ReturnsEffect
<1>2. Carries(c)' /\ Ordered(c)'
  BY <1>1 DEF Carries, Ordered, Validated, Idle
<1>3. QED
  BY <1>1, <1>2, ClientFrame

(* A command, from its preflight ...                                       *)
LEMMA PreflightTypes ==
  ASSUME IInv, Visa!TypeOK', NEW c \in Clients, NEW h \in DOMAIN Schema,
         NEW a \in Schema[h].arguments, Preflight(c, h, a)
  PROVE  IInv'
<1> DEFINE next == [Idle EXCEPT !.at = "lease", !.command = h, !.argument = a]
<1>1. Idle.todo = {}
  BY DEF Idle
<1>2. a \in Arguments /\ "lease" \in Places
  BY DEF Arguments, Places
<1>3. /\ next \in [ at : Places, command : DOMAIN Schema \union {None}, argument : Arguments,
                    todo : SUBSET Keys, again : BOOLEAN ]
      /\ next.at = "lease" /\ next.command = h /\ next.argument = a /\ next.todo = {}
  BY <1>1, <1>2, IdleTyped
<1>4. client' = [client EXCEPT ![c] = next]
  BY DEF Preflight
<1> HIDE DEF next
<1>5. ClientTyped' /\ OnlyClient(c) /\ client'[c] = next
  BY <1>3, <1>4, Facts DEF ClientTyped, OnlyClient
<1>6. ArgumentAllowed(Schema[h], a)
  BY DEF Preflight, Accepts
<1>7. Carries(c)'
  BY <1>3, <1>5, <1>6 DEF Carries, Validated, Definition
<1>8. call' = call /\ call[c].at = "idle" /\ UNCHANGED <<mapped, tracked, device, op>>
  BY DEF Preflight, At, InCall, visaVars, Tracking
<1>9. Ordered(c)' /\ Others(c)
  BY <1>3, <1>5, <1>8 DEF Ordered, Others
<1>10. QED
  BY <1>5, <1>7, <1>8, <1>9, Facts, ClientFrame

(* ... to its answer.                                                      *)
LEMMA CommandTypes ==
  ASSUME IInv, Visa!TypeOK', NEW c \in Clients, Commands(c)
  PROVE  IInv'
<1> USE DEF At, InCall, visaVars, Tracking
<1>0. /\ Visa!TypeOK /\ mapped \in BOOLEAN /\ tracked \in States /\ device \in States
      /\ Carries(c) /\ Ordered(c) /\ c \in Threads /\ Sent(c) \in States
  BY Facts, SentTyped
<1>1. CASE Discover(c)
  <2>1. Ordered(c)' /\ Others(c) /\ ~Validated(c)
    BY <1>0, <1>1, Facts, GoesEffect DEF Discover, Ordered, Others, Carries, Places
  <2>2. QED
    BY <1>0, <1>1, <2>1, MovesOn DEF Discover, Places
<1>2. CASE CommandLooks(c)
  <2>1. CASE Visa!LeaseLooks(c, Address) /\ UNCHANGED client
    <3>1. Others(c) /\ call'[c].at = "entering" /\ call'[c].resource \in Resources
      BY <1>0, <2>1, LooksEffect DEF Moves
    <3>2. Ordered(c)' /\ Carries(c)'
      BY <1>0, <1>2, <2>1, <3>1 DEF CommandLooks, Ordered, Carries, Validated,
         Definition
    <3>3. ClientTyped' /\ OnlyClient(c)
      BY <2>1, Facts DEF ClientTyped, OnlyClient
    <3>4. QED
      BY <1>0, <1>2, <3>1, <3>2, <3>3, ClientFrame DEF CommandLooks
  <2>2. CASE Returns(c) /\ UNCHANGED visaVars
    BY <1>0, <1>2, <2>2, Ends DEF CommandLooks, Others
  <2>3. QED
    BY <1>2, <2>1, <2>2 DEF CommandLooks
<1>3. CASE CommandEnters(c)
  <2>1. Others(c) /\ call'[c].at = "idle"
    BY <1>0, <1>3, EntersEffect DEF CommandEnters, Moves
  <2>2. CASE Returns(c)
    BY <1>0, <1>3, <2>1, <2>2, Ends DEF CommandEnters
  <2>3. CASE Goes(c, "talk")
    <3>1. Ordered(c)'
      BY <2>1, <2>3, Facts, GoesEffect DEF Ordered, Places
    <3>2. QED
      BY <1>0, <1>3, <2>1, <2>3, <3>1, MovesOn DEF CommandEnters, Places
  <2>4. QED
    BY <1>3, <2>2, <2>3 DEF CommandEnters
<1>4. ASSUME NEW r \in Resources, CommandReturns(c, r) \/ CommandRaises(c, r)
      PROVE  IInv'
  <2>1. call' = call /\ device' \in States /\ UNCHANGED <<mapped, tracked, op>>
    BY <1>0, <1>4 DEF CommandReturns, CommandRaises, Executed, Unsure,
       Visa!LeaseExits,
       Visa!Fails
  <2>2. PICK place \in {"update", "raise"} : Goes(c, place)
    BY <1>4 DEF CommandReturns, CommandRaises
  <2>3. Ordered(c)' /\ Others(c)
    <3>1. client'[c].at = place /\ call[c].at = "idle"
      BY <1>4, <2>2, Facts, GoesEffect DEF Places, CommandReturns, CommandRaises
    <3>2. QED
      BY <2>1, <3>1 DEF Ordered, Others
  <2>4. client[c].at = "talk"
    BY <1>4 DEF CommandReturns, CommandRaises
  <2>5. QED
    BY <1>0, <2>1, <2>2, <2>3, <2>4, MovesOn DEF Places
<1>5. ASSUME NEW r \in Resources, CommandGivesUp(c, r)
      PROVE  IInv'
  BY <1>0, <1>5, Ends DEF CommandGivesUp, Visa!LeaseExits, Others
<1>6. CASE Updates(c)
  <2> DEFINE changes == IF mapped /\ Validated(c)
                          THEN Changes(Schema[client[c].command], client[c].argument)
                          ELSE {}
  <2>1. client' = [client EXCEPT ![c].at = "track", ![c].todo = changes]
    BY <1>6 DEF Updates
  <2>2. changes \subseteq Keys
    <3>1. CASE Validated(c)
      BY <1>0, <3>1, Facts, ValuesSet DEF Carries, Definition, Validated
    <3>2. QED
      BY <3>1
  <2>3. changes # {} => Validated(c) /\ changes = Changes(Definition(c), client[c].argument)
    BY DEF Definition
  <2> HIDE DEF changes
  <2>4. /\ ClientTyped' /\ OnlyClient(c)
        /\ client'[c].at = "track" /\ client'[c].todo = changes
        /\ client'[c].command = client[c].command
        /\ client'[c].argument = client[c].argument
    BY <2>1, <2>2, Facts DEF ClientTyped, OnlyClient, Places
  <2>5. Carries(c)'
    BY <1>0, <2>3, <2>4 DEF Carries, Validated, Definition
  <2>6. Ordered(c)' /\ Others(c)
    BY <1>6, <2>4 DEF Updates, Ordered, Others
  <2>7. QED
    BY <1>0, <1>6, <2>4, <2>5, <2>6, ClientFrame DEF Updates
<1>7. ASSUME NEW k \in Keys, Tracks(c, k)
      PROVE  IInv'
  <2>1. /\ ClientTyped' /\ OnlyClient(c) /\ client'[c].at = "track"
        /\ client'[c].todo = client[c].todo \ {k}
        /\ client'[c].command = client[c].command
        /\ client'[c].argument = client[c].argument
    BY <1>7, Facts DEF Tracks, ClientTyped, OnlyClient
  <2>2. Carries(c)'
    BY <1>0, <1>7, <2>1 DEF Tracks, Carries, Validated, Definition
  <2>3. Ordered(c)' /\ Others(c)
    BY <1>7, <2>1 DEF Tracks, Ordered, Others
  <2>4. /\ client[c].command \in DOMAIN Schema
        /\ client[c].argument \in Definition(c).arguments
        /\ ArgumentAllowed(Definition(c), client[c].argument)
        /\ k \in Changes(Definition(c), client[c].argument)
    BY <1>0, <1>7, Facts DEF Tracks, Carries, Validated
  <2>5. ValueOf(Definition(c), k, client[c].argument) \in Values
    BY <2>4, ValuesSet DEF Definition
  <2>6. tracked' \in States
    BY <1>0, <1>7, <2>5 DEF Tracks, States, Definition
  <2>7. QED
    BY <1>0, <1>7, <2>1, <2>2, <2>3, <2>6, ClientFrame DEF Tracks
<1>8. CASE CommandEnds(c)
  BY <1>0, <1>8, Ends DEF CommandEnds, Others
<1>9. QED
  BY <1>1, <1>2, <1>3, <1>4, <1>5, <1>6, <1>7, <1>8 DEF Commands

(* Connect, disconnect and reconnect.                                      *)
LEMMA ConnectionTypes ==
  ASSUME IInv, Visa!TypeOK', NEW c \in Clients,
         Connections(c) \/ \E again \in BOOLEAN : DisconnectChecks(c, again)
  PROVE  IInv'
<1> USE DEF At, InCall, visaVars, Tracking
<1>0. /\ Visa!TypeOK /\ mapped \in BOOLEAN /\ tracked \in States /\ device \in States
      /\ Carries(c) /\ Ordered(c) /\ c \in Threads /\ ClientTyped
  BY Facts
<1>a. Nothing \in States
  BY DEF Nothing, States
<1>1. CASE ConnectBegins(c)
  <2>1. ~Validated(c) /\ client[c].at # "track"
    BY <1>0, <1>1 DEF ConnectBegins, Carries
  <2>2. CASE Visa!ConnectLooks(c, Address) /\ Goes(c, "connect")
    <3>1. Others(c) /\ call'[c].at = "opening" /\ client'[c].at = "connect"
      BY <1>0, <2>2, ConnectLooksEffect, GoesEffect DEF Moves, Places
    <3>2. Ordered(c)'
      BY <3>1 DEF Ordered
    <3>3. QED
      BY <1>0, <1>1, <2>1, <2>2, <3>1, <3>2, MovesOn DEF ConnectBegins, Places
  <2>3. CASE Goes(c, "schema") /\ UNCHANGED visaVars
    <3>1. Others(c) /\ call'[c].at = "idle" /\ client'[c].at = "schema"
      BY <1>0, <1>1, <2>3, GoesEffect DEF ConnectBegins, Places, Others
    <3>2. Ordered(c)'
      BY <3>1 DEF Ordered
    <3>3. QED
      BY <1>0, <1>1, <2>1, <2>3, <3>1, <3>2, MovesOn DEF ConnectBegins, Places
  <2>4. QED
    BY <1>1, <2>2, <2>3 DEF ConnectBegins
<1>2. CASE ConnectProceeds(c)
  <2>1. ~Validated(c) /\ client[c].at = "connect"
    BY <1>0, <1>2 DEF ConnectProceeds, Carries
  <2>2. ASSUME NEW r \in Resources, Visa!ConnectOpens(c, r), UNCHANGED client
        PROVE  IInv'
    <3>1. Others(c) /\ call'[c].at = "identifying"
      BY <1>0, <2>2, OpensEffect DEF Moves
    <3>2. Ordered(c)' /\ Carries(c)' /\ OnlyClient(c) /\ ClientTyped'
      BY <1>0, <2>1, <2>2, <3>1 DEF Ordered, Carries, Validated, Definition,
         OnlyClient,
         ClientTyped
    <3>3. QED
      BY <1>0, <1>2, <3>1, <3>2, ClientFrame DEF ConnectProceeds
  <2>3. CASE (Visa!OpenFails(c) \/ Visa!IdentifyFails(c)) /\ Returns(c)
    <3>1. Others(c) /\ call'[c].at = "idle"
      BY <1>0, <2>3, ConnectFailsEffect
    <3>2. QED
      BY <1>0, <1>2, <2>3, <3>1, Ends DEF ConnectProceeds
  <2>4. CASE Visa!ConnectPublishes(c) /\ Goes(c, "schema")
    <3>1. Others(c) /\ call'[c].at = "idle" /\ client'[c].at = "schema"
      BY <1>0, <2>4, PublishesEffect, GoesEffect DEF Places, Moves
    <3>2. Ordered(c)'
      BY <3>1 DEF Ordered
    <3>3. QED
      BY <1>0, <1>2, <2>1, <2>4, <3>1, <3>2, MovesOn DEF ConnectProceeds, Places
  <2>5. QED
    BY <1>2, <2>2, <2>3, <2>4 DEF ConnectProceeds
<1>3. CASE ConnectMaps(c)
  <2>1. Others(c) /\ call'[c].at = "idle" /\ client'[c].at = "state" /\ ~Validated(c)
    BY <1>0, <1>3, GoesEffect DEF ConnectMaps, Places, Others, Carries
  <2>2. Ordered(c)'
    BY <2>1 DEF Ordered
  <2>3. QED
    BY <1>0, <1>3, <2>1, <2>2, MovesOn DEF ConnectMaps, Places
<1>4. CASE ConnectForgets(c)
  BY <1>0, <1>a, <1>4, Ends DEF ConnectForgets, Others
<1>5. ASSUME NEW again \in BOOLEAN, DisconnectChecks(c, again)
      PROVE  IInv'
  <2>1. /\ ClientTyped' /\ OnlyClient(c) /\ SameRequest(c) /\ client'[c].at = "checked"
    BY <1>0, <1>5 DEF DisconnectChecks, ClientTyped, OnlyClient, SameRequest, Places
  <2>2. Carries(c)' /\ Ordered(c)' /\ Others(c)
    BY <1>0, <1>5, <2>1 DEF DisconnectChecks, SameRequest, Carries, Ordered,
       Validated,
       Definition, Others
  <2>3. QED
    BY <1>0, <1>5, <2>1, <2>2, ClientFrame DEF DisconnectChecks
<1>6. CASE DisconnectRemoves(c)
  <2>1. ~Validated(c) /\ client[c].at = "checked"
    BY <1>0, <1>6 DEF DisconnectRemoves, Carries
  <2>2. CASE Visa!DisconnectPops(c, Address) /\ Goes(c, "closing")
    <3>1. Others(c) /\ call'[c].at = "closing" /\ client'[c].at = "closing"
      BY <1>0, <2>2, PopsEffect, GoesEffect DEF Moves, Places
    <3>2. Ordered(c)'
      BY <3>1 DEF Ordered
    <3>3. QED
      BY <1>0, <1>6, <2>1, <2>2, <3>1, <3>2, MovesOn DEF DisconnectRemoves, Places
  <2>3. CASE Goes(c, "clear") /\ UNCHANGED visaVars
    <3>1. Others(c) /\ call'[c].at = "idle" /\ client'[c].at = "clear"
      BY <1>0, <1>6, <2>3, GoesEffect DEF DisconnectRemoves, Places, Others
    <3>2. Ordered(c)'
      BY <3>1 DEF Ordered
    <3>3. QED
      BY <1>0, <1>6, <2>1, <2>3, <3>1, <3>2, MovesOn DEF DisconnectRemoves, Places
  <2>4. CASE Returns(c) /\ UNCHANGED visaVars
    BY <1>0, <1>6, <2>4, Ends DEF DisconnectRemoves, Others
  <2>5. QED
    BY <1>6, <2>2, <2>3, <2>4 DEF DisconnectRemoves
<1>7. ASSUME NEW closed \in BOOLEAN, DisconnectCloses(c, closed)
      PROVE  IInv'
  <2>1. /\ ClientTyped' /\ OnlyClient(c) /\ SameRequest(c) /\ client'[c].at = "clear"
    BY <1>0, <1>7 DEF DisconnectCloses, ClientTyped, OnlyClient, SameRequest, Places
  <2>2. Others(c) /\ call'[c].at = "idle"
    BY <1>0, <1>7, ClosesEffect DEF DisconnectCloses, Moves
  <2>3. Carries(c)' /\ Ordered(c)'
    BY <1>0, <1>7, <2>1, <2>2 DEF DisconnectCloses, SameRequest, Carries, Ordered,
       Validated, Definition
  <2>4. QED
    BY <1>0, <1>7, <2>1, <2>2, <2>3, ClientFrame DEF DisconnectCloses
<1>8. CASE DisconnectClears(c)
  <2>1. ~Validated(c) /\ client[c].at = "clear" /\ call' = call /\ call[c].at = "idle"
        /\ mapped' \in BOOLEAN /\ tracked' \in States /\ UNCHANGED <<device, op>>
    BY <1>0, <1>a, <1>8 DEF DisconnectClears, Carries
  <2>2. CASE Goes(c, "reopen")
    <3>1. client'[c].at = "reopen"
      BY <1>0, <2>2, GoesEffect DEF Places
    <3>2. Ordered(c)' /\ Others(c)
      BY <2>1, <3>1 DEF Ordered, Others
    <3>3. QED
      BY <1>0, <2>1, <2>2, <3>2, MovesOn DEF Places
  <2>3. CASE Returns(c)
    BY <1>0, <2>1, <2>3, Ends DEF Others
  <2>4. QED
    BY <1>8, <2>2, <2>3 DEF DisconnectClears
<1>9. QED
  BY <1>1, <1>2, <1>3, <1>4, <1>5, <1>6, <1>7, <1>8 DEF Connections

(* The operation goes on with what it has still to write.                  *)
LEMMA OpGoesEffect ==
  ASSUME OpTyped, NEW place \in {"setup", "drive", "teardown", "leave"},
         NEW todo \in Seq(Writes), OpGoes(place, todo),
         place = "setup" => todo # <<>>,
         place = "teardown" => todo \in Seq(TearWrites) /\ todo # <<>>
  PROVE  OpTyped' /\ op'.at = place /\ op'.todo = todo
BY DEF OpTyped, OpGoes

(* What it writes are commands it may write.                               *)
LEMMA TodosTyped ==
  /\ \A mode \in {"VOLT", "CURR"} : SetupOf(mode) \in Seq(Writes) /\ SetupOf(mode) # <<>>
  /\ Teardown \in Seq(TearWrites) /\ Teardown \in Seq(Writes) /\ Teardown # <<>>
BY DEF SetupOf, Teardown, Writes, TearWrites, Limit

LEMMA Rests ==
  ASSUME NEW S, NEW todo \in Seq(S), todo # <<>>
  PROVE  Head(todo) \in S /\ Tail(todo) \in Seq(S) /\ (Len(todo) # 1 => Tail(todo) # <<>>)
<1>1. Len(todo) \in Nat /\ Len(todo) # 0
  BY EmptySeq, LenProperties
<1>2. Len(Tail(todo)) = Len(todo) - 1 /\ Len(<<>>) = 0
  BY HeadTailProperties, EmptySeq
<1>3. ASSUME Len(todo) # 1
      PROVE  Tail(todo) # <<>>
  <2>1. Len(Tail(todo)) # 0
    BY <1>1, <1>2, <1>3
  <2>2. QED
    BY <1>2, <2>1, Zenon
<1>4. Head(todo) \in S /\ Tail(todo) \in Seq(S)
  OBVIOUS
<1>5. QED
  BY <1>3, <1>4

LEMMA TearsDown ==
  ASSUME NEW todo \in Seq(TearWrites)
  PROVE  todo \in Seq(Writes)
BY SeqMonotonic DEF Writes

(* The operation.                                                          *)
LEMMA OperationTypes ==
  ASSUME IInv, Visa!TypeOK',
         Operate \/ \E todo \in {SetupOf("VOLT"), SetupOf("CURR"), <<>>} : OpBegins(todo)
  PROVE  IInv'
<1> USE DEF InCall, OpAt, visaVars, Tracking
<1>0. /\ Visa!TypeOK /\ device \in States /\ OpTyped /\ OpOrdered /\ Operator \in Threads
      /\ \A w \in Writes : After(w) \in States
  BY AfterTyped DEF IInv, TypeOK, Threads
<1>1. ASSUME NEW todo \in {SetupOf("VOLT"), SetupOf("CURR"), <<>>}, OpBegins(todo)
      PROVE  IInv'
  <2>1. todo \in Seq(Writes)
    <3>1. SetupOf("VOLT") \in Seq(Writes) /\ SetupOf("CURR") \in Seq(Writes)
      BY TodosTyped
    <3>2. QED
      BY <3>1, EmptySeq
  <2>2. OpTyped' /\ OpOrdered' /\ Others(Operator)
    BY <1>0, <1>1, <2>1 DEF OpBegins, OpTyped, OpOrdered, Others
  <2>3. QED
    BY <1>0, <1>1, <2>2, OpFrame DEF OpBegins
<1>2. CASE OpLooks
  <2>1. CASE Visa!LeaseLooks(Operator, Address) /\ UNCHANGED op
    <3>1. OpTyped' /\ OpOrdered' /\ Others(Operator)
      BY <1>0, <1>2, <2>1, LooksEffect DEF OpLooks, Moves, OpTyped, OpOrdered
    <3>2. QED
      BY <1>0, <1>2, <3>1, OpFrame DEF OpLooks
  <2>2. CASE op' = IdleOp /\ UNCHANGED visaVars
    <3>1. OpTyped' /\ OpOrdered' /\ Others(Operator)
      BY <1>0, <1>2, <2>2 DEF OpLooks, OpTyped, OpOrdered, IdleOp, Others
    <3>2. QED
      BY <1>0, <1>2, <3>1, OpFrame DEF OpLooks
  <2>3. QED
    BY <1>2, <2>1, <2>2 DEF OpLooks
<1>3. CASE OpEnters
  <2>1. Others(Operator) /\ call'[Operator].at = "idle"
    BY <1>0, <1>3, EntersEffect DEF OpEnters, Moves
  <2>2. OpTyped'
    <3>1. CASE op' = IdleOp
      BY <3>1 DEF OpTyped, IdleOp
    <3>2. CASE OpGoes("teardown", Teardown)
      BY <1>0, <3>2, TodosTyped, OpGoesEffect
    <3>3. CASE op.todo # <<>> /\ OpGoes("setup", op.todo)
      <4>1. op.todo \in Seq(Writes)
        BY <1>0 DEF OpTyped
      <4>2. QED
        BY <1>0, <3>3, <4>1, OpGoesEffect
    <3>4. QED
      BY <1>3, <3>1, <3>2, <3>3 DEF OpEnters
  <2>3. OpOrdered'
    BY <2>1 DEF OpOrdered
  <2>4. QED
    BY <1>0, <1>3, <2>1, <2>2, <2>3, OpFrame DEF OpEnters
<1>4. ASSUME NEW r \in Resources, OpWrites(r)
      PROVE  IInv'
  <2>1. op.todo \in Seq(Writes) /\ op.todo # <<>>
    BY <1>0, <1>4 DEF OpWrites, OpTyped
  <2>2. /\ Head(op.todo) \in Writes /\ Tail(op.todo) \in Seq(Writes)
        /\ Len(op.todo) # 1 => Tail(op.todo) # <<>>
    BY <2>1, Rests
  <2>3. device' \in States
    BY <1>0, <1>4, <2>2 DEF OpWrites, Executed
  <2>4. OpTyped'
    BY <1>0, <1>4, <2>2, OpGoesEffect DEF OpWrites
  <2>5. OpOrdered' /\ Others(Operator)
    BY <1>0, <1>4 DEF OpWrites, OpOrdered, Others
  <2>6. QED
    BY <1>0, <1>4, <2>3, <2>4, <2>5, OpFrame DEF OpWrites
<1>5. ASSUME NEW r \in Resources, OpRaises(r)
      PROVE  IInv'
  <2>1. device' \in States
    <3>1. CASE op.at = "setup"
      <4>1. Head(op.todo) \in Writes
        BY <1>0, <3>1, Rests DEF OpTyped
      <4>2. QED
        BY <1>0, <1>5, <3>1, <4>1 DEF OpRaises, Unsure, Executed
    <3>2. QED
      BY <1>0, <1>5, <3>1 DEF OpRaises
  <2>2. OpTyped'
    BY <1>0, <1>5, TodosTyped, OpGoesEffect DEF OpRaises
  <2>3. OpOrdered' /\ Others(Operator)
    BY <1>0, <1>5 DEF OpRaises, Visa!Fails, OpOrdered, Others
  <2>4. QED
    BY <1>0, <1>5, <2>1, <2>2, <2>3, OpFrame DEF OpRaises
<1>6. CASE OpFinishes
  <2>1. OpTyped'
    BY <1>0, <1>6, TodosTyped, OpGoesEffect DEF OpFinishes
  <2>2. OpOrdered' /\ Others(Operator)
    BY <1>0, <1>6 DEF OpFinishes, OpOrdered, Others
  <2>3. QED
    BY <1>0, <1>6, <2>1, <2>2, OpFrame DEF OpFinishes
<1>7. ASSUME NEW r \in Resources, OpTears(r)
      PROVE  IInv'
  <2>1. op.todo \in Seq(TearWrites) /\ op.todo # <<>>
    BY <1>0, <1>7 DEF OpTears, OpTyped
  <2>2. /\ Head(op.todo) \in TearWrites /\ Tail(op.todo) \in Seq(TearWrites)
        /\ Len(op.todo) # 1 => Tail(op.todo) # <<>>
    BY <2>1, Rests
  <2>3. device' \in States
    BY <1>0, <1>7, <2>2 DEF OpTears, Executed, Unsure, Writes
  <2>4. OpTyped'
    <3>1. CASE OpGoes("leave", <<>>)
      BY <1>0, <3>1, EmptySeq, OpGoesEffect
    <3>2. CASE OpGoes(IF Len(op.todo) = 1 THEN "leave" ELSE "teardown", Tail(op.todo))
      BY <1>0, <2>2, <3>2, TearsDown, OpGoesEffect
    <3>3. QED
      BY <1>7, <3>1, <3>2 DEF OpTears
  <2>5. call' = call
    BY <1>7 DEF OpTears, Visa!Fails
  <2>6. OpOrdered' /\ Others(Operator)
    BY <1>0, <1>7, <2>5 DEF OpTears, OpOrdered, Others
  <2>7. QED
    BY <1>0, <1>7, <2>3, <2>4, <2>6, OpFrame DEF OpTears
<1>8. ASSUME NEW r \in Resources, OpLeaves(r)
      PROVE  IInv'
  <2>1. OpTyped' /\ OpOrdered' /\ Others(Operator)
    BY <1>0, <1>8 DEF OpLeaves, Visa!LeaseExits, OpTyped, OpOrdered, IdleOp, Others
  <2>2. QED
    BY <1>0, <1>8, <2>1, OpFrame DEF OpLeaves
<1>9. QED
  BY <1>1, <1>2, <1>3, <1>4, <1>5, <1>6, <1>7, <1>8 DEF Operate

(* Every step keeps the invariant.                                         *)
LEMMA StepTypes ==
  ASSUME IInv, [Next]_vars
  PROVE  IInv'
<1>1. CASE Next
  <2>1. Visa!TypeOK'
    <3>1. Visa!TypeOK
      BY DEF IInv, TypeOK
    <3>2. CASE UNCHANGED visaVars
      BY <3>1, <3>2 DEF visaVars, Visa!TypeOK
    <3>3. QED
      BY <1>1, <3>1, <3>2, SessionStep, SessionTypes
  <2>2. QED
    BY <1>1, <2>1, PreflightTypes, CommandTypes, ConnectionTypes,
       OperationTypes DEF Next
<1>2. CASE UNCHANGED vars
  BY <1>2 DEF vars, visaVars, IInv, TypeOK, Visa!TypeOK, ClientTyped, OpTyped,
     OpOrdered,
     Carries, Ordered, Validated, Definition
<1>3. QED
  BY <1>1, <1>2

(* It holds at the start.                                                  *)
LEMMA InitTypes ==
  ASSUME Init
  PROVE  IInv
<1>1. Visa!TypeOK
  BY DEF Init, Visa!Init, Visa!TypeOK, Visa!Idle
<1>2. Nothing \in States /\ device \in States
  <2>1. AfterReset \in States /\ Nothing \in States
    BY KeyAssumption DEF AfterReset, Nothing, States, Values
  <2>2. QED
    BY <2>1 DEF Init, States, Values
<1>3. ClientTyped
  BY DEF Init, ClientTyped, Idle, Places, Arguments
<1>4. OpTyped /\ OpOrdered
  BY DEF Init, Visa!Init, Visa!Idle, OpTyped, OpOrdered, IdleOp
<1>5. ASSUME NEW c \in Clients
      PROVE  Carries(c) /\ Ordered(c)
  BY DEF Init, Visa!Init, Visa!Idle, Carries, Ordered, Validated, Idle
<1>6. TypeOK
  BY <1>1, <1>2, <1>3, <1>4, Types DEF Init
<1>7. QED
  BY <1>3, <1>4, <1>5, <1>6 DEF IInv

LEMMA Invariance == Spec => []IInv
<1>1. Init => IInv
  BY InitTypes
<1>2. IInv /\ [Next]_vars => IInv'
  BY StepTypes
<1>3. QED
  BY <1>1, <1>2, PTL DEF Spec

(* Sessions, virtual state, instrument and requests keep their types: in   *)
(* particular the virtual state is never told None, or an argument that    *)
(* the preflight refuses, for any number of requests at a time.            *)
THEOREM TypeCorrect == Spec => []TypeOK
<1>1. IInv => TypeOK
  BY DEF IInv
<1>2. QED
  BY <1>1, Invariance, PTL

(* Requests and operations use the session manager as VisaSessions says,   *)
(* so that what is proved of it is true of them.                           *)
THEOREM SessionsImplemented == Spec => Visa!Spec
<1>1. Init => Visa!Init
  BY DEF Init
<1>2. [Next]_vars => [Visa!Next]_(Visa!vars)
  BY SessionStep DEF Visa!Next, Visa!vars, vars, visaVars, Threads
<1>3. QED
  BY <1>1, <1>2, PTL DEF Spec, Visa!Spec

-----------------------------------------------------------------------------
(* One request at a time.                                                  *)

OneClient == \A c, d \in Clients : c = d

Mapped(c) == Validated(c) => mapped

(* A request has the lock of the session that is published, and nobody     *)
(* else's failure reaches it there.                                        *)
Leased(c) ==
  /\ call[c].at = "entering" => call[c].resource = table[Address]
  /\ \A r \in Resources : holder[r] = c =>
       /\ client[c].at \in {"talk", "raise"}
       /\ table[Address] = r
       /\ client[c].at = "talk" => healthy[r]

(* A session that the operation can work with is the one of the address,   *)
(* or one that a disconnect waits to close.                                *)
Kept(r) ==
  /\ healthy[r]
  /\ \/ table[Address] = r
     \/ \E c \in Clients : call[c].at = "closing" /\ call[c].resource = r

OpLeased ==
  /\ call[Operator].at = "entering" =>
       LET r == call[Operator].resource
       IN  opened[r] # "closed" /\ healthy[r] => Kept(r)
  /\ \A r \in Resources : holder[r] = Operator =>
       /\ op.at \in {"setup", "drive", "teardown", "leave"}
       /\ op.at \in {"setup", "drive"} /\ opened[r] # "closed" => Kept(r)
       /\ \A q \in Resources : holder[q] = Operator => q = r

(* Who knows the source mode knows the output: it was set with the output  *)
(* off.                                                                    *)
Known ==
  /\ tracked["output"] \in {"ON", "OFF", Unknown}
  /\ tracked["source_mode"] # Unknown => tracked["output"] # Unknown

ModeSet(c) ==
  Validated(c) /\ "source_mode" \in DOMAIN Definition(c).sets =>
    tracked["output"] # Unknown

(* The virtual state is still the one the preflight saw.                   *)
Preflighted(c) ==
  Validated(c) /\ client[c].at \in {"lease", "talk"} =>
    Accepts(Definition(c), client[c].argument, tracked)

(* The output as the virtual state has it once c has recorded its command. *)
Records(c) ==
  \/ client[c].at = "update" /\ Validated(c)
       /\ "output" \in Changes(Definition(c), client[c].argument)
  \/ client[c].at = "track" /\ "output" \in client[c].todo

Believed(c) ==
  IF Records(c) THEN ValueOf(Definition(c), "output", client[c].argument)
                ELSE tracked["output"]

(* An operation is at work on the session of the address.                  *)
Working ==
  /\ op.at \in {"setup", "drive", "teardown"}
  /\ \E r \in Resources : holder[r] = Operator /\ table[Address] = r

Forgetting(c) == client[c].at \in {"schema", "state", "closing", "clear"}

(* An output that is believed to be off is off, but ...                    *)
Truthful(c) ==
  Believed(c) = "OFF" /\ device["output"] # "OFF" =>
    Working \/ ~Visa!Usable(Address) \/ Forgetting(c)

Of(c) == Mapped(c) /\ Leased(c) /\ ModeSet(c) /\ Preflighted(c) /\ Truthful(c)

SInv == OpLeased /\ Known /\ \A c \in Clients : Of(c)

-----------------------------------------------------------------------------
(* Truthful is kept by a step that leaves sessions, instrument and         *)
(* operation alone and makes nobody believe in an output that is off.      *)
LEMMA TruthStays ==
  ASSUME NEW c \in Clients, Truthful(c), UNCHANGED <<table, healthy, holder, device, op>>,
         Believed(c)' = "OFF" => Believed(c) = "OFF" /\ (Forgetting(c) => Forgetting(c)')
  PROVE  Truthful(c)'
BY DEF Truthful, Working, Visa!Usable, Visa!Published

(* A request without a lease may go on without touching the sessions.      *)
LEMMA LeasesStay ==
  ASSUME SInv, NEW c \in Clients, UNCHANGED <<visaVars, op>>,
         client[c].at \notin {"talk", "raise"}
  PROVE  Leased(c)' /\ OpLeased'
BY DEF SInv, Of, Leased, OpLeased, Kept, visaVars

(* What a request that does not carry a command has to show.               *)
LEMMA Uncommanded ==
  ASSUME NEW c \in Clients, ~Validated(c)'
  PROVE  Mapped(c)' /\ ModeSet(c)' /\ Preflighted(c)'
BY DEF Mapped, ModeSet, Preflighted

(* Where nothing is to be recorded, the virtual state is what is believed. *)
LEMMA NothingToRecord ==
  ASSUME NEW c \in Clients, client[c].at \notin {"update", "track"}
  PROVE  Believed(c) = tracked["output"]
BY DEF Believed, Records

(* The one client there is.                                                *)
LEMMA OneFrame ==
  ASSUME OneClient, NEW c \in Clients, OpLeased', Known', Of(c)'
  PROVE  SInv'
<1>1. \A d \in Clients : d = c
  BY DEF OneClient
<1>2. QED
  BY <1>1 DEF SInv

(* What is believed is true of a request that has a healthy session.       *)
LEMMA TalksTruly ==
  ASSUME SInv, NEW c \in Clients, client[c].at = "talk",
         NEW r \in Resources, holder[r] = c, tracked["output"] = "OFF"
  PROVE  device["output"] = "OFF"
<1>1. Believed(c) = "OFF"
  BY NothingToRecord
<1>2. table[Address] = r /\ healthy[r]
  BY DEF SInv, Of, Leased
<1>3. Visa!Usable(Address)
  BY <1>2, ThreadAssumption DEF Visa!Usable, Visa!Published
<1>4. ~Working
  BY <1>2, ThreadAssumption DEF Working
<1>5. QED
  BY <1>1, <1>3, <1>4 DEF SInv, Of, Truthful, Forgetting

(* Every value is known.                                                   *)
LEMMA ValuesKnown ==
  /\ Unknown # "OFF" /\ Unknown # "ON" /\ Unknown \notin Values
  /\ "output" \in Keys /\ "source_mode" \in Keys
  /\ \A k \in Keys : Nothing[k] = Unknown
BY ThreadAssumption, KeyAssumption DEF Values, Nothing

-----------------------------------------------------------------------------
(* The preflight lets a command through that changes the source mode only  *)
(* when it knows the output to be off.                                     *)
LEMMA PreflightStep ==
  ASSUME OneClient, GuardsTheOutput, IInv, SInv, NEW c \in Clients,
         NEW h \in DOMAIN Schema, NEW a \in Schema[h].arguments, Preflight(c, h, a)
  PROVE  SInv'
<1>1. /\ client[c].at = "idle" /\ mapped /\ Accepts(Schema[h], a, tracked)
      /\ UNCHANGED <<visaVars, mapped, tracked, device, op>>
  BY DEF Preflight, At, Tracking
<1>2. client'[c].at = "lease" /\ client'[c].command = h /\ client'[c].argument = a
  BY Facts, IdleTyped DEF Preflight, ClientTyped
<1>3. Leased(c)' /\ OpLeased' /\ Known'
  BY <1>1, LeasesStay DEF SInv, Known
<1>4. Mapped(c)' /\ Preflighted(c)'
  BY <1>1, <1>2 DEF Mapped, Preflighted, Definition, Accepts, RequirementsMet,
     NotForbidden,
     SequenceAllows, RuleHolds, ArgumentAllowed, ComplianceSet
<1>5. ModeSet(c)'
  <2>1. CASE "source_mode" \in DOMAIN Schema[h].sets
    <3>1. <<"output", "OFF">> \in Schema[h].requires
      BY <2>1 DEF GuardsTheOutput
    <3>2. tracked["output"] = "OFF"
      BY <1>1, <3>1 DEF Accepts, RequirementsMet
    <3>3. QED
      BY <1>1, <3>2, ValuesKnown DEF ModeSet
  <2>2. QED
    BY <1>2, <2>1 DEF ModeSet, Definition
<1>6. Truthful(c)'
  <2>1. Believed(c)' = Believed(c) /\ ~Forgetting(c)
    BY <1>1, <1>2 DEF Believed, Records, Forgetting
  <2>2. QED
    BY <1>1, <2>1, TruthStays DEF SInv, Of, visaVars
<1>7. QED
  BY <1>3, <1>4, <1>5, <1>6, OneFrame DEF Of

(* A step with which a request without a lease goes on, or ends.           *)
LEMMA QuietStep ==
  ASSUME OneClient, IInv, SInv, NEW c \in Clients,
         client[c].at \notin {"talk", "raise", "update", "track", "schema", "state",
                            "closing", "clear"},
         client'[c].at \notin {"update", "track"},
         \/ ~Validated(c)'
         \/ client'[c].at \in {"lease", "talk"} /\ client[c].at = "lease" /\ SameRequest(c),
         UNCHANGED <<mapped, tracked>>, Leased(c)', OpLeased', Truthful(c)'
  PROVE  SInv'
<1>1. Mapped(c)' /\ ModeSet(c)' /\ Preflighted(c)'
  <2>1. CASE ~Validated(c)'
    BY <2>1, Uncommanded
  <2>2. CASE client'[c].at \in {"lease", "talk"} /\ client[c].at = "lease" /\ SameRequest(c)
    <3>1. Validated(c)' = Validated(c) /\ Definition(c)' = Definition(c)
      BY <2>2 DEF SameRequest, Validated, Definition
    <3>2. QED
      BY <2>2, <3>1 DEF SInv, Of, Mapped, ModeSet, Preflighted, SameRequest,
         Accepts,
         RequirementsMet, NotForbidden, SequenceAllows, RuleHolds, ArgumentAllowed,
         ComplianceSet
  <2>3. QED
    BY <2>1, <2>2
<1>2. QED
  BY <1>1, OneFrame DEF SInv, Of, Known

(* The lookup and the lock of the session, and a discovery.                *)
LEMMA LookupStep ==
  ASSUME OneClient, IInv, SInv, NEW c \in Clients,
         Discover(c) \/ CommandLooks(c) \/ CommandEnters(c)
  PROVE  SInv'
<1> USE DEF At, InCall, visaVars, Tracking
<1>0. /\ Visa!TypeOK /\ ClientTyped /\ Carries(c) /\ Ordered(c) /\ c \in Threads
      /\ Of(c) /\ OpLeased /\ \A d \in Clients : d = c
  BY Facts DEF SInv, OneClient
<1>1. c # Operator /\ c # None /\ Operator # None
  BY ThreadAssumption
<1>2. CASE Discover(c)
  <2>1. client'[c].at = "lease" /\ ~Validated(c)' /\ client[c].at = "idle"
    BY <1>0, <1>2, GoesEffect DEF Discover, Carries, Validated, Places, SameRequest
  <2>2. UNCHANGED <<visaVars, mapped, tracked, device, op>>
    BY <1>2 DEF Discover
  <2>3. Leased(c)' /\ OpLeased'
    BY <2>1, <2>2, LeasesStay
  <2>4. Truthful(c)'
    BY <1>0, <2>1, <2>2, TruthStays DEF Believed, Records, Forgetting, Of
  <2>5. QED
    BY <2>1, <2>2, <2>3, <2>4, QuietStep
<1>3. CASE CommandLooks(c)
  <2>1. client[c].at = "lease" /\ UNCHANGED <<mapped, tracked, device, op>>
    BY <1>3 DEF CommandLooks
  <2>2. CASE Visa!LeaseLooks(c, Address) /\ UNCHANGED client
    <3>1. /\ Moves(c, "idle", "entering") /\ call'[c].resource = table[Address]
          /\ UNCHANGED <<table, opened, healthy, holder>>
      BY <1>0, <2>2, LooksEffect
    <3>2. Leased(c)'
      BY <1>0, <2>2, <3>1 DEF Of, Leased
    <3>3. OpLeased'
      BY <1>0, <1>1, <2>1, <3>1 DEF OpLeased, Kept, Moves, Others, Threads
    <3>4. Truthful(c)'
      BY <1>0, <2>1, <2>2, <3>1, TruthStays DEF Of, Believed, Records, Forgetting
    <3>5. QED
      BY <2>1, <2>2, <3>2, <3>3, <3>4, QuietStep DEF SameRequest
  <2>3. CASE Returns(c) /\ UNCHANGED visaVars
    <3>1. client'[c].at = "idle" /\ ~Validated(c)'
      BY <1>0, <2>3, ReturnsEffect DEF Idle, Validated
    <3>2. Leased(c)' /\ OpLeased'
      BY <2>1, <2>3, LeasesStay
    <3>3. Truthful(c)'
      BY <1>0, <2>1, <2>3, <3>1, TruthStays DEF Of, Believed, Records, Forgetting
    <3>4. QED
      BY <2>1, <3>1, <3>2, <3>3, QuietStep
  <2>4. QED
    BY <1>3, <2>2, <2>3 DEF CommandLooks
<1>4. CASE CommandEnters(c)
  <2> DEFINE r == call[c].resource
  <2>1. /\ client[c].at = "lease" /\ UNCHANGED <<mapped, tracked, device, op>>
        /\ Moves(c, "entering", "idle") /\ holder[r] = None
        /\ holder' = IF healthy[r] THEN [holder EXCEPT ![r] = c] ELSE holder
        /\ UNCHANGED <<table, opened, healthy>>
    BY <1>0, <1>4, EntersEffect DEF CommandEnters
  <2>2. r \in Resources /\ r = table[Address]
    BY <1>0, <2>1 DEF Ordered, Of, Leased, Moves
  <2>3. \A q \in Resources : holder'[q] = IF healthy[r] /\ q = r THEN c ELSE holder[q]
    BY <1>0, <2>1, <2>2 DEF Visa!TypeOK
  <2> HIDE DEF r
  <2>4. OpLeased'
    BY <1>0, <1>1, <2>1, <2>3 DEF OpLeased, Kept, Moves, Others, Threads
  <2>5. ~Working
    BY <1>1, <2>1, <2>2 DEF Working
  <2>6. Truthful(c) /\ ~Forgetting(c) /\ Visa!Usable(Address)' = Visa!Usable(Address)
    BY <1>0, <2>1 DEF Of, Forgetting, Visa!Usable, Visa!Published
  <2>7. CASE healthy[r]
    <3>1. Goes(c, "talk")
      BY <1>4, <2>7 DEF CommandEnters, r
    <3>2. client'[c].at = "talk" /\ SameRequest(c)
      BY <1>0, <3>1, GoesEffect DEF Places
    <3>3. Leased(c)'
      BY <1>0, <2>1, <2>2, <2>3, <2>7, <3>2 DEF Of, Leased, Moves
    <3>4. Truthful(c)'
      BY <2>1, <2>5, <2>6, <3>2 DEF Truthful, Believed, Records
    <3>5. QED
      BY <2>1, <2>4, <3>2, <3>3, <3>4, QuietStep
  <2>8. CASE ~healthy[r]
    <3>1. Returns(c)
      BY <1>4, <2>8 DEF CommandEnters, r
    <3>2. client'[c].at = "idle" /\ ~Validated(c)'
      BY <1>0, <3>1, ReturnsEffect DEF Idle, Validated
    <3>3. Leased(c)'
      BY <1>0, <2>1, <2>2, <2>3, <2>8, <3>2 DEF Of, Leased, Moves
    <3>4. Truthful(c)'
      BY <2>1, <2>5, <2>6, <3>2 DEF Truthful, Believed, Records
    <3>5. QED
      BY <2>1, <2>4, <3>2, <3>3, <3>4, QuietStep
  <2>9. QED
    BY <2>7, <2>8
<1>5. QED
  BY <1>2, <1>3, <1>4

(* The write: what it does to the output is what will be recorded, or the  *)
(* session is no longer used.                                              *)
LEMMA TalkStep ==
  ASSUME OneClient, IInv, SInv, NEW c \in Clients, NEW r \in Resources,
         CommandReturns(c, r) \/ CommandRaises(c, r) \/ CommandGivesUp(c, r)
  PROVE  SInv'
<1> USE DEF At, InCall, visaVars, Tracking
<1>0. /\ Visa!TypeOK /\ ClientTyped /\ Carries(c) /\ Ordered(c) /\ c \in Threads
      /\ Of(c) /\ OpLeased /\ Known /\ device \in States
  BY Facts DEF SInv
<1>1. c # Operator /\ c # None /\ Operator # None
  BY ThreadAssumption
<1>2. /\ holder[r] = c /\ table[Address] = r /\ client[c].at \in {"talk", "raise"}
      /\ UNCHANGED <<table, opened, call, mapped, tracked, op>>
    <2>1. holder[r] = c /\ UNCHANGED <<table, opened, call, mapped, tracked, op>>
      BY DEF CommandReturns, CommandRaises, CommandGivesUp, Visa!LeaseExits,
         Visa!Fails
    <2>2. QED
      BY <1>0, <2>1 DEF Of, Leased
<1>3. ~Working /\ ~Forgetting(c) /\ Known'
  BY <1>0, <1>1, <1>2 DEF Working, Forgetting, Known
<1>4. \A q \in Resources : holder[q] = c => q = r
  BY <1>0, <1>2 DEF Of, Leased
<1>5. CASE CommandReturns(c, r)
  <2>1. /\ client'[c].at = "update" /\ SameRequest(c) /\ client[c].at = "talk"
        /\ device' = Sent(c) /\ healthy' = healthy
        /\ holder' = [holder EXCEPT ![r] = None]
    BY <1>0, <1>5, GoesEffect DEF CommandReturns, Executed, Visa!LeaseExits, Places
  <2>2. Leased(c)' /\ OpLeased'
    BY <1>0, <1>1, <1>2, <1>4, <2>1 DEF Of, Leased, OpLeased, Kept, Visa!TypeOK,
       Ordered
  <2>3. Validated(c)' = Validated(c) /\ Definition(c)' = Definition(c)
    BY <2>1 DEF SameRequest, Validated, Definition
  <2>4. Mapped(c)' /\ ModeSet(c)' /\ Preflighted(c)'
    BY <1>0, <1>2, <2>1, <2>3 DEF Of, Mapped, ModeSet, Preflighted
  <2>5. Truthful(c)'
    <3>1. CASE Validated(c) /\ "output" \in Changes(Definition(c), client[c].argument)
      <4>1. Believed(c)' = ValueOf(Definition(c), "output", client[c].argument)
        BY <2>1, <2>3, <3>1 DEF Believed, Records, SameRequest, Changes, ValueOf
      <4>2. device'["output"] = ValueOf(Definition(c), "output", client[c].argument)
        BY <2>1, <3>1, ValuesKnown DEF Sent, Apply, Definition
      <4>3. QED
        BY <4>1, <4>2 DEF Truthful
    <3>2. CASE ~(Validated(c) /\ "output" \in Changes(Definition(c), client[c].argument))
      <4>1. Believed(c)' = tracked["output"]
        BY <1>2, <2>1, <2>3, <3>2 DEF Believed, Records, SameRequest, Changes,
           ValueOf
      <4>2. device'["output"] = device["output"]
        BY <2>1, <3>2, ValuesKnown DEF Sent, Apply, Definition
      <4>3. tracked["output"] = "OFF" => device["output"] = "OFF"
        BY <1>2, <2>1, TalksTruly
      <4>4. QED
        BY <4>1, <4>2, <4>3 DEF Truthful
    <3>3. QED
      BY <3>1, <3>2
  <2>6. QED
    BY <1>3, <2>2, <2>4, <2>5, OneFrame DEF Of
<1>6. CASE CommandRaises(c, r)
  <2>1. /\ client'[c].at = "raise" /\ SameRequest(c) /\ client[c].at = "talk"
        /\ healthy' = [healthy EXCEPT ![r] = FALSE] /\ holder' = holder
    BY <1>0, <1>6, GoesEffect DEF CommandRaises, Visa!Fails, Places
  <2>2. Leased(c)' /\ OpLeased'
    BY <1>0, <1>1, <1>2, <1>4, <2>1 DEF Of, Leased, OpLeased, Kept, Visa!TypeOK,
       Ordered
  <2>3. Validated(c)' = Validated(c) /\ Definition(c)' = Definition(c)
    BY <2>1 DEF SameRequest, Validated, Definition
  <2>4. Mapped(c)' /\ ModeSet(c)' /\ Preflighted(c)'
    BY <1>0, <1>2, <2>1, <2>3 DEF Of, Mapped, ModeSet, Preflighted
  <2>5. ~Visa!Usable(Address)'
    BY <1>0, <1>2, <2>1 DEF Visa!Usable, Visa!TypeOK
  <2>6. QED
    BY <1>3, <2>2, <2>4, <2>5, OneFrame DEF Of, Truthful
<1>7. CASE CommandGivesUp(c, r)
  <2>1. /\ client'[c] = Idle /\ client[c].at = "raise"
        /\ healthy' = healthy /\ device' = device
        /\ holder' = [holder EXCEPT ![r] = None]
    BY <1>0, <1>7, ReturnsEffect DEF CommandGivesUp, Visa!LeaseExits
  <2>2. client'[c].at = "idle" /\ ~Validated(c)'
    BY <2>1 DEF Idle, Validated
  <2>3. Leased(c)' /\ OpLeased'
    BY <1>0, <1>1, <1>2, <1>4, <2>1, <2>2 DEF Of, Leased, OpLeased, Kept,
       Visa!TypeOK, Ordered
  <2>4. Believed(c)' = Believed(c)
    BY <1>2, <2>1, <2>2 DEF Believed, Records
  <2>5. Truthful(c)'
    BY <1>0, <1>2, <1>3, <2>1, <2>4 DEF Of, Truthful, Visa!Usable, Visa!Published
  <2>6. QED
    BY <1>3, <2>2, <2>3, <2>5, Uncommanded, OneFrame DEF Of
<1>8. QED
  BY <1>5, <1>6, <1>7

(* The update of the virtual state, key by key.                            *)
LEMMA UpdateStep ==
  ASSUME OneClient, IInv, SInv, NEW c \in Clients,
         Updates(c) \/ CommandEnds(c) \/ \E k \in Keys : Tracks(c, k)
  PROVE  SInv'
<1> USE DEF At, InCall, visaVars, Tracking
<1>0. /\ ClientTyped /\ Carries(c) /\ Of(c) /\ OpLeased /\ Known /\ tracked \in States
  BY Facts DEF SInv
<1>1. UNCHANGED <<visaVars, device, op, mapped>> /\ client[c].at \in {"update", "track"}
  BY DEF Updates, CommandEnds, Tracks
<1>2. Leased(c)' /\ OpLeased' /\ ~Forgetting(c)
  BY <1>1, LeasesStay DEF Forgetting
<1>3. CASE Updates(c)
  <2>1. /\ client[c].at = "update" /\ client'[c].at = "track" /\ tracked' = tracked
        /\ client'[c].command = client[c].command
        /\ client'[c].argument = client[c].argument
        /\ client'[c].todo = IF mapped /\ Validated(c)
                               THEN Changes(Definition(c), client[c].argument) ELSE {}
    BY <1>0, <1>3 DEF Updates, ClientTyped, Definition
  <2>2. Validated(c)' = Validated(c) /\ Definition(c)' = Definition(c)
    BY <2>1 DEF Validated, Definition
  <2>3. Mapped(c)' /\ ModeSet(c)' /\ Preflighted(c)' /\ Known'
    BY <1>0, <1>1, <2>1, <2>2 DEF Of, Mapped, ModeSet, Preflighted, Known
  <2>4. Records(c)' <=> Records(c)
    BY <1>0, <2>1 DEF Records, Of, Mapped
  <2>5. Believed(c)' = Believed(c)
    BY <2>1, <2>2, <2>4 DEF Believed, ValueOf
  <2>6. Truthful(c)'
    BY <1>0, <1>1, <1>2, <2>5, TruthStays DEF Of
  <2>7. QED
    BY <1>2, <2>3, <2>6, OneFrame DEF Of
<1>4. ASSUME NEW k \in Keys, Tracks(c, k)
      PROVE  SInv'
  <2> DEFINE value == ValueOf(Definition(c), k, client[c].argument)
  <2>1. /\ client[c].at = "track" /\ client'[c].at = "track" /\ k \in client[c].todo
        /\ client'[c].command = client[c].command
        /\ client'[c].argument = client[c].argument
        /\ client'[c].todo = client[c].todo \ {k}
        /\ tracked' = [tracked EXCEPT ![k] = value]
    BY <1>0, <1>4 DEF Tracks, ClientTyped, Definition
  <2>2. Validated(c)' = Validated(c) /\ Definition(c)' = Definition(c)
    BY <2>1 DEF Validated, Definition
  <2>3. /\ Validated(c) /\ client[c].command \in DOMAIN Schema
        /\ client[c].argument \in Definition(c).arguments
        /\ ArgumentAllowed(Definition(c), client[c].argument)
        /\ k \in Changes(Definition(c), client[c].argument)
    BY <1>0, <2>1 DEF Carries, Validated, ClientTyped
  <2>4. value \in Values /\ (k = "output" => value \in {"ON", "OFF"})
    BY <2>3, ValuesSet DEF Definition
  <2>5. k = "source_mode" => tracked["output"] # Unknown
    BY <1>0, <2>3 DEF Of, ModeSet, Changes
  <2>6. \A q \in Keys : tracked'[q] = IF q = k THEN value ELSE tracked[q]
    BY <1>0, <2>1 DEF States
  <2> HIDE DEF value
  <2>7. Known' /\ (tracked["output"] # Unknown => tracked'["output"] # Unknown)
    BY <1>0, <2>4, <2>5, <2>6, ValuesKnown DEF Known
  <2>8. Mapped(c)' /\ ModeSet(c)' /\ Preflighted(c)'
    BY <1>0, <1>1, <2>1, <2>2, <2>7 DEF Of, Mapped, ModeSet, Preflighted
  <2>9. Believed(c)' = Believed(c)
    <3>1. CASE k = "output"
      <4>1. ~Records(c)' /\ Records(c)
        BY <2>1, <3>1 DEF Records
      <4>2. QED
        BY <2>6, <3>1, <4>1 DEF Believed, value
    <3>2. CASE k # "output"
      <4>1. Records(c)' <=> Records(c)
        BY <2>1, <3>2 DEF Records
      <4>2. QED
        BY <2>1, <2>2, <2>6, <3>2, <4>1, ValuesKnown DEF Believed, ValueOf
    <3>3. QED
      BY <3>1, <3>2
  <2>10. Truthful(c)'
    BY <1>0, <1>1, <1>2, <2>9, TruthStays DEF Of
  <2>11. QED
    BY <1>2, <2>7, <2>8, <2>10, OneFrame DEF Of
<1>5. CASE CommandEnds(c)
  <2>1. client'[c] = Idle /\ client[c].at = "track" /\ client[c].todo = {}
        /\ tracked' = tracked
    BY <1>0, <1>5, ReturnsEffect DEF CommandEnds
  <2>2. client'[c].at = "idle" /\ ~Validated(c)' /\ Known'
    BY <1>0, <2>1 DEF Idle, Validated, Known
  <2>3. Believed(c)' = Believed(c)
    BY <2>1, <2>2 DEF Believed, Records
  <2>4. Truthful(c)'
    BY <1>0, <1>1, <1>2, <2>3, TruthStays DEF Of
  <2>5. QED
    BY <1>2, <2>2, <2>4, Uncommanded, OneFrame DEF Of
<1>6. QED
  BY <1>3, <1>4, <1>5

-----------------------------------------------------------------------------
(* A call of a request outside a lease takes no session away from the      *)
(* operation: a connect replaces only one that cannot be used, a disconnect*)
(* waits for the one it closes.                                            *)
LEMMA OpLeaseStays ==
  ASSUME OneClient, IInv, SInv, NEW c \in Clients, UNCHANGED <<healthy, holder, op>>,
         Others(c), call[c].at # "closing",
         table' = table \/ ~Visa!Usable(Address),
         \A r \in Resources : opened[r] = "closed" => opened'[r] = "closed"
  PROVE  OpLeased'
<1>1. call'[Operator] = call[Operator]
  BY ThreadAssumption DEF Others, Threads
<1>2. ASSUME NEW r \in Resources, Kept(r)
      PROVE  Kept(r)'
  <2>1. \A d \in Clients : call[d].at # "closing"
    BY DEF OneClient
  <2>2. table[Address] = r /\ healthy[r]
    BY <1>2, <2>1 DEF Kept
  <2>3. Visa!Usable(Address)
    BY <2>2, ThreadAssumption DEF Visa!Usable, Visa!Published
  <2>4. QED
    BY <2>2, <2>3 DEF Kept
<1>3. call[Operator].at = "entering" => call[Operator].resource \in Resources
  BY DEF IInv, OpOrdered
<1>4. QED
  BY <1>1, <1>2, <1>3 DEF SInv, OpLeased

(* Who has no lease has none after a step that gives it none.              *)
LEMMA NoLease ==
  ASSUME SInv, NEW c \in Clients, UNCHANGED holder, call'[c].at # "entering",
         client[c].at \notin {"talk", "raise"}
  PROVE  Leased(c)'
BY DEF SInv, Of, Leased

(* connect, up to the end of the call of the session manager.              *)
LEMMA ConnectStep ==
  ASSUME OneClient, IInv, SInv, NEW c \in Clients,
         ConnectBegins(c) \/ ConnectProceeds(c)
  PROVE  SInv'
<1> USE DEF At, InCall, visaVars, Tracking
<1>0. /\ Visa!TypeOK /\ ClientTyped /\ Carries(c) /\ Ordered(c) /\ c \in Threads
      /\ Of(c)
  BY Facts DEF SInv
<1>1. /\ client[c].at \in {"idle", "reopen", "connect"} /\ ~Validated(c)
      /\ call[c].at # "closing" /\ UNCHANGED <<mapped, tracked, device, op>>
  BY <1>0 DEF ConnectBegins, ConnectProceeds, Carries, Ordered
<1>2. ASSUME NEW place \in {"connect", "schema"}, Goes(c, place)
      PROVE  client'[c].at = place /\ ~Validated(c)'
  BY <1>0, <1>1, <1>2, GoesEffect DEF SameRequest, Validated, Places
<1>3. CASE ConnectBegins(c)
  <2>1. CASE Visa!ConnectLooks(c, Address) /\ Goes(c, "connect")
    <3>1. Moves(c, "idle", "opening") /\ UNCHANGED <<table, opened, healthy, holder>>
      BY <1>0, <2>1, ConnectLooksEffect
    <3>2. Leased(c)' /\ OpLeased'
      BY <1>1, <3>1, NoLease, OpLeaseStays DEF Moves
    <3>3. Truthful(c)'
      BY <1>0, <1>1, <1>2, <2>1, <3>1, TruthStays DEF Of, Believed, Records,
         Forgetting
    <3>4. QED
      BY <1>1, <1>2, <2>1, <3>2, <3>3, QuietStep
  <2>2. CASE Goes(c, "schema") /\ UNCHANGED visaVars
    <3>1. Leased(c)' /\ OpLeased'
      BY <1>1, <2>2, LeasesStay
    <3>2. Truthful(c)'
      BY <1>2, <2>2 DEF Truthful, Forgetting
    <3>3. QED
      BY <1>1, <1>2, <2>2, <3>1, <3>2, QuietStep
  <2>3. QED
    BY <1>3, <2>1, <2>2 DEF ConnectBegins
<1>4. CASE ConnectProceeds(c)
  <2>1. ASSUME NEW r \in Resources, Visa!ConnectOpens(c, r), UNCHANGED client
        PROVE  SInv'
    <3>1. /\ Moves(c, "opening", "identifying") /\ UNCHANGED <<table, healthy, holder>>
          /\ opened[r] = "unused" /\ opened' = [opened EXCEPT ![r] = "open"]
      BY <1>0, <2>1, OpensEffect
    <3>2. \A q \in Resources : opened[q] = "closed" => opened'[q] = "closed"
      BY <1>0, <3>1 DEF Visa!TypeOK
    <3>3. Leased(c)' /\ OpLeased'
      BY <1>1, <3>1, <3>2, NoLease, OpLeaseStays DEF Moves
    <3>4. Truthful(c)'
      BY <1>0, <1>1, <2>1, <3>1, TruthStays DEF Of, Believed, Records, Forgetting
    <3>5. QED
      BY <1>1, <2>1, <3>3, <3>4, QuietStep DEF Validated
  <2>2. CASE (Visa!OpenFails(c) \/ Visa!IdentifyFails(c)) /\ Returns(c)
    <3>1. /\ call'[c].at = "idle" /\ Others(c) /\ UNCHANGED <<table, healthy, holder>>
          /\ \A r \in Resources : opened'[r] \in {opened[r], "closed"}
      BY <1>0, <2>2, ConnectFailsEffect
    <3>2. client'[c].at = "idle" /\ ~Validated(c)'
      BY <1>0, <2>2, ReturnsEffect DEF Idle, Validated
    <3>3. Leased(c)' /\ OpLeased'
      BY <1>1, <3>1, NoLease, OpLeaseStays
    <3>4. Truthful(c)'
      BY <1>0, <1>1, <3>1, <3>2, TruthStays DEF Of, Believed, Records, Forgetting
    <3>5. QED
      BY <1>1, <3>2, <3>3, <3>4, QuietStep
  <2>3. CASE Visa!ConnectPublishes(c) /\ Goes(c, "schema")
    <3>1. /\ Moves(c, "identifying", "idle") /\ UNCHANGED <<healthy, holder>>
          /\ \A r \in Resources : opened'[r] \in {opened[r], "closed"}
          /\ table' = table \/ ~Visa!Usable(Address)
      BY <1>0, <2>3, PublishesEffect
    <3>2. Leased(c)' /\ OpLeased'
      BY <1>1, <3>1, NoLease, OpLeaseStays DEF Moves
    <3>3. Truthful(c)'
      BY <1>2, <2>3 DEF Truthful, Forgetting
    <3>4. QED
      BY <1>1, <1>2, <2>3, <3>2, <3>3, QuietStep
  <2>4. QED
    BY <1>4, <2>1, <2>2, <2>3 DEF ConnectProceeds
<1>5. QED
  BY <1>3, <1>4

(* Who forgets the state, or maps the address again, believes nothing that *)
(* is wrong.                                                               *)
LEMMA ForgetStep ==
  ASSUME OneClient, IInv, SInv, NEW c \in Clients,
         ConnectMaps(c) \/ ConnectForgets(c) \/ DisconnectClears(c)
  PROVE  SInv'
<1> USE DEF At, InCall, visaVars, Tracking
<1>0. /\ ClientTyped /\ Carries(c) /\ Of(c) /\ Known
  BY Facts DEF SInv
<1>1. /\ client[c].at \in {"schema", "state", "clear"} /\ ~Validated(c)
      /\ UNCHANGED <<visaVars, device, op>> /\ tracked' \in {tracked, Nothing}
  BY <1>0 DEF ConnectMaps, ConnectForgets, DisconnectClears, Carries
<1>2. Leased(c)' /\ OpLeased'
  BY <1>1, LeasesStay
<1>3. Known'
  BY <1>0, <1>1, ValuesKnown DEF Known
<1>4. /\ client'[c].at \in {"idle", "state", "reopen"} /\ ~Validated(c)'
      /\ client'[c].at = "state" \/ tracked' = Nothing
  <2>1. CASE Returns(c)
    <3>1. client'[c].at = "idle" /\ ~Validated(c)'
      BY <1>0, <2>1, ReturnsEffect DEF Idle, Validated
    <3>2. tracked' = Nothing
      <4>1. ~Goes(c, "state")
        BY <1>0, <3>1, GoesEffect DEF Places
      <4>2. QED
        BY <4>1 DEF ConnectMaps, ConnectForgets, DisconnectClears
    <3>3. QED
      BY <3>1, <3>2
  <2>2. CASE Goes(c, "state")
    BY <1>0, <1>1, <2>2, GoesEffect DEF Places, SameRequest, Validated
  <2>3. CASE Goes(c, "reopen") /\ tracked' = Nothing
    BY <1>0, <1>1, <2>3, GoesEffect DEF Places, SameRequest, Validated
  <2>4. QED
    BY <2>1, <2>2, <2>3 DEF ConnectMaps, ConnectForgets, DisconnectClears
<1>5. Truthful(c)'
  <2>1. CASE client'[c].at = "state"
    BY <2>1 DEF Truthful, Forgetting
  <2>2. CASE tracked' = Nothing
    BY <1>4, <2>2, ValuesKnown DEF Truthful, Believed, Records
  <2>3. QED
    BY <1>4, <2>1, <2>2
<1>6. QED
  BY <1>2, <1>3, <1>4, <1>5, Uncommanded, OneFrame DEF Of

(* disconnect, up to the close of the session.                             *)
LEMMA DisconnectStep ==
  ASSUME OneClient, IInv, SInv, NEW c \in Clients,
         \/ \E again \in BOOLEAN : DisconnectChecks(c, again)
         \/ DisconnectRemoves(c)
         \/ \E closed \in BOOLEAN : DisconnectCloses(c, closed)
  PROVE  SInv'
<1> USE DEF At, InCall, visaVars, Tracking
<1>0. /\ Visa!TypeOK /\ ClientTyped /\ Carries(c) /\ Ordered(c) /\ c \in Threads
      /\ Of(c) /\ OpLeased /\ Known /\ OpOrdered /\ \A d \in Clients : d = c
  BY Facts DEF SInv, IInv, OneClient
<1>1. c # Operator
  BY ThreadAssumption
<1>2. ASSUME NEW again \in BOOLEAN, DisconnectChecks(c, again)
      PROVE  SInv'
  <2>1. /\ client[c].at = "idle" /\ client'[c].at = "checked"
        /\ client'[c].command = client[c].command
        /\ UNCHANGED <<visaVars, mapped, tracked, device, op>>
    <3>1. client'[c].at = "checked" /\ SameRequest(c)
      BY <1>2, Facts, AgainEffect DEF DisconnectChecks, Places
    <3>2. QED
      BY <1>2, <3>1 DEF DisconnectChecks, SameRequest
  <2>2. ~Validated(c)'
    BY <1>0, <2>1 DEF Carries, Validated
  <2>3. Leased(c)' /\ OpLeased'
    BY <2>1, LeasesStay
  <2>4. Truthful(c)'
    BY <1>0, <2>1, TruthStays DEF Of, Believed, Records, Forgetting
  <2>5. QED
    BY <2>1, <2>2, <2>3, <2>4, QuietStep
<1>3. CASE DisconnectRemoves(c)
  <2>1. /\ client[c].at = "checked" /\ ~Validated(c)
        /\ UNCHANGED <<mapped, tracked, device, op>>
    BY <1>0, <1>3 DEF DisconnectRemoves, Carries
  <2>2. ASSUME NEW place \in {"closing", "clear"}, Goes(c, place)
        PROVE  client'[c].at = place /\ ~Validated(c)' /\ Truthful(c)'
    BY <1>0, <2>1, <2>2, GoesEffect DEF SameRequest, Validated, Places, Truthful,
       Forgetting
  <2>3. CASE Visa!DisconnectPops(c, Address) /\ Goes(c, "closing")
    <3>1. /\ Moves(c, "idle", "closing") /\ call'[c].resource = table[Address]
          /\ UNCHANGED <<opened, healthy, holder>>
      BY <1>0, <2>3, PopsEffect
    <3>2. Leased(c)'
      BY <2>1, <3>1, NoLease DEF Moves
    <3>3. ASSUME NEW r \in Resources, Kept(r)
          PROVE  Kept(r)'
      BY <1>0, <3>1, <3>3 DEF Kept, Moves
    <3>4. OpLeased'
      BY <1>0, <1>1, <2>1, <3>1, <3>3 DEF OpLeased, OpOrdered, Moves, Others,
         Threads
    <3>5. QED
      BY <2>1, <2>2, <2>3, <3>2, <3>4, QuietStep
  <2>4. CASE Goes(c, "clear") /\ UNCHANGED visaVars
    <3>1. Leased(c)' /\ OpLeased'
      BY <2>1, <2>4, LeasesStay
    <3>2. QED
      BY <2>1, <2>2, <2>4, <3>1, QuietStep
  <2>5. CASE Returns(c) /\ UNCHANGED visaVars
    <3>1. client'[c].at = "idle" /\ ~Validated(c)'
      BY <1>0, <2>5, ReturnsEffect DEF Idle, Validated
    <3>2. Leased(c)' /\ OpLeased'
      BY <2>1, <2>5, LeasesStay
    <3>3. Truthful(c)'
      BY <1>0, <2>1, <2>5, <3>1, TruthStays DEF Of, Believed, Records, Forgetting
    <3>4. QED
      BY <2>1, <3>1, <3>2, <3>3, QuietStep
  <2>6. QED
    BY <1>3, <2>3, <2>4, <2>5 DEF DisconnectRemoves
<1>4. ASSUME NEW closed \in BOOLEAN, DisconnectCloses(c, closed)
      PROVE  SInv'
  <2> DEFINE r == call[c].resource
  <2>1. /\ client[c].at = "closing" /\ client'[c].at = "clear"
        /\ client'[c].command = client[c].command
        /\ UNCHANGED <<mapped, tracked, device, op>>
    <3>1. client'[c].at = "clear" /\ SameRequest(c)
      BY <1>4, Facts, AgainEffect DEF DisconnectCloses, Places
    <3>2. QED
      BY <1>4, <3>1 DEF DisconnectCloses, SameRequest
  <2>2. /\ Moves(c, "closing", "idle") /\ holder[r] = None
        /\ opened' = [opened EXCEPT ![r] = "closed"]
        /\ UNCHANGED <<table, healthy, holder>>
    BY <1>0, <1>4, ClosesEffect DEF DisconnectCloses
  <2>3. ~Validated(c)'
    BY <1>0, <2>1 DEF Carries, Validated
  <2>4. Leased(c)'
    BY <2>1, <2>2, NoLease DEF Moves
  <2>5. ASSUME NEW q \in Resources, opened'[q] # "closed"
        PROVE  opened[q] # "closed" /\ (Kept(q) => Kept(q)')
    <3>1. q # r /\ opened[q] # "closed"
      BY <1>0, <2>2, <2>5 DEF Visa!TypeOK
    <3>2. QED
      BY <1>0, <2>2, <3>1 DEF Kept
  <2>6. OpLeased'
    BY <1>0, <1>1, <2>1, <2>2, <2>5 DEF OpLeased, OpOrdered, Moves, Others, Threads
  <2>7. Truthful(c)' /\ Known'
    BY <1>0, <2>1 DEF Truthful, Forgetting, Known
  <2>8. QED
    BY <2>3, <2>4, <2>6, <2>7, Uncommanded, OneFrame DEF Of
<1>5. QED
  BY <1>2, <1>3, <1>4

-----------------------------------------------------------------------------
(* The operation.                                                          *)

LEMMA OpOneFrame ==
  ASSUME SInv, UNCHANGED <<mapped, tracked, client>>, OpLeased',
         \A c \in Clients : Leased(c)' /\ Truthful(c)'
  PROVE  SInv'
<1>1. ASSUME NEW c \in Clients
      PROVE  Mapped(c)' /\ ModeSet(c)' /\ Preflighted(c)'
  BY DEF SInv, Of, Mapped, ModeSet, Preflighted, Validated, Definition, Accepts,
     RequirementsMet, NotForbidden, SequenceAllows, RuleHolds, ArgumentAllowed, ComplianceSet
<1>2. QED
  BY <1>1 DEF SInv, Of, Known

(* It takes no lease from a request, and fails no session a request has.   *)
LEMMA OthersLeases ==
  ASSUME SInv, UNCHANGED <<table, client>>, Others(Operator), NEW c \in Clients,
         \A r \in Resources : holder'[r] = c => holder[r] = c /\ healthy'[r] = healthy[r]
  PROVE  Leased(c)'
<1>1. call'[c] = call[c]
  BY ThreadAssumption DEF Others, Threads
<1>2. QED
  BY <1>1 DEF SInv, Of, Leased

(* What is believed does not depend on it.                                 *)
LEMMA BeliefStays ==
  ASSUME UNCHANGED <<tracked, client>>, NEW c \in Clients
  PROVE  Believed(c)' = Believed(c) /\ Forgetting(c)' = Forgetting(c)
BY DEF Believed, Records, Validated, Definition, Forgetting

(* It comes and goes where it is not at work.                              *)
LEMMA IdleStep ==
  ASSUME SInv, UNCHANGED <<mapped, tracked, client, table, healthy, device>>, ~Working,
         OpLeased', Others(Operator),
         \A c \in Clients, r \in Resources : holder'[r] = c => holder[r] = c
  PROVE  SInv'
<1>1. ASSUME NEW c \in Clients
      PROVE  Leased(c)' /\ Truthful(c)'
  <2>1. Leased(c)'
    BY OthersLeases
  <2>2. Truthful(c)'
    BY BeliefStays DEF SInv, Of, Truthful, Visa!Usable, Visa!Published
  <2>3. QED
    BY <2>1, <2>2
<1>2. QED
  BY <1>1, OpOneFrame

(* At work on a session that is not the one of the address, it does so     *)
(* while a disconnect forgets the state.                                   *)
LEMMA WorkingOrForgetting ==
  ASSUME OneClient, IInv, NEW r \in Resources, Kept(r), NEW c \in Clients
  PROVE  table[Address] = r \/ Forgetting(c)
<1>1. \A d \in Clients : d = c /\ Ordered(d)
  BY DEF OneClient, IInv
<1>2. QED
  BY <1>1 DEF Kept, Ordered, Forgetting

(* A write of the operation that fails makes its session unusable; the one *)
(* that turned the output on did so on the session of the address, or      *)
(* while a disconnect forgets the state.                                   *)
LEMMA FailureStep ==
  ASSUME OneClient, IInv, SInv, NEW r \in Resources, Visa!Fails(Operator, r),
         UNCHANGED <<mapped, tracked, client>>,
         op.at \in {"setup", "drive", "teardown"}, op'.at \in {"teardown", "leave"},
         call[Operator].at = "idle",
         device'["output"] \in {"OFF", device["output"]} \/ Kept(r)
  PROVE  SInv'
<1>1. /\ holder[r] = Operator /\ UNCHANGED <<table, opened, holder, call>>
      /\ \A q \in Resources : healthy'[q] = IF q = r THEN FALSE ELSE healthy[q]
      /\ table[Address] \in Resources \union {None}
  BY DEF IInv, TypeOK, Visa!TypeOK, Visa!Fails
<1>2. \A q \in Resources : holder[q] = Operator => q = r
  BY <1>1 DEF SInv, OpLeased
<1>3. OpLeased'
  BY <1>1, <1>2 DEF OpLeased
<1>4. ASSUME NEW c \in Clients
      PROVE  Leased(c)' /\ Truthful(c)'
  <2>1. Leased(c)'
    <3>1. c # Operator
      BY ThreadAssumption
    <3>2. QED
      BY <1>1, <3>1, OthersLeases DEF Others
  <2>2. Truthful(c)'
    <3>1. CASE table[Address] = r
      <4>1. ~Visa!Usable(Address)'
        BY <1>1, <3>1 DEF Visa!Usable
      <4>2. QED
        BY <4>1 DEF Truthful
    <3>2. CASE table[Address] # r /\ Kept(r)
      BY <3>2, WorkingOrForgetting, BeliefStays DEF Truthful
    <3>3. CASE table[Address] # r /\ device'["output"] \in {"OFF", device["output"]}
      <4>1. ~Working
        BY <1>2, <3>3 DEF Working
      <4>2. ~Visa!Usable(Address) => ~Visa!Usable(Address)'
        BY <1>1 DEF Visa!Usable, Visa!Published
      <4>3. QED
        BY <3>3, <4>1, <4>2, BeliefStays DEF SInv, Of, Truthful
    <3>4. QED
      BY <3>1, <3>2, <3>3
  <2>3. QED
    BY <2>1, <2>2
<1>5. QED
  BY <1>1, <1>3, <1>4, OpOneFrame

LEMMA OperationStep ==
  ASSUME OneClient, IInv, SInv,
         Operate \/ \E todo \in {SetupOf("VOLT"), SetupOf("CURR"), <<>>} : OpBegins(todo)
  PROVE  SInv'
<1> USE DEF InCall, OpAt, visaVars, Tracking
<1>0. /\ Visa!TypeOK /\ device \in States /\ OpTyped /\ OpOrdered /\ Operator \in Threads
      /\ OpLeased /\ \A w \in Writes : After(w) \in States
  BY AfterTyped DEF IInv, TypeOK, Threads, SInv
<1>1. \A c \in Clients : c # Operator /\ c # None
  BY ThreadAssumption
<1>2. ASSUME NEW todo \in {SetupOf("VOLT"), SetupOf("CURR"), <<>>}, OpBegins(todo)
      PROVE  SInv'
  <2>1. /\ op.at = "idle" /\ op'.at = "lease"
        /\ UNCHANGED <<visaVars, mapped, tracked, device, client>>
    BY <1>2 DEF OpBegins
  <2>2. ~Working /\ OpLeased' /\ Others(Operator)
    BY <1>0, <2>1 DEF Working, OpLeased, OpOrdered, Others
  <2>3. QED
    BY <2>1, <2>2, IdleStep
<1>3. CASE OpLooks
  <2>1. /\ op.at = "lease" /\ call[Operator].at = "idle"
        /\ UNCHANGED <<mapped, tracked, device, client>>
    BY <1>3 DEF OpLooks
  <2>2. ~Working
    BY <2>1 DEF Working
  <2>3. CASE Visa!LeaseLooks(Operator, Address) /\ UNCHANGED op
    <3>1. /\ Moves(Operator, "idle", "entering") /\ call'[Operator].resource = table[Address]
          /\ UNCHANGED <<table, opened, healthy, holder>>
      BY <1>0, <2>3, LooksEffect
    <3>2. OpLeased'
      BY <1>0, <2>1, <2>3, <3>1 DEF OpLeased, Kept
    <3>3. QED
      BY <2>1, <2>2, <3>1, <3>2, IdleStep DEF Moves
  <2>4. CASE op' = IdleOp /\ UNCHANGED visaVars
    <3>1. OpLeased' /\ Others(Operator)
      BY <1>0, <2>1, <2>4 DEF OpLeased, Others
    <3>2. QED
      BY <2>1, <2>2, <2>4, <3>1, IdleStep
  <2>5. QED
    BY <1>3, <2>3, <2>4 DEF OpLooks
<1>4. CASE OpEnters
  <2> DEFINE r == call[Operator].resource
  <2>1. /\ Moves(Operator, "entering", "idle") /\ holder[r] = None
        /\ holder' = IF healthy[r] THEN [holder EXCEPT ![r] = Operator] ELSE holder
        /\ UNCHANGED <<table, opened, healthy, mapped, tracked, device, client>>
    BY <1>0, <1>4, EntersEffect DEF OpEnters
  <2>2. op.at = "lease" /\ r \in Resources
    BY <1>0, <2>1 DEF OpOrdered, Moves
  <2>3. \A q \in Resources : holder'[q] = IF healthy[r] /\ q = r THEN Operator ELSE holder[q]
    BY <1>0, <2>1, <2>2 DEF Visa!TypeOK
  <2>4. \A q \in Resources : holder[q] # Operator
    BY <1>0, <2>2 DEF OpLeased
  <2>5. healthy[r] => op'.at \in {"setup", "teardown"}
    BY <1>0, <1>4 DEF OpEnters, OpGoes, OpTyped
  <2>6. opened[r] # "closed" /\ healthy[r] => Kept(r)
    BY <1>0, <2>1 DEF OpLeased, Moves
  <2> HIDE DEF r
  <2>7. ASSUME NEW q \in Resources, Kept(q)
        PROVE  Kept(q)'
    BY <1>1, <2>1, <2>7 DEF Kept, Moves, Others, Threads
  <2>8. OpLeased'
    BY <2>1, <2>2, <2>3, <2>4, <2>5, <2>6, <2>7 DEF OpLeased, Moves
  <2>9. ~Working
    BY <2>2 DEF Working
  <2>10. QED
    BY <1>1, <2>1, <2>3, <2>8, <2>9, IdleStep DEF Moves
<1>5. ASSUME NEW r \in Resources, OpWrites(r)
      PROVE  SInv'
  <2>1. /\ op.at = "setup" /\ op'.at \in {"setup", "drive"} /\ holder[r] = Operator
        /\ opened[r] = "open" /\ call[Operator].at = "idle"
        /\ UNCHANGED <<visaVars, mapped, tracked, client>>
    BY <1>0, <1>5 DEF OpWrites, Holds, Executed, OpGoes, OpTyped
  <2>2. Kept(r)
    BY <1>0, <2>1 DEF OpLeased
  <2>3. OpLeased' /\ Others(Operator)
    BY <1>0, <2>1 DEF OpLeased, Kept, Others
  <2>4. ASSUME NEW c \in Clients
        PROVE  Leased(c)' /\ Truthful(c)'
    <3>1. Leased(c)'
      BY <2>1, <2>3, OthersLeases
    <3>2. CASE table[Address] = r
      <4>1. Working'
        BY <2>1, <3>2 DEF Working
      <4>2. QED
        BY <3>1, <4>1 DEF Truthful
    <3>3. CASE Forgetting(c)
      BY <2>1, <3>1, <3>3, BeliefStays DEF Truthful
    <3>4. QED
      BY <2>2, <3>2, <3>3, WorkingOrForgetting
  <2>5. QED
    BY <2>1, <2>3, <2>4, OpOneFrame
<1>6. ASSUME NEW r \in Resources, OpRaises(r)
      PROVE  SInv'
  <2>1. /\ op.at \in {"setup", "drive"} /\ op'.at = "teardown" /\ Visa!Fails(Operator, r)
        /\ call[Operator].at = "idle" /\ UNCHANGED <<mapped, tracked, client>>
    BY <1>0, <1>6 DEF OpRaises, OpGoes, OpTyped
  <2>2. device' = device \/ Kept(r)
    <3>1. CASE opened[r] = "open"
      BY <1>0, <2>1, <3>1 DEF OpLeased, Visa!Fails
    <3>2. CASE opened[r] # "open"
      BY <1>6, <3>2 DEF OpRaises, Unsure, Executed
    <3>3. QED
      BY <3>1, <3>2
  <2>3. QED
    BY <2>1, <2>2, FailureStep
<1>7. CASE OpFinishes
  <2>1. /\ op.at = "drive" /\ op'.at = "teardown" /\ call[Operator].at = "idle"
        /\ UNCHANGED <<visaVars, mapped, tracked, device, client>>
    BY <1>0, <1>7 DEF OpFinishes, OpGoes, OpTyped
  <2>2. OpLeased' /\ Others(Operator) /\ (Working => Working')
    BY <1>0, <2>1 DEF OpLeased, Others, Working
  <2>3. ASSUME NEW c \in Clients
        PROVE  Leased(c)' /\ Truthful(c)'
    <3>1. Leased(c)'
      BY <2>1, <2>2, OthersLeases
    <3>2. Truthful(c)'
      BY <2>1, <2>2, BeliefStays DEF SInv, Of, Truthful, Visa!Usable, Visa!Published
    <3>3. QED
      BY <3>1, <3>2
  <2>4. QED
    BY <2>1, <2>2, <2>3, OpOneFrame
<1>8. ASSUME NEW r \in Resources, OpTears(r)
      PROVE  SInv'
  <2>1. /\ op.at = "teardown" /\ op'.at \in {"teardown", "leave"}
        /\ holder[r] = Operator /\ call[Operator].at = "idle"
        /\ UNCHANGED <<mapped, tracked, client>>
    BY <1>0, <1>8 DEF OpTears, Holds, OpGoes, OpTyped
  <2>2. After(Head(op.todo))["output"] = "OFF"
    <3>1. Head(op.todo) \in TearWrites
      BY <1>0, <2>1, Rests DEF OpTyped
    <3>2. Head(op.todo) \in Writes
      <4>1. TearWrites \subseteq Writes
        BY Zenon DEF Writes
      <4>2. QED
        BY <3>1, <4>1
    <3>3. QED
      BY <1>0, <3>1, <3>2, AfterTyped
  <2>3. CASE Visa!Fails(Operator, r)
    <3>1. device'["output"] \in {"OFF", device["output"]}
      BY <1>8, <2>2 DEF OpTears, Executed, Unsure
    <3>2. QED
      BY <2>1, <2>3, <3>1, FailureStep
  <2>4. CASE OpGoes("leave", <<>>) /\ UNCHANGED visaVars /\ Executed(r, After(Head(op.todo)))
    <3>1. device'["output"] = "OFF" /\ op'.at = "leave"
      BY <1>0, <2>2, <2>4 DEF Executed, OpGoes, OpTyped
    <3>2. OpLeased' /\ Others(Operator)
      BY <1>0, <2>1, <2>4, <3>1 DEF OpLeased, Others
    <3>3. ASSUME NEW c \in Clients
          PROVE  Leased(c)' /\ Truthful(c)'
      <4>1. Leased(c)'
        BY <2>1, <2>4, <3>2, OthersLeases
      <4>2. QED
        BY <3>1, <4>1 DEF Truthful
    <3>4. QED
      BY <2>1, <3>2, <3>3, OpOneFrame
  <2>5. QED
    BY <1>8, <2>3, <2>4 DEF OpTears
<1>9. ASSUME NEW r \in Resources, OpLeaves(r)
      PROVE  SInv'
  <2>1. /\ op.at = "leave" /\ holder[r] = Operator /\ call[Operator].at = "idle"
        /\ \A q \in Resources : holder'[q] = IF q = r THEN None ELSE holder[q]
        /\ UNCHANGED <<table, opened, healthy, call, mapped, tracked, device, client>>
    BY <1>0, <1>9 DEF OpLeaves, Visa!LeaseExits, Visa!TypeOK
  <2>2. \A q \in Resources : holder'[q] # Operator
    BY <1>0, <2>1, ThreadAssumption DEF OpLeased
  <2>3. OpLeased' /\ Others(Operator) /\ ~Working
    BY <2>1, <2>2 DEF OpLeased, Others, Working
  <2>4. QED
    BY <1>1, <2>1, <2>3, IdleStep
<1>10. QED
  BY <1>2, <1>3, <1>4, <1>5, <1>6, <1>7, <1>8, <1>9 DEF Operate

-----------------------------------------------------------------------------
(* The invariant holds at the start ...                                    *)
LEMMA InitTruth ==
  ASSUME Init
  PROVE  SInv
<1>1. Known
  BY ValuesKnown DEF Init, Known
<1>2. OpLeased
  BY ThreadAssumption DEF Init, Visa!Init, Visa!Idle, OpLeased
<1>3. ASSUME NEW c \in Clients
      PROVE  Of(c)
  <2>1. client[c].at = "idle" /\ ~Validated(c)
    BY <1>3 DEF Init, Idle, Validated
  <2>2. Leased(c)
    BY ThreadAssumption DEF Init, Visa!Init, Visa!Idle, Leased
  <2>3. Truthful(c)
    BY <2>1, ValuesKnown DEF Init, Truthful, Believed, Records
  <2>4. QED
    BY <2>1, <2>2, <2>3 DEF Of, Mapped, ModeSet, Preflighted
<1>4. QED
  BY <1>1, <1>2, <1>3 DEF SInv

(* ... and after every step.                                               *)
LEMMA TruthStep ==
  ASSUME OneClient, GuardsTheOutput, IInv, SInv, [Next]_vars
  PROVE  SInv'
<1>1. ASSUME NEW c \in Clients, Commands(c)
      PROVE  SInv'
  BY <1>1, LookupStep, TalkStep, UpdateStep DEF Commands
<1>2. ASSUME NEW c \in Clients,
             Connections(c) \/ \E again \in BOOLEAN : DisconnectChecks(c, again)
      PROVE  SInv'
  BY <1>2, ConnectStep, ForgetStep, DisconnectStep DEF Connections
<1>3. CASE Next
  BY <1>1, <1>2, <1>3, PreflightStep, OperationStep DEF Next
<1>4. CASE UNCHANGED vars
  BY <1>4 DEF vars, visaVars, SInv, Known, OpLeased, Kept, Of, Mapped, Leased,
     ModeSet,
     Preflighted, Truthful, Believed, Records, Working, Forgetting, Visa!Usable,
     Visa!Published, Validated, Definition, Accepts, RequirementsMet, NotForbidden,
     SequenceAllows, RuleHolds, ArgumentAllowed, ComplianceSet
<1>5. QED
  BY <1>3, <1>4

(* What a command that is sent has been validated against is how the       *)
(* output is.                                                              *)
LEMMA SentAsValidated ==
  ASSUME GuardsTheOutput, IInv, SInv, NEW c \in Clients, Sends(c)
  PROVE  /\ \A p \in Definition(c).requires : p[1] = "output" => device["output"] = p[2]
         /\ \A p \in Definition(c).forbidden : p[1] = "output" => device["output"] # p[2]
<1>1. /\ Validated(c) /\ client[c].at = "talk" /\ client[c].command \in DOMAIN Schema
      /\ Accepts(Definition(c), client[c].argument, tracked) /\ Known
  BY DEF Sends, SInv, Of, Preflighted, IInv, ClientTyped, Validated
<1>2. PICK r \in Resources : holder[r] = c
  BY DEF Sends
<1>3. ASSUME NEW p \in Definition(c).requires, p[1] = "output"
      PROVE  device["output"] = p[2]
  <2>1. p[2] = "OFF"
    BY <1>1, <1>3 DEF GuardsTheOutput, Definition
  <2>2. tracked["output"] = "OFF"
    BY <1>1, <1>3, <2>1 DEF Accepts, RequirementsMet
  <2>3. QED
    BY <1>1, <1>2, <2>1, <2>2, TalksTruly
<1>4. ASSUME NEW p \in Definition(c).forbidden, p[1] = "output"
      PROVE  device["output"] # p[2]
  <2>1. p[2] = "ON"
    BY <1>1, <1>4 DEF GuardsTheOutput, Definition
  <2>2. PICK q \in Definition(c).requires : q[1] = "source_mode" /\ q[2] # Unknown
    BY <1>1, <1>4 DEF GuardsTheOutput, Definition
  <2>3. tracked["source_mode"] # Unknown /\ tracked["output"] # "ON"
    BY <1>1, <1>4, <2>1, <2>2 DEF Accepts, RequirementsMet, NotForbidden
  <2>4. tracked["output"] = "OFF"
    BY <1>1, <2>3 DEF Known
  <2>5. device["output"] = "OFF"
    BY <1>1, <1>2, <2>4, TalksTruly
  <2>6. QED
    BY <2>1, <2>5
<1>5. QED
  BY <1>3, <1>4

(* While one request at a time is served about an address, whatever sweeps *)
(* and emergency stops do next to it, and whenever writes fail or sessions *)
(* are replaced: a command of a schema that guards the output reaches the  *)
(* instrument only with the output as it was validated for.                *)
THEOREM CommandsMeetTheOutput ==
  ASSUME OneClient, GuardsTheOutput
  PROVE  Spec => OutputAsValidated
<1> DEFINE Inv == IInv /\ SInv
           Meets == \A c \in Clients : Sends(c) =>
             LET d == Schema[client[c].command]
             IN  /\ \A p \in d.requires : p[1] = "output" => device["output"] = p[2]
                 /\ \A p \in d.forbidden : p[1] = "output" => device["output"] # p[2]
<1>1. Init => Inv
  BY InitTypes, InitTruth
<1>2. Inv /\ [Next]_vars => Inv'
  BY StepTypes, TruthStep
<1>3. Inv /\ [Next]_vars => [Meets]_vars
  <2>1. Inv => Meets
    BY SentAsValidated DEF Definition
  <2>2. QED
    BY <2>1
<1>4. QED
  BY <1>1, <1>2, <1>3, PTL DEF Spec, OutputAsValidated

=============================================================================
