----------------------- MODULE InstrumentAccessProofs -----------------------
(***************************************************************************)
(* What InstrumentAccess promises, for any instruments, any requests and   *)
(* any number of them at the same time.                                    *)
(*                                                                         *)
(* Everything the threads do to the sessions is a step of VisaSessions, so *)
(* the module implements it and inherits its inductive invariant (VInv).   *)
(* What is added here says which call of the manager each actor can be in  *)
(* (OperationCalls, ClientCalls, StopperCalls), when it has a session on   *)
(* lease (Leasing), what an operation owns (Owning), in which order it     *)
(* takes its leases (Ordering) and what the shutdown has come to           *)
(* (Downing).                                                              *)
(***************************************************************************)
EXTENDS InstrumentAccess, FiniteSetTheorems, WellFoundedInduction, TLAPS

Sessions == INSTANCE VisaSessionsProofs

VInv == Sessions!IInv /\ Sessions!NoneForgotten

(* The call of the session manager a thread is in fits what it is doing.   *)
OperationCalls ==
  \A o \in Operations :
    /\ call[o].at \in {"idle", "entering", "marking"}
    /\ call[o].at = "entering" =>
         op[o].at = "lease" /\ call[o].address \in NextLease(op[o].todo)
    /\ call[o].at = "marking" => op[o].at = "mark"

ClientCalls ==
  \A c \in Clients :
    /\ call[c].at \in {"idle", "opening", "identifying", "entering", "closing"}
    /\ client[c].at # "idle" => client[c].address \in Addresses
    /\ client[c].at \in {"checked", "reopen"} => call[c].at = "idle"
    /\ client[c].at = "closing" <=> call[c].at = "closing"

StopperCalls ==
  /\ call[Stopper].at \in {"idle", "entering", "closing"}
  /\ call[Stopper].at = "entering" => estop.at = "lease"
  /\ call[Stopper].at = "closing" => estop.at = "close"
  /\ call[Stopper].at = "entering" \/ estop.at \in {"tear", "release"} =>
       estop.address \in Addresses /\ estop.operation \in Operations

(* Who has a session on lease is not in a call, but for an operation that  *)
(* asks for its next lease; what an operation drives has not failed.       *)
Leasing ==
  /\ \A o \in Operations, r \in Resources : holder[r] = o =>
       /\ op[o].at \in {"lease", "drive", "leave"}
       /\ op[o].at \in {"lease", "drive"} => healthy[r]
  /\ \A c \in Clients, r \in Resources : holder[r] = c =>
       client[c].at = "idle" /\ call[c].at = "idle"
  /\ \A r \in Resources : holder[r] = Stopper => estop.at = "tear"
  /\ \A q, r \in Resources : holder[q] = Stopper /\ holder[r] = Stopper => q = r

(* An operation owns its addresses until it is over or a stop has released *)
(* them, and never another one; only a failed sweep marks its session.     *)
Owning ==
  \A o \in Operations :
    /\ op[o].at = "idle" => op[o].addresses = {}
    /\ op[o].at = "mark" => op[o].failed /\ op[o].kind # "dual"
    /\ o \notin freed /\ op[o].at \notin {"idle", "over"} =>
         \A a \in op[o].addresses : owners[a] = o
    /\ op[o].at # "over" => \A a \in Addresses : owners[a] = o => a \in op[o].addresses

(* A session belongs to one address, also where it is no longer published, *)
(* and an operation has the leases of its first addresses.                 *)
Taken(o) == op[o].addresses \ op[o].todo

Late == {"entering", "marking", "closing"}

Ordering ==
  /\ \A o \in Operations :
       /\ op[o].todo \subseteq op[o].addresses
       /\ \A a \in Taken(o), b \in op[o].todo : Rank[a] < Rank[b]
  /\ \A t \in Threads : call[t].at \in Late =>
       /\ \A a \in Addresses : table[a] = call[t].resource => call[t].address = a
       /\ \A u \in Threads : call[u].at \in Late /\ call[u].resource = call[t].resource =>
            call[u].address = call[t].address
       /\ \A o \in Operations : holder[call[t].resource] = o => call[t].address \in Taken(o)
  /\ \A a \in Addresses, o \in Operations :
       table[a] # None /\ holder[table[a]] = o => a \in Taken(o)

(* Once the shutdown has begun nobody connects, and in the end nothing is  *)
(* published.                                                              *)
Downing ==
  /\ estop.at \in {"close", "down"} => estop.final
  /\ estop.final => \A c \in Clients :
       client[c].at = "idle" /\ call[c].at = "idle" /\ \A r \in Resources : holder[r] # c
  /\ estop.at = "down" =>
       call[Stopper].at = "idle" /\ \A a \in Addresses : table[a] = None

IInv ==
  /\ TypeOK
  /\ OperationCalls /\ ClientCalls /\ StopperCalls
  /\ Leasing /\ Owning /\ Ordering /\ Downing

-----------------------------------------------------------------------------
(* What VInv says of the sessions, in the terms used here.                 *)
LEMMA VisaFacts ==
  ASSUME VInv
  PROVE  /\ Visa!TypeOK
         /\ \A t \in Threads : call[t].at # "idle" => call[t].address \in Addresses
         /\ \A t \in Threads : call[t].at \in Late => call[t].resource \in Resources
         /\ \A t \in Threads : call[t].at = "identifying" =>
              /\ call[t].resource \in Resources
              /\ holder[call[t].resource] = None
              /\ \A u \in Threads : call[u].at \in Late => call[u].resource # call[t].resource
         /\ \A a, b \in Addresses :
              table[a] # None /\ table[a] = table[b] => a = b
         /\ \A t \in Threads, a \in Addresses :
              call[t].at = "closing" => table[a] # call[t].resource
<1>1. Visa!TypeOK
  BY DEF VInv, Sessions!IInv, Sessions!TypeOK, Visa!TypeOK
<1>2. QED
  BY <1>1 DEF VInv, Sessions!IInv, Sessions!CallsInOrder, Sessions!Holding,
     Sessions!Found, Sessions!OneOwner, Sessions!Published, Sessions!Unheard,
     Sessions!New, Sessions!Free, Late

(* What the calls of the session manager do, thread t being in one.        *)
Others(t) == \A u \in Threads : u # t => call'[u] = call[u]

Moves(t, from, to) == call[t].at = from /\ call'[t].at = to /\ Others(t)

(* lease looks the session of the address up ...                             *)
LEMMA LooksEffect ==
  ASSUME Visa!TypeOK, NEW t \in Threads, NEW a \in Addresses,
         Visa!LeaseLooks(t, a)
  PROVE  /\ Moves(t, "idle", "entering")
         /\ call'[t].address = a /\ call'[t].resource = table[a]
         /\ table[a] # None
         /\ UNCHANGED <<table, healthy, holder>>
BY DEF Visa!TypeOK, Visa!LeaseLooks, Visa!Begins, Visa!At, Visa!Published, Moves,
   Others

(* ... as mark_unhealthy does ...                                            *)
LEMMA MarkLooksEffect ==
  ASSUME Visa!TypeOK, NEW t \in Threads, NEW a \in Addresses,
         Visa!MarkLooks(t, a)
  PROVE  /\ Moves(t, "idle", "marking")
         /\ call'[t].address = a /\ call'[t].resource = table[a]
         /\ table[a] # None
         /\ UNCHANGED <<table, healthy, holder>>
BY DEF Visa!TypeOK, Visa!MarkLooks, Visa!Begins, Visa!At, Visa!Published, Moves,
   Others

(* ... and disconnect, which takes it out of the table.                      *)
LEMMA PopsEffect ==
  ASSUME Visa!TypeOK, NEW t \in Threads, NEW a \in Addresses,
         Visa!DisconnectPops(t, a)
  PROVE  /\ Moves(t, "idle", "closing")
         /\ call'[t].address = a /\ call'[t].resource = table[a]
         /\ table[a] # None
         /\ table' = [table EXCEPT ![a] = None]
         /\ UNCHANGED <<healthy, holder>>
BY DEF Visa!TypeOK, Visa!DisconnectPops, Visa!Begins, Visa!At, Visa!Published,
   Moves, Others

(* connect finds no session that it can return.                              *)
LEMMA ConnectLooksEffect ==
  ASSUME Visa!TypeOK, NEW t \in Threads, NEW a \in Addresses,
         Visa!ConnectLooks(t, a)
  PROVE  /\ Moves(t, "idle", "opening")
         /\ UNCHANGED <<table, healthy, holder>>
BY DEF Visa!TypeOK, Visa!ConnectLooks, Visa!Begins, Visa!At, Moves, Others

(* lease has got the lock of the session, and keeps it if that is healthy.   *)
LEMMA EntersEffect ==
  ASSUME Visa!TypeOK, NEW t \in Threads, Visa!LeaseEnters(t)
  PROVE  /\ Moves(t, "entering", "idle")
         /\ holder[call[t].resource] = None
         /\ holder' = IF healthy[call[t].resource]
                        THEN [holder EXCEPT ![call[t].resource] = t] ELSE holder
         /\ UNCHANGED <<table, healthy>>
BY DEF Visa!TypeOK, Visa!LeaseEnters, Visa!Returns, Visa!Idle, Visa!At,
   Visa!Free, Moves, Others

(* disconnect closes what it has taken out, when nobody has it on lease.     *)
LEMMA ClosesEffect ==
  ASSUME Visa!TypeOK, NEW t \in Threads, Visa!DisconnectCloses(t)
  PROVE  /\ Moves(t, "closing", "idle")
         /\ UNCHANGED <<table, healthy, holder>>
BY DEF Visa!TypeOK, Visa!DisconnectCloses, Visa!Returns, Visa!Idle, Visa!At,
   Moves, Others

(* mark_unhealthy has got the lock of the session.                           *)
LEMMA MarksEffect ==
  ASSUME Visa!TypeOK, NEW t \in Threads, Visa!Marks(t)
  PROVE  /\ Moves(t, "marking", "idle")
         /\ holder[call[t].resource] = None
         /\ healthy' = [healthy EXCEPT ![call[t].resource] = FALSE]
         /\ UNCHANGED <<table, holder>>
BY DEF Visa!TypeOK, Visa!Marks, Visa!Returns, Visa!Idle, Visa!At, Visa!Free,
   Moves, Others

(* connect opens and identifies a resource, and publishes it or not.         *)
LEMMA ConnectEffect ==
  ASSUME Visa!TypeOK, NEW t \in Threads, Visa!Connect(t)
  PROVE  /\ call[t].at \in {"opening", "identifying"}
         /\ call'[t].at \in {"identifying", "idle"}
         /\ Others(t)
         /\ \/ table' = table
            \/ /\ call[t].at = "identifying" /\ call'[t].at = "idle"
               /\ table' = [table EXCEPT ![call[t].address] = call[t].resource]
         /\ UNCHANGED <<healthy, holder>>
<1>1. CASE Visa!OpenFails(t) \/ Visa!IdentifyFails(t)
  BY <1>1 DEF Visa!TypeOK, Visa!OpenFails, Visa!IdentifyFails, Visa!Returns,
     Visa!Idle, Visa!At, Others
<1>2. CASE Visa!ConnectPublishes(t)
  BY <1>2 DEF Visa!TypeOK, Visa!ConnectPublishes, Visa!Returns, Visa!Idle,
     Visa!At, Others
<1>3. ASSUME NEW r \in Resources, Visa!ConnectOpens(t, r)
      PROVE  /\ call[t].at = "opening" /\ call'[t].at = "identifying" /\ Others(t)
             /\ UNCHANGED <<table, healthy, holder>>
  BY <1>3 DEF Visa!TypeOK, Visa!ConnectOpens, Visa!At, Others
<1>4. QED
  BY <1>1, <1>2, <1>3 DEF Visa!Connect

(* What an operation does to its place.                                    *)
OpTyped ==
  op \in [Operations ->
    [ at : {"idle", "find", "lease", "drive", "leave", "mark", "release", "over"},
      kind : Kinds, addresses : SUBSET Addresses, todo : SUBSET Addresses,
      failed : BOOLEAN ]]

Only(o) == \A q \in Operations : q # o => op'[q] = op[q]

(* An operation goes on to a place ...                                       *)
LEMMA GoesEffect ==
  ASSUME TypeOK, NEW o \in Operations,
         NEW place \in {"idle", "find", "lease", "drive", "leave", "mark", "release", "over"},
         Goes(o, place)
  PROVE  /\ OpTyped'
         /\ op'[o].at = place /\ op'[o].kind = op[o].kind
         /\ op'[o].addresses = op[o].addresses /\ op'[o].todo = op[o].todo
         /\ op'[o].failed = op[o].failed
         /\ Only(o)
BY DEF TypeOK, OpTyped, Goes, Only

(* ... or ends ...                                                           *)
LEMMA EndsEffect ==
  ASSUME TypeOK, NEW o \in Operations, Ends(o)
  PROVE  /\ OpTyped'
         /\ op'[o] = [at |-> "over", kind |-> "agent", addresses |-> {}, todo |-> {},
                      failed |-> FALSE]
         /\ Only(o)
BY DEF TypeOK, OpTyped, Ends, IdleOp, Only, Kinds

(* ... or goes on with some of its leases still to take ...                  *)
LEMMA EntersPlace ==
  ASSUME TypeOK, NEW o \in Operations, NEW left \in SUBSET Addresses,
         NEW place \in {"lease", "drive", "leave", "mark", "release"},
         op' = [op EXCEPT ![o].todo = left, ![o].at = place]
  PROVE  /\ OpTyped'
         /\ op'[o].at = place /\ op'[o].kind = op[o].kind
         /\ op'[o].addresses = op[o].addresses /\ op'[o].todo = left
         /\ op'[o].failed = op[o].failed
         /\ Only(o)
<1>0. OpTyped
  BY DEF TypeOK, OpTyped
<1>1. op'[o] = [at |-> place, kind |-> op[o].kind, addresses |-> op[o].addresses,
                todo |-> left, failed |-> op[o].failed]
  BY <1>0 DEF OpTyped
<1>2. DOMAIN op' = Operations /\ op' = [q \in Operations |-> op'[q]]
  BY <1>0 DEF OpTyped
<1>3. Only(o)
  BY <1>0 DEF OpTyped, Only
<1>4. QED
  BY <1>0, <1>1, <1>2, <1>3 DEF OpTyped, Only

(* ... or has failed, and goes to give up its leases.                        *)
LEMMA FailsPlace ==
  ASSUME TypeOK, NEW o \in Operations,
         op' = [op EXCEPT ![o].at = "leave", ![o].failed = TRUE]
  PROVE  /\ OpTyped'
         /\ op'[o].at = "leave" /\ op'[o].kind = op[o].kind
         /\ op'[o].addresses = op[o].addresses /\ op'[o].todo = op[o].todo
         /\ Only(o)
<1>0. OpTyped
  BY DEF TypeOK, OpTyped
<1>1. op'[o] = [at |-> "leave", kind |-> op[o].kind, addresses |-> op[o].addresses,
                todo |-> op[o].todo, failed |-> TRUE]
  BY <1>0 DEF OpTyped
<1>2. DOMAIN op' = Operations /\ op' = [q \in Operations |-> op'[q]]
  BY <1>0 DEF OpTyped
<1>3. Only(o)
  BY <1>0 DEF OpTyped, Only
<1>4. QED
  BY <1>0, <1>1, <1>2, <1>3 DEF OpTyped, Only


-----------------------------------------------------------------------------
(* A step of one actor leaves what the others do as it is.                 *)

(* The threads of different actors are different.                          *)
LEMMA Distinct ==
  /\ \A o \in Operations, c \in Clients : o # c
  /\ \A o \in Operations : o # Stopper /\ o # None /\ o \in Threads
  /\ \A c \in Clients : c # Stopper /\ c # None /\ c \in Threads
  /\ Stopper # None /\ Stopper \in Threads
BY ThreadAssumption DEF Threads

(* An operation does not disturb the clients, the stop or the shutdown, ...  *)
LEMMA OperationFrame ==
  ASSUME IInv, NEW o \in Operations,
         UNCHANGED <<table, client, estop>>, Others(o),
         \A r \in Resources : holder'[r] \in {holder[r], o, None}
  PROVE  ClientCalls' /\ StopperCalls' /\ Downing'
BY Distinct DEF IInv, ClientCalls, StopperCalls, Downing, Others

(* ... a client not the operations and the stop ...                          *)
LEMMA ClientFrame ==
  ASSUME IInv, NEW c \in Clients,
         UNCHANGED <<owners, op, estop, freed>>, Others(c)
  PROVE  OperationCalls' /\ StopperCalls' /\ Owning'
<1>1. \A o \in Operations : call'[o] = call[o]
  BY Distinct DEF Others
<1>2. call'[Stopper] = call[Stopper]
  BY Distinct DEF Others
<1>3. OperationCalls'
  BY <1>1 DEF IInv, OperationCalls, NextLease
<1>4. QED
  BY <1>2, <1>3 DEF IInv, StopperCalls, Owning

(* ... and the stop not where the operations and clients are.                *)
LEMMA StopperFrame ==
  ASSUME IInv, UNCHANGED <<op, client>>, Others(Stopper)
  PROVE  OperationCalls' /\ ClientCalls'
<1>1. \A o \in Operations : call'[o] = call[o]
  BY Distinct DEF Others
<1>2. \A c \in Clients : call'[c] = call[c]
  BY Distinct DEF Others
<1>3. OperationCalls'
  BY <1>1 DEF IInv, OperationCalls, NextLease
<1>4. QED
  BY <1>2, <1>3 DEF IInv, ClientCalls

(* The order of the leases is not disturbed by whoever only returns from a *)
(* call, removes a session, gives a lease up or begins an operation ...    *)
LEMMA OrderingShrinks ==
  ASSUME IInv, VInv,
         \A o \in Operations :
           \/ op'[o].todo = op[o].todo /\ op'[o].addresses = op[o].addresses
           \/ op'[o].todo = op'[o].addresses /\ \A r \in Resources : holder'[r] # o,
         \A t \in Threads : call'[t].at \in Late =>
           call[t].at \in Late /\ call'[t].address = call[t].address
                               /\ call'[t].resource = call[t].resource,
         \A a \in Addresses : table'[a] \in {table[a], None},
         \A o \in Operations, r \in Resources : holder'[r] = o => holder[r] = o
  PROVE  Ordering'
<1>1. \A t \in Threads : call[t].at \in Late => call[t].resource \in Resources
  BY VisaFacts
<1>2. \A a \in Addresses : table[a] # None => table[a] \in Resources
  BY VisaFacts DEF Visa!TypeOK
<1>3. ASSUME NEW o \in Operations
      PROVE  /\ op'[o].todo \subseteq op'[o].addresses
             /\ \A a \in Taken(o)', b \in op'[o].todo : Rank[a] < Rank[b]
  BY DEF IInv, Ordering, Taken
<1>4. ASSUME NEW o \in Operations, NEW r \in Resources, holder'[r] = o
      PROVE  Taken(o)' = Taken(o) /\ holder[r] = o
  BY <1>4 DEF Taken
<1>5. ASSUME NEW t \in Threads, call'[t].at \in Late
      PROVE  /\ \A a \in Addresses : table'[a] = call'[t].resource => call'[t].address = a
             /\ \A u \in Threads :
                  call'[u].at \in Late /\ call'[u].resource = call'[t].resource =>
                    call'[u].address = call'[t].address
             /\ \A o \in Operations :
                  holder'[call'[t].resource] = o => call'[t].address \in Taken(o)'
  <2>1. /\ call[t].at \in Late /\ call'[t].address = call[t].address
        /\ call'[t].resource = call[t].resource /\ call[t].resource \in Resources
    BY <1>1, <1>5
  <2>2. \A a \in Addresses : table'[a] = call'[t].resource => call'[t].address = a
    BY <2>1, ThreadAssumption DEF IInv, Ordering
  <2>3. \A u \in Threads :
          call'[u].at \in Late /\ call'[u].resource = call'[t].resource =>
            call'[u].address = call'[t].address
    BY <2>1 DEF IInv, Ordering
  <2>4. \A o \in Operations :
          holder'[call'[t].resource] = o => call'[t].address \in Taken(o)'
    BY <2>1, <1>4 DEF IInv, Ordering
  <2>5. QED
    BY <2>2, <2>3, <2>4
<1>6. ASSUME NEW a \in Addresses, NEW o \in Operations,
             table'[a] # None, holder'[table'[a]] = o
      PROVE  a \in Taken(o)'
  BY <1>2, <1>4, <1>6 DEF IInv, Ordering
<1>7. QED
  BY <1>3, <1>5, <1>6 DEF Ordering

(* ... nor by whoever looks a session up, or takes it out of the table.    *)
LEMMA OrderingLooks ==
  ASSUME IInv, VInv, NEW t \in Threads, NEW a \in Addresses,
         call'[t].at \in Late, call'[t].address = a, call'[t].resource = table[a],
         table[a] # None, Others(t),
         \A o \in Operations :
           op'[o].todo = op[o].todo /\ op'[o].addresses = op[o].addresses,
         \A b \in Addresses : table'[b] \in {table[b], None},
         holder' = holder
  PROVE  Ordering'
<1>1. table[a] \in Resources
  BY VisaFacts DEF Visa!TypeOK
<1>2. \A b \in Addresses : table[b] = table[a] => b = a
  BY VisaFacts
<1>3. \A o \in Operations : Taken(o)' = Taken(o)
  BY DEF Taken
<1>4. ASSUME NEW o \in Operations
      PROVE  /\ op'[o].todo \subseteq op'[o].addresses
             /\ \A x \in Taken(o)', y \in op'[o].todo : Rank[x] < Rank[y]
  BY <1>3 DEF IInv, Ordering
<1>5. ASSUME NEW u \in Threads, call'[u].at \in Late
      PROVE  /\ call'[u].resource \in Resources
             /\ \A b \in Addresses : table[b] = call'[u].resource => call'[u].address = b
             /\ \A o \in Operations :
                  holder[call'[u].resource] = o => call'[u].address \in Taken(o)
  <2>1. CASE u = t
    BY <1>1, <1>2, <2>1 DEF IInv, Ordering
  <2>2. CASE u # t
    BY <1>5, <2>2, VisaFacts DEF IInv, Ordering, Others
  <2>3. QED
    BY <2>1, <2>2
<1>6. ASSUME NEW u \in Threads, NEW v \in Threads,
             call'[u].at \in Late, call'[v].at \in Late,
             call'[v].resource = call'[u].resource
      PROVE  call'[v].address = call'[u].address
  <2>1. CASE u = t
    BY <1>5, <1>6, <2>1
  <2>2. CASE v = t
    BY <1>5, <1>6, <2>2
  <2>3. CASE u # t /\ v # t
    BY <1>6, <2>3 DEF IInv, Ordering, Others
  <2>4. QED
    BY <2>1, <2>2, <2>3
<1>7. ASSUME NEW b \in Addresses, NEW o \in Operations,
             table'[b] # None, holder'[table'[b]] = o
      PROVE  b \in Taken(o)'
  BY <1>3, <1>7 DEF IInv, Ordering
<1>8. \A u \in Threads : call'[u].at \in Late =>
        /\ \A b \in Addresses : table'[b] = call'[u].resource => call'[u].address = b
        /\ \A o \in Operations :
             holder'[call'[u].resource] = o => call'[u].address \in Taken(o)'
  BY <1>3, <1>5, ThreadAssumption
<1>9. QED
  BY <1>4, <1>6, <1>7, <1>8 DEF Ordering

(* The end of an operation, which has no lease and no call any more.       *)
LEMMA EndStep ==
  ASSUME IInv, VInv, Visa!TypeOK', NEW o \in Operations,
         UNCHANGED <<visaVars, client, estop, freed>>,
         call[o].at = "idle", \A r \in Resources : holder[r] # o,
         OpTyped',
         op'[o] = [at |-> "over", kind |-> "agent", addresses |-> {}, todo |-> {}, failed |-> FALSE],
         Only(o),
         owners' \in [Addresses -> Operations \union {None}],
         \A a \in Addresses : owners'[a] = owners[a] \/ (owners[a] = o /\ owners'[a] = None)
  PROVE  IInv'
<1>1. UNCHANGED <<table, opened, healthy, holder, call>>
  BY DEF visaVars
<1>2. ClientCalls' /\ StopperCalls' /\ Downing'
  BY <1>1, OperationFrame DEF Others
<1>3. TypeOK'
  BY DEF IInv, TypeOK, OpTyped, Ownership!TypeOK
<1>4. OperationCalls'
  BY <1>1 DEF IInv, OperationCalls, NextLease, Only
<1>5. Leasing'
  BY <1>1 DEF IInv, Leasing, Only
<1>6. Owning'
  <2>1. ASSUME NEW q \in Operations, q # o, NEW a \in Addresses
        PROVE  owners'[a] = q <=> owners[a] = q
    BY <2>1, Distinct
  <2>2. \A q \in Operations : op[q].addresses \subseteq Addresses
    BY DEF IInv, TypeOK
  <2>3. QED
    BY <2>1, <2>2 DEF IInv, Owning, Only
<1>7. Ordering'
  <2>1. \A q \in Operations :
          \/ op'[q].todo = op[q].todo /\ op'[q].addresses = op[q].addresses
          \/ op'[q].todo = op'[q].addresses /\ \A r \in Resources : holder'[r] # q
    BY <1>1 DEF Only
  <2>2. QED
    BY <1>1, <2>1, OrderingShrinks
<1>8. QED
  BY <1>2, <1>3, <1>4, <1>5, <1>6, <1>7 DEF IInv

-----------------------------------------------------------------------------
(* Every step of an agent run, a sweep or a dual run keeps the invariant.  *)
LEMMA OperationStep ==
  ASSUME IInv, VInv, VInv', NEW o \in Operations,
         (\E p \in Plans : OperationOwns(o, p)) \/ Operate(o)
  PROVE  IInv'
<1>0. Visa!TypeOK /\ Visa!TypeOK' /\ o \in Threads /\ o # None
  BY Distinct DEF VInv, Sessions!IInv, Sessions!TypeOK, Visa!TypeOK
<1>1. ASSUME NEW p \in Plans, OperationOwns(o, p)
      PROVE  IInv'
  <2>1. /\ UNCHANGED <<table, opened, healthy, holder, call, client, estop, freed>>
        /\ op[o].at = "idle" /\ call[o].at = "idle"
        /\ op'[o] = [at |-> "find", kind |-> p.kind, addresses |-> p.addresses,
                     todo |-> p.addresses, failed |-> FALSE]
        /\ Only(o)
        /\ \A a \in p.addresses : owners[a] \in {None, o}
        /\ owners' = [a \in Addresses |-> IF a \in p.addresses THEN o ELSE owners[a]]
    BY <1>1 DEF IInv, TypeOK, OperationOwns, OpAt, InCall, visaVars, Only,
                Ownership!AcquireMany, Ownership!Conflict
  <2>2. ClientCalls' /\ StopperCalls' /\ Downing'
    BY <2>1, OperationFrame DEF Others
  <2>3. TypeOK'
    BY <1>0, <1>1, <2>1, PlanAssumption DEF IInv, TypeOK, OperationOwns,
       Ownership!TypeOK
  <2>4. OperationCalls'
    BY <2>1 DEF IInv, OperationCalls, NextLease, Only
  <2>5. Leasing'
    BY <2>1 DEF IInv, Leasing, Only
  <2>6. Owning'
    <3>1. p.addresses \subseteq Addresses
      BY PlanAssumption
    <3>2. ASSUME NEW q \in Operations, q # o, NEW a \in Addresses
          PROVE  owners'[a] = q <=> owners[a] = q
      BY <2>1, <3>2, Distinct
    <3>3. \A q \in Operations : op[q].addresses \subseteq Addresses
      BY DEF IInv, TypeOK
    <3>4. \A a \in Addresses : owners'[a] = o => a \in p.addresses
      BY <2>1 DEF IInv, Owning
    <3>5. \A a \in p.addresses : owners'[a] = o
      BY <2>1, <3>1
    <3>6. QED
      BY <2>1, <3>2, <3>3, <3>4, <3>5 DEF IInv, Owning, Only
  <2>7. Ordering'
    BY <2>1, <2>5, OrderingShrinks DEF Only, Leasing
  <2>8. QED
    BY <2>2, <2>3, <2>4, <2>5, <2>6, <2>7 DEF IInv
<1>2. ASSUME OperationFinds(o)
      PROVE  IInv'
  <2>1. PICK place \in {"lease", "release"} : Goes(o, place)
    BY <1>2 DEF OperationFinds
  <2>2. /\ UNCHANGED <<owners, table, opened, healthy, holder, call, client, estop, freed>>
        /\ op[o].at = "find" /\ call[o].at = "idle"
    BY <1>2 DEF OperationFinds, OpAt, InCall, visaVars
  <2>3. /\ OpTyped'
        /\ op'[o].at = place /\ op'[o].kind = op[o].kind
        /\ op'[o].addresses = op[o].addresses /\ op'[o].todo = op[o].todo
        /\ op'[o].failed = op[o].failed
        /\ Only(o)
    BY <2>1, GoesEffect DEF IInv
  <2>4. ClientCalls' /\ StopperCalls' /\ Downing'
    BY <2>2, OperationFrame DEF Others
  <2>5. TypeOK'
    BY <1>0, <2>2, <2>3 DEF IInv, TypeOK, OpTyped, Ownership!TypeOK
  <2>6. OperationCalls'
    BY <2>2, <2>3 DEF IInv, OperationCalls, NextLease, Only
  <2>7. Leasing'
    BY <2>2, <2>3 DEF IInv, Leasing, Only
  <2>8. Owning'
    BY <2>2, <2>3 DEF IInv, Owning, Only
  <2>9. Ordering'
    BY <2>2, <2>3, OrderingShrinks DEF Only
  <2>10. QED
    BY <2>4, <2>5, <2>6, <2>7, <2>8, <2>9 DEF IInv
<1>3. ASSUME OperationLooks(o)
      PROVE  IInv'
  <2>1. /\ op[o].at = "lease" /\ call[o].at = "idle"
        /\ UNCHANGED <<owners, client, estop, freed>>
    BY <1>3 DEF OperationLooks, OpAt, InCall
  <2>2. ASSUME NEW a \in NextLease(op[o].todo), Visa!LeaseLooks(o, a), UNCHANGED op
        PROVE  IInv'
    <3>1. a \in Addresses
      BY <1>0 DEF IInv, TypeOK, NextLease
    <3>2. /\ Moves(o, "idle", "entering")
          /\ call'[o].address = a /\ call'[o].resource = table[a]
          /\ table[a] # None
          /\ UNCHANGED <<table, healthy, holder>>
      BY <1>0, <2>2, <3>1, LooksEffect
    <3>3. ClientCalls' /\ StopperCalls' /\ Downing'
      BY <2>1, <3>2, OperationFrame DEF Moves
    <3>4. TypeOK'
      BY <1>0, <2>1, <2>2 DEF IInv, TypeOK, OpTyped, Ownership!TypeOK
    <3>5. OperationCalls'
      BY <1>0, <2>1, <2>2, <3>2, Distinct DEF IInv, OperationCalls, NextLease,
         Moves, Others
    <3>6. Leasing' /\ Owning'
      BY <2>1, <2>2, <3>2, Distinct DEF IInv, Leasing, Owning, Moves, Others
    <3>7. Ordering'
      BY <1>0, <2>2, <3>1, <3>2, OrderingLooks DEF Late, Moves
    <3>8. QED
      BY <3>3, <3>4, <3>5, <3>6, <3>7 DEF IInv
  <2>3. CASE UNCHANGED visaVars /\ Goes(o, GivesUp(o))
    <3>1. UNCHANGED <<table, opened, healthy, holder, call>>
      BY <2>3 DEF visaVars
    <3>2. PICK place \in {"leave", "mark", "release"} :
            /\ Goes(o, place)
            /\ place # "leave" => \A r \in Resources : holder[r] # o
            /\ place = "mark" => op[o].failed /\ op[o].kind # "dual"
      BY <2>3 DEF GivesUp, Completes, Leases
    <3>3. /\ OpTyped'
          /\ op'[o].at = place /\ op'[o].kind = op[o].kind
          /\ op'[o].addresses = op[o].addresses /\ op'[o].todo = op[o].todo
          /\ op'[o].failed = op[o].failed
          /\ Only(o)
      BY <3>2, GoesEffect DEF IInv
    <3>4. ClientCalls' /\ StopperCalls' /\ Downing'
      BY <2>1, <3>1, OperationFrame DEF Others
    <3>5. TypeOK'
      BY <1>0, <2>1, <3>3 DEF IInv, TypeOK, OpTyped, Ownership!TypeOK
    <3>6. OperationCalls'
      BY <2>1, <3>1, <3>3 DEF IInv, OperationCalls, NextLease, Only
    <3>7. Leasing'
      BY <2>1, <3>1, <3>2, <3>3, Distinct DEF IInv, Leasing, Only
    <3>8. Owning'
      BY <2>1, <3>2, <3>3 DEF IInv, Owning, Only
    <3>9. Ordering'
      BY <3>1, <3>3, OrderingShrinks DEF Only
    <3>10. QED
      BY <3>4, <3>5, <3>6, <3>7, <3>8, <3>9 DEF IInv
  <2>4. QED
    BY <1>3, <2>2, <2>3 DEF OperationLooks
<1>4. ASSUME OperationEnters(o)
      PROVE  IInv'
  <2> DEFINE a == call[o].address
             r == call[o].resource
             left == op[o].todo \ {a}
  <2>1. /\ op[o].at = "lease"
        /\ UNCHANGED <<owners, client, estop, freed>>
    BY <1>4 DEF OperationEnters
  <2>2. /\ Moves(o, "entering", "idle")
        /\ holder[r] = None
        /\ holder' = IF healthy[r] THEN [holder EXCEPT ![r] = o] ELSE holder
        /\ UNCHANGED <<table, healthy>>
    BY <1>0, <1>4, EntersEffect DEF OperationEnters
  <2>3. r \in Resources /\ a \in NextLease(op[o].todo) /\ a \in Addresses
    BY <1>0, <2>2, VisaFacts DEF Moves, Late, IInv, OperationCalls
  <2>4. /\ OpTyped'
        /\ op'[o].kind = op[o].kind /\ op'[o].addresses = op[o].addresses
        /\ op'[o].todo = left /\ op'[o].failed = op[o].failed
        /\ op'[o].at = IF ~healthy[r] THEN GivesUp(o)
                       ELSE IF left = {} THEN "drive" ELSE "lease"
        /\ Only(o)
    <3>1. PICK place \in {"leave", "mark", "release", "drive", "lease"} :
            /\ op' = [op EXCEPT ![o].todo = left, ![o].at = place]
            /\ place = IF ~healthy[r] THEN GivesUp(o)
                       ELSE IF left = {} THEN "drive" ELSE "lease"
      BY <1>4 DEF OperationEnters, GivesUp, Completes
    <3>2. left \in SUBSET Addresses
      BY DEF IInv, TypeOK
    <3> HIDE DEF left, r
    <3>3. /\ OpTyped'
          /\ op'[o].at = place /\ op'[o].kind = op[o].kind
          /\ op'[o].addresses = op[o].addresses /\ op'[o].todo = left
          /\ op'[o].failed = op[o].failed
          /\ Only(o)
      BY <3>1, <3>2, EntersPlace DEF IInv
    <3>4. QED
      BY <3>1, <3>3
  <2>5. /\ op'[o].at \notin {"lease", "drive", "leave"} => \A q \in Resources : holder[q] # o
        /\ op'[o].at \in {"lease", "drive", "leave", "mark", "release"}
        /\ op'[o].at \notin {"lease", "drive"} <=> ~healthy[r]
        /\ op'[o].at = "mark" => op[o].failed /\ op[o].kind # "dual"
    BY <2>4 DEF GivesUp, Completes, Leases
  <2> HIDE DEF a, r, left
  <2>6. \A q \in Resources : \/ holder'[q] = holder[q]
                             \/ q = r /\ healthy[r] /\ holder'[q] = o
    BY <1>0, <2>2, <2>3 DEF Visa!TypeOK
  <2>7. ClientCalls' /\ StopperCalls' /\ Downing'
    BY <2>1, <2>2, <2>6, OperationFrame DEF Moves
  <2>8. TypeOK'
    BY <1>0, <2>1, <2>4 DEF IInv, TypeOK, OpTyped, Ownership!TypeOK
  <2>9. OperationCalls'
    BY <2>2, <2>4, Distinct DEF IInv, OperationCalls, NextLease, Moves, Others, Only
  <2>10. Leasing'
    <3>1. ASSUME NEW p \in Operations, NEW q \in Resources, holder'[q] = p
          PROVE  /\ op'[p].at \in {"lease", "drive", "leave"}
                 /\ op'[p].at \in {"lease", "drive"} => healthy'[q]
      <4>1. CASE p = o
        BY <2>1, <2>2, <2>5, <2>6, <3>1, <4>1 DEF IInv, Leasing
      <4>2. CASE p # o
        BY <2>2, <2>4, <2>6, <3>1, <4>2 DEF IInv, Leasing, Only
      <4>3. QED
        BY <4>1, <4>2
    <3>2. \A c \in Clients, q \in Resources : holder'[q] = c =>
            client'[c].at = "idle" /\ call'[c].at = "idle"
      BY <2>1, <2>2, <2>6, Distinct DEF IInv, Leasing, Moves, Others
    <3>3. \A q \in Resources : holder'[q] = Stopper => estop'.at = "tear"
      BY <2>1, <2>6, Distinct DEF IInv, Leasing
    <3>4. \A p, q \in Resources : holder'[p] = Stopper /\ holder'[q] = Stopper => p = q
      BY <2>6, Distinct DEF IInv, Leasing
    <3>5. QED
      BY <3>1, <3>2, <3>3, <3>4 DEF Leasing
  <2>11. Owning'
    BY <2>1, <2>4, <2>5 DEF IInv, Owning, Only
  <2>12. Ordering'
    <3>1. \A q \in Operations : Taken(q) \subseteq Taken(q)'
      BY <2>4 DEF Taken, left, Only
    <3>2. a \in Taken(o)'
      BY <2>3, <2>4 DEF Taken, left, NextLease, IInv, Ordering
    <3>3. ASSUME NEW q \in Operations
          PROVE  /\ op'[q].todo \subseteq op'[q].addresses
                 /\ \A x \in Taken(q)', y \in op'[q].todo : Rank[x] < Rank[y]
      <4>1. CASE q = o
        <5>1. ASSUME NEW x \in Taken(o)', NEW y \in op'[o].todo
              PROVE  Rank[x] < Rank[y]
          <6>1. y \in op[o].todo /\ y # a /\ y \in Addresses
            BY <2>4 DEF left, IInv, TypeOK
          <6>2. CASE x = a
            <7>1. Rank[a] <= Rank[y] /\ Rank[a] # Rank[y]
              BY <2>3, <6>1, RankAssumption DEF NextLease
            <7>2. Rank[a] \in Int /\ Rank[y] \in Int
              BY <2>3, <6>1, RankAssumption
            <7>3. QED
              BY <6>2, <7>1, <7>2
          <6>3. CASE x # a
            BY <2>4, <6>1, <6>3 DEF Taken, left, IInv, Ordering
          <6>4. QED
            BY <6>2, <6>3
        <5>2. QED
          BY <2>4, <4>1, <5>1 DEF left, IInv, Ordering
      <4>2. CASE q # o
        BY <2>4, <4>2 DEF IInv, Ordering, Only, Taken
      <4>3. QED
        BY <4>1, <4>2
    <3>4. ASSUME NEW t \in Threads, call'[t].at \in Late
          PROVE  call[t].at \in Late /\ call'[t] = call[t] /\ t # o
      BY <2>2, <3>4 DEF Moves, Others, Late
    <3>5. ASSUME NEW t \in Threads, call'[t].at \in Late, NEW q \in Operations,
                 holder'[call'[t].resource] = q
          PROVE  call'[t].address \in Taken(q)'
      <4>1. call[t].resource \in Resources /\ call[o].at \in Late
        BY <2>2, <3>4, <3>5, VisaFacts DEF Late, Moves
      <4>2. CASE holder'[call[t].resource] = holder[call[t].resource]
        BY <3>1, <3>4, <3>5, <4>2 DEF IInv, Ordering
      <4>3. CASE call[t].resource = r /\ holder'[r] = o
        <5>1. call[t].address = a
          BY <1>0, <3>4, <3>5, <4>1, <4>3 DEF IInv, Ordering, a, r
        <5>2. QED
          BY <3>2, <3>4, <3>5, <4>3, <5>1
      <4>4. QED
        BY <2>6, <4>1, <4>2, <4>3
    <3>6. ASSUME NEW b \in Addresses, NEW q \in Operations,
                 table[b] # None, holder'[table[b]] = q
          PROVE  b \in Taken(q)'
      <4>1. table[b] \in Resources /\ call[o].at \in Late
        BY <1>0, <2>2, <3>6 DEF Visa!TypeOK, Late, Moves
      <4>2. CASE holder'[table[b]] = holder[table[b]]
        BY <3>1, <3>6, <4>2 DEF IInv, Ordering
      <4>3. CASE table[b] = r /\ holder'[r] = o
        <5>1. b = a
          BY <1>0, <4>1, <4>3 DEF IInv, Ordering, a, r
        <5>2. QED
          BY <3>2, <3>6, <4>3, <5>1
      <4>4. QED
        BY <2>6, <4>1, <4>2, <4>3
    <3>7. \A t \in Threads : call'[t].at \in Late =>
            /\ \A b \in Addresses : table'[b] = call'[t].resource => call'[t].address = b
            /\ \A u \in Threads : call'[u].at \in Late /\ call'[u].resource = call'[t].resource =>
                 call'[u].address = call'[t].address
      BY <2>2, <3>4 DEF IInv, Ordering
    <3>8. QED
      BY <2>2, <3>3, <3>5, <3>6, <3>7 DEF Ordering
  <2>13. QED
    BY <2>7, <2>8, <2>9, <2>10, <2>11, <2>12 DEF IInv
<1>5. ASSUME NEW r \in Resources, OperationFails(o, r) \/ OperationStumbles(o, r)
      PROVE  IInv'
  <2>1. /\ op[o].at = "drive" /\ call[o].at = "idle" /\ holder[r] = o
        /\ healthy' = [healthy EXCEPT ![r] = FALSE] \/ healthy' = healthy
        /\ UNCHANGED <<owners, table, opened, holder, call, client, estop, freed>>
    BY <1>5 DEF OperationFails, OperationStumbles, OpAt, InCall, Visa!Fails, visaVars
  <2>2. /\ OpTyped'
        /\ op'[o].at = "leave" /\ op'[o].kind = op[o].kind
        /\ op'[o].addresses = op[o].addresses /\ op'[o].todo = op[o].todo
        /\ Only(o)
    <3>1. CASE OperationFails(o, r)
      BY <3>1, FailsPlace DEF IInv, OperationFails
    <3>2. CASE OperationStumbles(o, r)
      BY <3>2, GoesEffect DEF IInv, OperationStumbles
    <3>3. QED
      BY <1>5, <3>1, <3>2
  <2>3. ClientCalls' /\ StopperCalls' /\ Downing'
    BY <2>1, OperationFrame DEF Others
  <2>4. TypeOK'
    BY <1>0, <2>1, <2>2 DEF IInv, TypeOK, OpTyped, Ownership!TypeOK
  <2>5. OperationCalls'
    BY <2>1, <2>2 DEF IInv, OperationCalls, NextLease, Only
  <2>6. Leasing'
    BY <1>0, <2>1, <2>2 DEF IInv, Leasing, Only, Visa!TypeOK
  <2>7. Owning'
    BY <2>1, <2>2 DEF IInv, Owning, Only
  <2>8. Ordering'
    BY <2>1, <2>2, OrderingShrinks DEF Only
  <2>9. QED
    BY <2>3, <2>4, <2>5, <2>6, <2>7, <2>8 DEF IInv
<1>6. ASSUME NEW r \in Resources, OperationExits(o, r)
      PROVE  IInv'
  <2>1. /\ op[o].at \in {"drive", "leave"} /\ call[o].at = "idle" /\ holder[r] = o
        /\ holder' = [holder EXCEPT ![r] = None]
        /\ UNCHANGED <<owners, table, opened, healthy, call, client, estop, freed>>
    BY <1>6 DEF OperationExits, OpAt, InCall, Visa!LeaseExits
  <2>2. PICK place \in {"leave", "mark", "release"} :
          /\ Goes(o, place)
          /\ place # "leave" => \A q \in Resources : holder[q] = o => q = r
          /\ place = "mark" => op[o].failed /\ op[o].kind # "dual"
    BY <1>6 DEF OperationExits, Completes, Leases
  <2>3. /\ OpTyped'
        /\ op'[o].at = place /\ op'[o].kind = op[o].kind
        /\ op'[o].addresses = op[o].addresses /\ op'[o].todo = op[o].todo
        /\ op'[o].failed = op[o].failed
        /\ Only(o)
    BY <2>2, GoesEffect DEF IInv
  <2>4. \A q \in Resources : holder'[q] = IF q = r THEN None ELSE holder[q]
    BY <1>0, <2>1 DEF Visa!TypeOK
  <2>5. ClientCalls' /\ StopperCalls' /\ Downing'
    BY <2>1, <2>4, OperationFrame DEF Others
  <2>6. TypeOK'
    BY <1>0, <2>1, <2>3 DEF IInv, TypeOK, OpTyped, Ownership!TypeOK
  <2>7. OperationCalls'
    BY <2>1, <2>3 DEF IInv, OperationCalls, NextLease, Only
  <2>8. Leasing'
    BY <2>1, <2>2, <2>3, <2>4, Distinct DEF IInv, Leasing, Only
  <2>9. Owning'
    BY <2>1, <2>2, <2>3 DEF IInv, Owning, Only
  <2>10. Ordering'
    BY <2>1, <2>3, <2>4, OrderingShrinks, Distinct DEF Only
  <2>11. QED
    BY <2>5, <2>6, <2>7, <2>8, <2>9, <2>10 DEF IInv
<1>7. ASSUME OperationMarks(o)
      PROVE  IInv'
  <2>1. op[o].at = "mark" /\ UNCHANGED <<owners, client, estop, freed>>
    BY <1>7 DEF OperationMarks
  <2>2. \A r \in Resources : holder[r] # o
    BY <2>1 DEF IInv, Leasing
  <2>3. ASSUME NEW a \in Addresses, Visa!MarkLooks(o, a), UNCHANGED op
        PROVE  IInv'
    <3>1. /\ Moves(o, "idle", "marking")
          /\ call'[o].address = a /\ call'[o].resource = table[a]
          /\ table[a] # None
          /\ UNCHANGED <<table, healthy, holder>>
      BY <1>0, <2>3, MarkLooksEffect
    <3>2. ClientCalls' /\ StopperCalls' /\ Downing'
      BY <2>1, <3>1, OperationFrame DEF Moves
    <3>3. TypeOK'
      BY <1>0, <2>1, <2>3 DEF IInv, TypeOK, OpTyped, Ownership!TypeOK
    <3>4. OperationCalls'
      BY <1>0, <2>1, <2>3, <3>1, Distinct DEF IInv, OperationCalls, NextLease,
         Moves, Others
    <3>5. Leasing' /\ Owning'
      BY <2>1, <2>3, <3>1, Distinct DEF IInv, Leasing, Owning, Moves, Others
    <3>6. Ordering'
      BY <1>0, <2>3, <3>1, OrderingLooks DEF Late, Moves
    <3>7. QED
      BY <3>2, <3>3, <3>4, <3>5, <3>6 DEF IInv
  <2>4. CASE Visa!Marks(o) /\ Goes(o, "release")
    <3>1. /\ Moves(o, "marking", "idle")
          /\ holder[call[o].resource] = None
          /\ healthy' = [healthy EXCEPT ![call[o].resource] = FALSE]
          /\ UNCHANGED <<table, holder>>
      BY <1>0, <2>4, MarksEffect
    <3>2. /\ OpTyped'
          /\ op'[o].at = "release" /\ op'[o].kind = op[o].kind
          /\ op'[o].addresses = op[o].addresses /\ op'[o].todo = op[o].todo
          /\ op'[o].failed = op[o].failed
          /\ Only(o)
      BY <2>4, GoesEffect DEF IInv
    <3>3. ClientCalls' /\ StopperCalls' /\ Downing'
      BY <2>1, <3>1, OperationFrame DEF Moves
    <3>4. TypeOK'
      BY <1>0, <2>1, <3>2 DEF IInv, TypeOK, OpTyped, Ownership!TypeOK
    <3>5. OperationCalls'
      BY <3>1, <3>2, Distinct DEF IInv, OperationCalls, NextLease, Moves, Others,
         Only
    <3>6. Leasing'
      <4>1. \A r \in Resources : holder[r] # None => healthy'[r] = healthy[r]
        BY <1>0, <3>1 DEF Visa!TypeOK
      <4>2. QED
        BY <2>1, <2>2, <3>1, <3>2, <4>1, Distinct DEF IInv, Leasing, Moves,
           Others, Only
    <3>7. Owning'
      BY <2>1, <3>2 DEF IInv, Owning, Only
    <3>8. Ordering'
      BY <3>1, <3>2, OrderingShrinks DEF Moves, Others, Only, Late
    <3>9. QED
      BY <3>3, <3>4, <3>5, <3>6, <3>7, <3>8 DEF IInv
  <2>5. CASE call[o].at = "idle" /\ UNCHANGED visaVars /\ Goes(o, "release")
    <3>1. UNCHANGED <<table, opened, healthy, holder, call>>
      BY <2>5 DEF visaVars
    <3>2. /\ OpTyped'
          /\ op'[o].at = "release" /\ op'[o].kind = op[o].kind
          /\ op'[o].addresses = op[o].addresses /\ op'[o].todo = op[o].todo
          /\ op'[o].failed = op[o].failed
          /\ Only(o)
      BY <2>5, GoesEffect DEF IInv
    <3>3. ClientCalls' /\ StopperCalls' /\ Downing'
      BY <2>1, <3>1, OperationFrame DEF Others
    <3>4. TypeOK'
      BY <1>0, <2>1, <3>2 DEF IInv, TypeOK, OpTyped, Ownership!TypeOK
    <3>5. OperationCalls'
      BY <2>5, <3>1, <3>2 DEF IInv, OperationCalls, NextLease, Only
    <3>6. Leasing'
      BY <2>1, <2>2, <3>1, <3>2 DEF IInv, Leasing, Only
    <3>7. Owning'
      BY <2>1, <3>2 DEF IInv, Owning, Only
    <3>8. Ordering'
      BY <3>1, <3>2, OrderingShrinks DEF Only
    <3>9. QED
      BY <3>3, <3>4, <3>5, <3>6, <3>7, <3>8 DEF IInv
  <2>6. CASE call[o].at = "idle" /\ UNCHANGED visaVars /\ Ends(o)
    <3>1. /\ OpTyped'
          /\ op'[o] = [at |-> "over", kind |-> "agent", addresses |-> {}, todo |-> {}, failed |-> FALSE]
          /\ Only(o)
      BY <2>6, EndsEffect DEF IInv
    <3>2. owners' \in [Addresses -> Operations \union {None}]
      BY <2>1 DEF IInv, TypeOK, Ownership!TypeOK
    <3>3. QED
      BY <1>0, <2>1, <2>2, <2>6, <3>1, <3>2, EndStep
  <2>7. op[o].addresses \subseteq Addresses
    BY DEF IInv, TypeOK
  <2>8. QED
    BY <1>7, <2>3, <2>4, <2>5, <2>6, <2>7 DEF OperationMarks, InCall
<1>8. ASSUME OperationReleases(o)
      PROVE  IInv'
  <2>1. /\ op[o].at = "release" /\ call[o].at = "idle"
        /\ Ends(o)
        /\ Ownership!ReleaseMany(op[o].addresses, o)
        /\ UNCHANGED <<visaVars, client, estop, freed>>
    BY <1>8 DEF OperationReleases, OpAt, InCall
  <2>2. \A r \in Resources : holder[r] # o
    BY <2>1 DEF IInv, Leasing
  <2>3. /\ OpTyped'
        /\ op'[o] = [at |-> "over", kind |-> "agent", addresses |-> {}, todo |-> {}, failed |-> FALSE]
        /\ Only(o)
    BY <2>1, EndsEffect DEF IInv
  <2>4. owners' \in [Addresses -> Operations \union {None}]
    BY <2>1 DEF IInv, TypeOK, Ownership!TypeOK, Ownership!ReleaseMany
  <2>5. \A a \in Addresses : owners'[a] = owners[a] \/ (owners[a] = o /\ owners'[a] = None)
    BY <2>1 DEF Ownership!ReleaseMany
  <2>6. QED
    BY <1>0, <2>1, <2>2, <2>3, <2>4, <2>5, EndStep
<1>9. QED
  BY <1>1, <1>2, <1>3, <1>4, <1>5, <1>6, <1>7, <1>8 DEF Operate
-----------------------------------------------------------------------------
(* The steps of a client.                                                  *)

(* What a client does to its place.                                        *)
ClientTyped ==
  client \in [Clients ->
    [ at : {"idle", "checked", "closing", "reopen"},
      address : Addresses \union {None}, again : BOOLEAN ]]

Alone(c) == \A d \in Clients : d # c => client'[d] = client[d]

(* A client goes on to a place ...                                           *)
LEMMA ClientPlace ==
  ASSUME TypeOK, NEW c \in Clients,
         NEW place \in {"idle", "checked", "closing", "reopen"},
         ClientGoes(c, place)
  PROVE  /\ ClientTyped' /\ Alone(c)
         /\ client'[c].at = place /\ client'[c].address = client[c].address
BY DEF TypeOK, ClientTyped, ClientGoes, Alone

(* ... or ends its request.                                                  *)
LEMMA ClientEnds ==
  ASSUME TypeOK, NEW c \in Clients, client' = [client EXCEPT ![c] = IdleClient]
  PROVE  ClientTyped' /\ Alone(c) /\ client'[c].at = "idle"
BY DEF TypeOK, ClientTyped, IdleClient, Alone

(* Every step of a request to connect, disconnect, reconnect or command.     *)
LEMMA ClientStep ==
  ASSUME IInv, VInv, VInv', NEW c \in Clients,
         \/ /\ ~estop.final
            /\ \E a \in Addresses :
                 \/ ClientConnects(c, a) \/ ClientCommands(c, a)
                 \/ \E again \in BOOLEAN : ClientChecks(c, a, again)
         \/ Serve(c)
  PROVE  IInv'
<1>0. Visa!TypeOK /\ Visa!TypeOK' /\ c \in Threads /\ c # None /\ c # Stopper
  BY Distinct DEF VInv, Sessions!IInv, Sessions!TypeOK, Visa!TypeOK
(* The shutdown has not begun.                                             *)
<1>1. ~estop.final
  <2>1. CASE ClientDisconnects(c) \/ ClientReopens(c)
    BY <2>1 DEF IInv, Downing, ClientDisconnects, ClientReopens, ClientAt
  <2>2. CASE \E closed \in BOOLEAN : ClientCloses(c, closed)
    BY <2>2 DEF IInv, Downing, ClientCloses
  <2>3. CASE Visa!Connect(c) \/ Visa!LeaseEnters(c)
    BY <1>0, <2>3, ConnectEffect, EntersEffect DEF IInv, Downing, Moves
  <2>4. ASSUME NEW r \in Resources, Visa!LeaseExits(c, r) \/ Visa!Fails(c, r)
        PROVE  ~estop.final
    BY <2>4 DEF IInv, Downing, Visa!LeaseExits, Visa!Fails
  <2>5. QED
    BY <2>1, <2>2, <2>3, <2>4 DEF Serve, ClientTalks
<1>2. /\ UNCHANGED <<owners, op, estop, freed>>
      /\ Others(c) => OperationCalls' /\ StopperCalls' /\ Owning'
      /\ Downing'
  <2>1. UNCHANGED <<owners, op, estop, freed>>
    BY DEF ClientConnects, ClientCommands, ClientChecks, Serve, ClientDisconnects,
           ClientReopens, ClientTalks, ClientCloses
  <2>2. QED
    BY <1>1, <2>1, ClientFrame DEF IInv, Downing
(* Nothing but the order of the leases is left to show of the others.      *)
<1>3. ASSUME Others(c), ClientTyped', Alone(c), Ordering',
             \A r \in Resources : healthy'[r] = healthy[r] \/ holder[r] = c,
             \A r \in Resources :
               \/ holder'[r] = holder[r]
               \/ holder'[r] = None
               \/ holder'[r] = c,
             call'[c].at \in {"idle", "opening", "identifying", "entering", "closing"},
             client'[c].at # "idle" => client'[c].address \in Addresses,
             client'[c].at \in {"checked", "reopen"} => call'[c].at = "idle",
             client'[c].at = "closing" <=> call'[c].at = "closing",
             \A r \in Resources : holder'[r] = c =>
               client'[c].at = "idle" /\ call'[c].at = "idle"
      PROVE  IInv'
  <2>1. TypeOK'
    BY <1>0, <1>2, <1>3 DEF IInv, TypeOK, ClientTyped, Ownership!TypeOK
  <2>2. \A d \in Clients : d # c => call'[d] = call[d] /\ client'[d] = client[d]
    BY <1>3, Distinct DEF Others, Alone
  <2>3. ClientCalls'
    BY <1>3, <2>2 DEF IInv, ClientCalls
  <2>4. Leasing'
    <3>1. ASSUME NEW r \in Resources, NEW o \in Operations, holder'[r] = o
          PROVE  holder[r] = o /\ healthy'[r] = healthy[r]
      BY <1>0, <1>3, <3>1, Distinct
    <3>2. \A o \in Operations, r \in Resources : holder'[r] = o =>
            /\ op'[o].at \in {"lease", "drive", "leave"}
            /\ op'[o].at \in {"lease", "drive"} => healthy'[r]
      BY <1>2, <3>1 DEF IInv, Leasing
    <3>3. \A d \in Clients, r \in Resources : holder'[r] = d =>
            client'[d].at = "idle" /\ call'[d].at = "idle"
      BY <1>3, <2>2, Distinct DEF IInv, Leasing
    <3>4. \A r \in Resources : holder'[r] = Stopper => estop'.at = "tear"
      BY <1>0, <1>2, <1>3, Distinct DEF IInv, Leasing
    <3>5. \A q, r \in Resources : holder'[q] = Stopper /\ holder'[r] = Stopper => q = r
      BY <1>0, <1>3, Distinct DEF IInv, Leasing
    <3>6. QED
      BY <3>2, <3>3, <3>4, <3>5 DEF Leasing
  <2>5. QED
    BY <1>2, <1>3, <2>1, <2>3, <2>4 DEF IInv
(* Nor that, where a call ends, or no session is looked up.                *)
<1>4. ASSUME Others(c), call'[c].at \notin Late,
             \A a \in Addresses : table'[a] \in {table[a], None},
             \A r \in Resources :
               \/ holder'[r] = holder[r]
               \/ holder'[r] = None
               \/ holder'[r] = c
      PROVE  Ordering'
  <2>1. \A t \in Threads : call'[t].at \in Late => call'[t] = call[t]
    BY <1>4 DEF Others
  <2>2. \A o \in Operations, r \in Resources : holder'[r] = o => holder[r] = o
    BY <1>4, Distinct
  <2>3. QED
    BY <1>2, <1>4, <2>1, <2>2, OrderingShrinks
<1>5. ASSUME NEW a \in Addresses, ClientConnects(c, a)
      PROVE  IInv'
  <2>1. /\ Moves(c, "idle", "opening") /\ UNCHANGED <<table, healthy, holder>>
        /\ client[c].at = "idle" /\ UNCHANGED client
        /\ \A r \in Resources : holder[r] # c
    BY <1>0, <1>5, ConnectLooksEffect DEF ClientConnects, ClientFree, ClientAt,
       Leases
  <2>2. Ordering'
    BY <1>4, <2>1 DEF Moves, Late
  <2>3. ClientTyped' /\ Alone(c)
    BY <2>1 DEF IInv, TypeOK, ClientTyped, Alone
  <2>4. QED
    BY <1>3, <2>1, <2>2, <2>3 DEF Moves
<1>6. ASSUME NEW a \in Addresses, ClientCommands(c, a)
      PROVE  IInv'
  <2>1. /\ Moves(c, "idle", "entering") /\ UNCHANGED <<table, healthy, holder>>
        /\ call'[c].address = a /\ call'[c].resource = table[a] /\ table[a] # None
        /\ client[c].at = "idle" /\ UNCHANGED client
        /\ \A r \in Resources : holder[r] # c
    BY <1>0, <1>6, LooksEffect DEF ClientCommands, ClientFree, ClientAt, Leases
  <2>2. Ordering'
    BY <1>0, <1>2, <2>1, OrderingLooks DEF Moves, Late
  <2>3. ClientTyped' /\ Alone(c)
    BY <2>1 DEF IInv, TypeOK, ClientTyped, Alone
  <2>4. QED
    BY <1>3, <2>1, <2>2, <2>3 DEF Moves
<1>7. ASSUME NEW a \in Addresses, NEW again \in BOOLEAN, ClientChecks(c, a, again)
      PROVE  IInv'
  <2>1. /\ UNCHANGED <<table, opened, healthy, holder, call>>
        /\ client[c].at = "idle" /\ call[c].at = "idle"
        /\ client' = [client EXCEPT ![c] = [at |-> "checked", address |-> a, again |-> again]]
        /\ \A r \in Resources : holder[r] # c
    BY <1>7 DEF ClientChecks, ClientFree, ClientAt, InCall, Leases, visaVars
  <2>2. Others(c) /\ Ordering'
    BY <1>4, <2>1 DEF Others, Late
  <2>3. ClientTyped' /\ Alone(c) /\ client'[c].at = "checked" /\ client'[c].address = a
    BY <2>1 DEF IInv, TypeOK, ClientTyped, Alone
  <2>4. QED
    BY <1>3, <2>1, <2>2, <2>3
<1>8. ASSUME ClientDisconnects(c)
      PROVE  IInv'
  <2>1. /\ client[c].at = "checked" /\ call[c].at = "idle"
        /\ client[c].address \in Addresses
        /\ \A r \in Resources : holder[r] # c
    BY <1>8 DEF ClientDisconnects, ClientAt, InCall, IInv, ClientCalls, Leasing
  <2>2. CASE Visa!DisconnectPops(c, client[c].address) /\ ClientGoes(c, "closing")
    <3>1. /\ Moves(c, "idle", "closing") /\ UNCHANGED <<healthy, holder>>
          /\ call'[c].address = client[c].address
          /\ call'[c].resource = table[client[c].address]
          /\ table[client[c].address] # None
          /\ table' = [table EXCEPT ![client[c].address] = None]
      BY <1>0, <2>1, <2>2, PopsEffect
    <3>2. \A b \in Addresses : table'[b] \in {table[b], None}
      BY <1>0, <3>1 DEF Visa!TypeOK
    <3>3. Ordering'
      BY <1>0, <1>2, <2>1, <3>1, <3>2, OrderingLooks DEF Moves, Late
    <3>4. ClientTyped' /\ Alone(c) /\ client'[c].at = "closing"
            /\ client'[c].address = client[c].address
      BY <2>2, ClientPlace DEF IInv
    <3>5. QED
      BY <1>3, <2>1, <3>1, <3>3, <3>4 DEF Moves
  <2>3. ASSUME UNCHANGED visaVars, ClientTyped', Alone(c),
               client'[c].at = "idle"
                 \/ (client'[c].at = "reopen" /\ client'[c].address = client[c].address)
        PROVE  IInv'
    <3>1. UNCHANGED <<table, opened, healthy, holder, call>>
      BY <2>3 DEF visaVars
    <3>2. Others(c) /\ Ordering'
      BY <1>4, <2>1, <3>1 DEF Others, Late
    <3>3. QED
      BY <1>3, <2>1, <2>3, <3>1, <3>2
  <2>4. CASE UNCHANGED visaVars /\ ClientGoes(c, "reopen")
    BY <2>3, <2>4, ClientPlace DEF IInv
  <2>5. CASE UNCHANGED visaVars /\ client' = [client EXCEPT ![c] = IdleClient]
    BY <2>3, <2>5, ClientEnds DEF IInv
  <2>6. QED
    BY <1>8, <2>2, <2>4, <2>5 DEF ClientDisconnects
<1>9. ASSUME NEW closed \in BOOLEAN, ClientCloses(c, closed)
      PROVE  IInv'
  <2>1. /\ client[c].at = "closing" /\ client[c].address \in Addresses
        /\ Moves(c, "closing", "idle") /\ UNCHANGED <<table, healthy, holder>>
        /\ \A r \in Resources : holder[r] # c
    BY <1>0, <1>9, ClosesEffect DEF ClientCloses, IInv, ClientCalls, Leasing
  <2>2. /\ ClientTyped' /\ Alone(c)
        /\ \/ client'[c].at = "idle"
           \/ client'[c].at = "reopen" /\ client'[c].address = client[c].address
    BY <1>9, ClientPlace, ClientEnds DEF ClientCloses, IInv
  <2>3. Ordering'
    BY <1>4, <2>1 DEF Moves, Late
  <2>4. QED
    BY <1>3, <2>1, <2>2, <2>3 DEF Moves
<1>10. ASSUME ClientReopens(c)
       PROVE  IInv'
  <2>1. /\ client[c].at = "reopen" /\ call[c].at = "idle"
        /\ client[c].address \in Addresses
        /\ client' = [client EXCEPT ![c] = IdleClient]
        /\ \A r \in Resources : holder[r] # c
    BY <1>10 DEF ClientReopens, ClientAt, InCall, IInv, ClientCalls, Leasing
  <2>2. /\ Others(c) /\ call'[c].at \in {"idle", "opening"}
        /\ UNCHANGED <<table, healthy, holder>>
    <3>1. CASE Visa!ConnectLooks(c, client[c].address)
      BY <1>0, <2>1, <3>1, ConnectLooksEffect DEF Moves
    <3>2. CASE UNCHANGED visaVars
      BY <2>1, <3>2 DEF visaVars, Others
    <3>3. QED
      BY <1>10, <3>1, <3>2 DEF ClientReopens
  <2>3. ClientTyped' /\ Alone(c) /\ client'[c].at = "idle"
    BY <2>1, ClientEnds DEF IInv
  <2>4. Ordering'
    BY <1>4, <2>2 DEF Late
  <2>5. QED
    BY <1>3, <2>1, <2>2, <2>3, <2>4
<1>11. ASSUME ClientTalks(c)
       PROVE  IInv'
  <2>1. client[c].at = "idle" /\ UNCHANGED client /\ ClientTyped' /\ Alone(c)
    BY <1>11 DEF ClientTalks, IInv, TypeOK, ClientTyped, Alone
  <2>2. CASE Visa!Connect(c)
    <3>1. /\ call[c].at \in {"opening", "identifying"}
          /\ call'[c].at \in {"identifying", "idle"}
          /\ Others(c)
          /\ \/ table' = table
             \/ /\ call[c].at = "identifying" /\ call'[c].at = "idle"
                /\ table' = [table EXCEPT ![call[c].address] = call[c].resource]
          /\ UNCHANGED <<healthy, holder>>
      BY <1>0, <2>2, ConnectEffect
    <3>2. \A r \in Resources : holder[r] # c
      BY <3>1 DEF IInv, Leasing
    <3>3. Ordering'
      <4>1. CASE table' = table
        BY <1>4, <3>1, <4>1 DEF Late
      <4>2. CASE call[c].at = "identifying"
                 /\ table' = [table EXCEPT ![call[c].address] = call[c].resource]
        <5> DEFINE n == call[c].resource
        <5>1. /\ n \in Resources /\ n # None /\ holder[n] = None
              /\ \A u \in Threads : call[u].at \in Late => call[u].resource # n
          BY <1>0, <4>2, VisaFacts, ThreadAssumption
        <5>2. \A a \in Addresses : table'[a] \in {table[a], n}
          BY <1>0, <4>2 DEF Visa!TypeOK
        <5> HIDE DEF n
        <5>3. \A t \in Threads : call'[t].at \in Late => call'[t] = call[t]
          BY <3>1 DEF Others, Late
        <5>4. \A o \in Operations : Taken(o)' = Taken(o)
          BY <1>2 DEF Taken
        <5>5. \A o \in Operations :
                /\ op'[o].todo \subseteq op'[o].addresses
                /\ \A a \in Taken(o)', b \in op'[o].todo : Rank[a] < Rank[b]
          BY <1>2, <5>4 DEF IInv, Ordering
        <5>6. \A t \in Threads : call'[t].at \in Late =>
                /\ \A a \in Addresses : table'[a] = call'[t].resource => call'[t].address = a
                /\ \A u \in Threads :
                     call'[u].at \in Late /\ call'[u].resource = call'[t].resource =>
                       call'[u].address = call'[t].address
                /\ \A o \in Operations :
                     holder'[call'[t].resource] = o => call'[t].address \in Taken(o)'
          BY <3>1, <5>1, <5>2, <5>3, <5>4 DEF IInv, Ordering
        <5>7. \A a \in Addresses, o \in Operations :
                table'[a] # None /\ holder'[table'[a]] = o => a \in Taken(o)'
          BY <3>1, <5>1, <5>2, <5>4, Distinct DEF IInv, Ordering
        <5>8. QED
          BY <5>5, <5>6, <5>7 DEF Ordering
      <4>3. QED
        BY <3>1, <4>1, <4>2
    <3>4. QED
      BY <1>3, <2>1, <3>1, <3>2, <3>3
  <2>3. CASE Visa!LeaseEnters(c)
    <3>1. /\ Moves(c, "entering", "idle") /\ UNCHANGED <<table, healthy>>
          /\ holder' = IF healthy[call[c].resource]
                         THEN [holder EXCEPT ![call[c].resource] = c] ELSE holder
      BY <1>0, <2>3, EntersEffect
    <3>2. \A r \in Resources : holder'[r] = holder[r] \/ holder'[r] = c
      BY <1>0, <3>1 DEF Visa!TypeOK
    <3>3. Ordering'
      BY <1>4, <3>1, <3>2 DEF Moves, Late
    <3>4. QED
      BY <1>3, <2>1, <3>1, <3>2, <3>3 DEF Moves
  <2>4. ASSUME NEW r \in Resources, Visa!LeaseExits(c, r) \/ Visa!Fails(c, r)
        PROVE  IInv'
    <3>1. /\ holder[r] = c /\ UNCHANGED <<table, call>>
          /\ \A q \in Resources : holder'[q] \in {holder[q], None}
          /\ \A q \in Resources : healthy'[q] = healthy[q] \/ holder[q] = c
      BY <1>0, <2>4 DEF Visa!TypeOK, Visa!LeaseExits, Visa!Fails
    <3>2. call[c].at = "idle"
      BY <3>1 DEF IInv, Leasing
    <3>3. Others(c) /\ Ordering'
      BY <1>4, <3>1, <3>2 DEF Others, Late
    <3>4. QED
      BY <1>3, <2>1, <3>1, <3>2, <3>3
  <2>5. QED
    BY <1>11, <2>2, <2>3, <2>4 DEF ClientTalks
<1>12. QED
  BY <1>5, <1>6, <1>7, <1>8, <1>9, <1>10, <1>11 DEF Serve

-----------------------------------------------------------------------------
(* The steps of the emergency stop and of the shutdown.                    *)
StopTyped ==
  estop \in
    [ todo : SUBSET (Addresses \X Operations),
      at : {"idle", "lease", "tear", "release", "close", "down"},
      address : Addresses \union {None}, operation : Operations \union {None},
      final : BOOLEAN ]

(* Where the stop goes when it is done with an address.                    *)
LEMMA GoesOn ==
  ASSUME TypeOK, StopGoesOn
  PROVE  /\ StopTyped'
         /\ estop'.at \in {"lease", "close", "idle"}
         /\ estop'.at = "close" => estop.final
         /\ estop'.final = estop.final
<1>1. estop' = [todo |-> estop.todo, at |-> StopRests(estop.todo, estop.final),
                address |-> None, operation |-> None, final |-> estop.final]
  BY DEF TypeOK, StopGoesOn
<1>2. QED
  BY <1>1 DEF TypeOK, StopTyped, StopRests

(* Every step of the emergency stop and of the shutdown.                     *)
LEMMA StopperStep ==
  ASSUME IInv, VInv, VInv',
         \/ ~estop.final /\ (StopSnapshots \/ ShutdownBegins)
         \/ EmergencyStop \/ Shutdown
  PROVE  IInv'
<1>0. Visa!TypeOK /\ Visa!TypeOK' /\ Stopper \in Threads /\ Stopper # None
  BY Distinct DEF VInv, Sessions!IInv, Sessions!TypeOK, Visa!TypeOK
(* What is left to show when neither the clients nor the operations move.  *)
<1>1. ASSUME UNCHANGED <<op, client>>, Others(Stopper),
             StopTyped', Ownership!TypeOK', freed' \subseteq Operations,
             \A r \in Resources : healthy'[r] = healthy[r] \/ holder[r] = Stopper,
             \A r \in Resources :
               \/ holder'[r] = holder[r]
               \/ holder'[r] = None
               \/ holder'[r] = Stopper,
             \A r \in Resources : holder'[r] = Stopper => estop'.at = "tear",
             \A q, r \in Resources : holder'[q] = Stopper /\ holder'[r] = Stopper => q = r,
             StopperCalls', Owning', Ordering', Downing'
      PROVE  IInv'
  <2>1. OperationCalls' /\ ClientCalls'
    BY <1>1, StopperFrame
  <2>2. TypeOK'
    BY <1>0, <1>1 DEF IInv, TypeOK, StopTyped
  <2>3. Leasing'
    <3>1. ASSUME NEW r \in Resources, NEW o \in Operations, holder'[r] = o
          PROVE  holder[r] = o /\ healthy'[r] = healthy[r]
      BY <1>0, <1>1, <3>1, Distinct
    <3>2. \A o \in Operations, r \in Resources : holder'[r] = o =>
            /\ op'[o].at \in {"lease", "drive", "leave"}
            /\ op'[o].at \in {"lease", "drive"} => healthy'[r]
      BY <1>1, <3>1 DEF IInv, Leasing
    <3>3. \A c \in Clients, r \in Resources : holder'[r] = c =>
            client'[c].at = "idle" /\ call'[c].at = "idle"
      BY <1>1, Distinct DEF IInv, Leasing, Others
    <3>4. QED
      BY <1>1, <3>2, <3>3 DEF Leasing
  <2>4. QED
    BY <1>1, <2>1, <2>2, <2>3 DEF IInv
(* Nor is there anything to show of the order of the leases, where a call  *)
(* ends.                                                                   *)
<1>2. ASSUME UNCHANGED op, Others(Stopper), call'[Stopper].at \notin Late,
             \A a \in Addresses : table'[a] \in {table[a], None},
             \A r \in Resources :
               \/ holder'[r] = holder[r]
               \/ holder'[r] = None
               \/ holder'[r] = Stopper
      PROVE  Ordering'
  <2>1. \A t \in Threads : call'[t].at \in Late => call'[t] = call[t]
    BY <1>2 DEF Others
  <2>2. \A o \in Operations, r \in Resources : holder'[r] = o => holder[r] = o
    BY <1>2, Distinct
  <2>3. QED
    BY <1>2, <2>1, <2>2, OrderingShrinks
(* Nor of the shutdown, where it neither begins nor ends.                  *)
<1>3. ASSUME UNCHANGED client, Others(Stopper), estop'.final = estop.final,
             estop'.at \in {"close", "down"} => estop.final,
             estop'.at # "down",
             \A r \in Resources :
               \/ holder'[r] = holder[r]
               \/ holder'[r] = None
               \/ holder'[r] = Stopper
      PROVE  Downing'
  BY <1>3, Distinct DEF IInv, Downing, Others
<1>4. ASSUME UNCHANGED <<owners, op, freed>>
      PROVE  Ownership!TypeOK' /\ freed' \subseteq Operations /\ Owning'
  BY <1>4 DEF IInv, TypeOK, Ownership!TypeOK, Owning
<1>5. CASE StopSnapshots \/ (ShutdownBegins /\ ~estop.final)
  <2>1. /\ UNCHANGED <<owners, table, opened, healthy, holder, call, op, client, freed>>
        /\ estop = IdleStop
    BY <1>5 DEF StopSnapshots, ShutdownBegins, visaVars
  <2>2. PICK final \in BOOLEAN, place \in {"lease", "close"} :
          /\ estop' = [todo |-> Owned, at |-> place, address |-> None,
                       operation |-> None, final |-> final]
          /\ place = "close" => final
          /\ final => ShutdownBegins
    BY <1>5 DEF StopSnapshots, ShutdownBegins, IdleStop, StopRests
  <2>3. call[Stopper].at = "idle"
    BY <2>1 DEF IInv, StopperCalls, IdleStop
  <2>4. /\ StopTyped' /\ StopperCalls'
        /\ \A r \in Resources : holder'[r] # Stopper
    BY <2>1, <2>2, <2>3 DEF StopTyped, Owned, IInv, StopperCalls, Leasing, IdleStop
  <2>5. Downing'
    <3>1. ASSUME ShutdownBegins, NEW c \in Clients
          PROVE  /\ client[c].at = "idle" /\ call[c].at = "idle"
                 /\ \A r \in Resources : holder[r] # c
      BY <3>1 DEF ShutdownBegins, HandlersIdle, IdleClient, ClientFree, ClientAt,
                  InCall, Leases
    <3>2. QED
      BY <2>1, <2>2, <3>1 DEF Downing
  <2>6. Ordering'
    BY <1>2, <2>1, <2>3 DEF Others, Late
  <2>7. QED
    BY <1>1, <1>4, <2>1, <2>4, <2>5, <2>6 DEF Others
<1>6. ASSUME NEW a \in Addresses, NEW o \in Operations, StopLooks(a, o)
      PROVE  IInv'
  <2>1. /\ estop.at = "lease" /\ call[Stopper].at = "idle"
        /\ UNCHANGED <<owners, op, client, freed>>
        /\ \A r \in Resources : holder[r] # Stopper
    BY <1>6 DEF StopLooks, InCall, IInv, Leasing
  <2>2. CASE /\ Visa!LeaseLooks(Stopper, a)
             /\ estop' = [estop EXCEPT !.todo = estop.todo \ {<<a, o>>},
                                       !.address = a, !.operation = o]
    <3>1. /\ Moves(Stopper, "idle", "entering") /\ UNCHANGED <<table, healthy, holder>>
          /\ call'[Stopper].address = a /\ call'[Stopper].resource = table[a]
          /\ table[a] # None
      BY <1>0, <2>2, LooksEffect
    <3>2. estop' = [todo |-> estop.todo \ {<<a, o>>}, at |-> "lease", address |-> a,
                    operation |-> o, final |-> estop.final]
      BY <2>1, <2>2 DEF IInv, TypeOK
    <3>3. StopTyped' /\ StopperCalls'
      BY <3>1, <3>2 DEF IInv, TypeOK, StopTyped, StopperCalls, Moves
    <3>4. Ordering'
      BY <1>0, <2>1, <3>1, OrderingLooks DEF Moves, Late
    <3>5. Downing'
      BY <1>3, <2>1, <3>1, <3>2 DEF Moves
    <3>6. QED
      BY <1>1, <1>4, <2>1, <3>1, <3>3, <3>4, <3>5 DEF Moves
  <2>3. CASE /\ UNCHANGED visaVars
             /\ estop' = [estop EXCEPT !.todo = estop.todo \ {<<a, o>>},
                            !.at = StopRests(estop.todo \ {<<a, o>>}, estop.final)]
    <3>1. UNCHANGED <<table, opened, healthy, holder, call>> /\ Others(Stopper)
      BY <2>3 DEF visaVars, Others
    <3>2. PICK place \in {"lease", "close", "idle"} :
            /\ estop' = [todo |-> estop.todo \ {<<a, o>>}, at |-> place,
                         address |-> estop.address, operation |-> estop.operation,
                         final |-> estop.final]
            /\ place = "close" => estop.final
      BY <2>3 DEF IInv, TypeOK, StopRests
    <3>3. StopTyped' /\ StopperCalls'
      BY <2>1, <3>1, <3>2 DEF IInv, TypeOK, StopTyped, StopperCalls
    <3>4. Ordering'
      BY <1>2, <2>1, <3>1 DEF Late
    <3>5. Downing'
      BY <1>3, <2>1, <3>1, <3>2
    <3>6. QED
      BY <1>1, <1>4, <2>1, <3>1, <3>3, <3>4, <3>5
  <2>4. QED
    BY <1>6, <2>2, <2>3 DEF StopLooks
<1>7. CASE StopEnters
  <2>1. /\ Moves(Stopper, "entering", "idle") /\ UNCHANGED <<table, healthy>>
        /\ holder' = IF healthy[call[Stopper].resource]
                       THEN [holder EXCEPT ![call[Stopper].resource] = Stopper] ELSE holder
        /\ UNCHANGED <<owners, op, client, freed>>
    BY <1>0, <1>7, EntersEffect DEF StopEnters
  <2>2. /\ estop.at = "lease"
        /\ estop.address \in Addresses /\ estop.operation \in Operations
        /\ \A r \in Resources : holder[r] # Stopper
    BY <2>1 DEF IInv, StopperCalls, Leasing, Moves
  <2>3. /\ StopTyped' /\ estop'.final = estop.final
        /\ estop'.at \in {"tear", "lease", "close", "idle"}
        /\ estop'.at = "close" => estop.final
        /\ estop'.at = "tear" =>
             estop'.address = estop.address /\ estop'.operation = estop.operation
        /\ healthy[call[Stopper].resource] => estop'.at = "tear"
    <3>1. CASE healthy[call[Stopper].resource]
      <4>1. estop' = [todo |-> estop.todo, at |-> "tear", address |-> estop.address,
                      operation |-> estop.operation, final |-> estop.final]
        BY <1>7, <3>1 DEF StopEnters, IInv, TypeOK
      <4>2. QED
        BY <4>1 DEF IInv, TypeOK, StopTyped
    <3>2. CASE ~healthy[call[Stopper].resource]
      BY <1>7, <3>2, GoesOn DEF StopEnters, IInv
    <3>3. QED
      BY <3>1, <3>2
  <2>4. \A r \in Resources :
          \/ holder'[r] = holder[r]
          \/ /\ holder'[r] = Stopper /\ healthy[call[Stopper].resource]
             /\ r = call[Stopper].resource
    BY <1>0, <2>1 DEF Visa!TypeOK
  <2>5. StopperCalls'
    BY <2>1, <2>2, <2>3 DEF StopperCalls, Moves
  <2>6. Ordering'
    BY <1>2, <2>1, <2>4 DEF Moves, Late
  <2>7. Downing'
    BY <1>3, <2>1, <2>3, <2>4 DEF Moves
  <2>8. QED
    BY <1>1, <1>4, <2>1, <2>2, <2>3, <2>4, <2>5, <2>6, <2>7 DEF Moves
<1>8. ASSUME NEW r \in Resources, NEW safe \in BOOLEAN, StopTears(r, safe)
      PROVE  IInv'
  <2>1. /\ estop.at = "tear" /\ holder[r] = Stopper
        /\ estop.address \in Addresses /\ estop.operation \in Operations
        /\ holder' = [holder EXCEPT ![r] = None]
        /\ UNCHANGED <<owners, table, opened, healthy, call, op, client, freed>>
        /\ call[Stopper].at = "idle"
    BY <1>8 DEF StopTears, Visa!LeaseExits, IInv, StopperCalls
  <2>2. /\ StopTyped' /\ estop'.final = estop.final
        /\ estop'.at \in {"release", "lease", "close", "idle"}
        /\ estop'.at = "close" => estop.final
        /\ estop'.at = "release" =>
             estop'.address = estop.address /\ estop'.operation = estop.operation
    <3>1. CASE safe
      <4>1. estop' = [todo |-> estop.todo, at |-> "release", address |-> estop.address,
                      operation |-> estop.operation, final |-> estop.final]
        BY <1>8, <3>1 DEF StopTears, IInv, TypeOK
      <4>2. QED
        BY <4>1 DEF IInv, TypeOK, StopTyped
    <3>2. CASE ~safe
      BY <1>8, <3>2, GoesOn DEF StopTears, IInv
    <3>3. QED
      BY <3>1, <3>2
  <2>3. \A q \in Resources : holder'[q] = IF q = r THEN None ELSE holder[q]
    BY <1>0, <2>1 DEF Visa!TypeOK
  <2>4. \A q \in Resources : holder'[q] # Stopper
    BY <1>0, <2>1, <2>3 DEF IInv, Leasing
  <2>5. StopperCalls'
    BY <2>1, <2>2 DEF StopperCalls
  <2>6. Others(Stopper) /\ Ordering'
    BY <1>2, <2>1, <2>3 DEF Others, Late
  <2>7. Downing'
    BY <1>3, <2>1, <2>2, <2>3, <2>6
  <2>8. QED
    BY <1>1, <1>4, <2>1, <2>2, <2>3, <2>4, <2>5, <2>6, <2>7
<1>9. ASSUME NEW r \in Resources, StopFails(r)
      PROVE  IInv'
  <2>1. /\ estop.at = "tear" /\ holder[r] = Stopper
        /\ healthy' = [healthy EXCEPT ![r] = FALSE]
        /\ UNCHANGED <<owners, table, opened, holder, call, op, client, estop, freed>>
        /\ call[Stopper].at = "idle"
    BY <1>9 DEF StopFails, Visa!Fails, IInv, StopperCalls
  <2>2. \A q \in Resources : healthy'[q] = healthy[q] \/ holder[q] = Stopper
    BY <1>0, <2>1 DEF Visa!TypeOK
  <2>3. Others(Stopper) /\ Ordering'
    BY <1>2, <2>1 DEF Others, Late
  <2>4. StopTyped' /\ StopperCalls' /\ Downing'
    BY <2>1 DEF IInv, TypeOK, StopTyped, StopperCalls, Downing
  <2>5. \A q, p \in Resources : holder[q] = Stopper /\ holder[p] = Stopper => q = p
    BY DEF IInv, Leasing
  <2>6. QED
    BY <1>1, <1>4, <2>1, <2>2, <2>3, <2>4, <2>5
<1>10. CASE StopReleases
  <2>1. /\ estop.at = "release"
        /\ estop.address \in Addresses /\ estop.operation \in Operations
        /\ UNCHANGED <<table, opened, healthy, holder, call, op, client>>
        /\ call[Stopper].at = "idle"
        /\ \A r \in Resources : holder[r] # Stopper
    BY <1>10 DEF StopReleases, visaVars, IInv, StopperCalls, Leasing
  <2>2. /\ StopTyped' /\ estop'.final = estop.final
        /\ estop'.at \in {"lease", "close", "idle"}
        /\ estop'.at = "close" => estop.final
    BY <1>10, GoesOn DEF StopReleases, IInv
  <2>3. owners' = [a \in Addresses |->
          IF a = estop.address /\ owners[a] = estop.operation THEN None ELSE owners[a]]
    BY <1>10 DEF StopReleases, Ownership!Release, Ownership!ReleaseMany
  <2>4. freed' = IF owners[estop.address] = estop.operation
                   THEN freed \union {estop.operation} ELSE freed
    BY <1>10 DEF StopReleases
  <2>5. Ownership!TypeOK' /\ freed' \subseteq Operations
    BY <2>1, <2>3, <2>4 DEF IInv, TypeOK, Ownership!TypeOK
  <2>6. Owning'
    <3>1. \A o \in Operations : op[o].addresses \subseteq Addresses /\ o # None
      BY Distinct DEF IInv, TypeOK
    <3>2. ASSUME NEW o \in Operations, o \notin freed', NEW a \in Addresses, owners[a] = o
          PROVE  owners'[a] = o /\ o \notin freed
      BY <2>3, <2>4, <3>2
    <3>3. \A o \in Operations : o \notin freed' => o \notin freed
      BY <2>4
    <3>4. \A o \in Operations, a \in Addresses : owners'[a] = o => owners[a] = o
      BY <2>3, <3>1
    <3>5. QED
      BY <2>1, <3>1, <3>2, <3>3, <3>4 DEF IInv, Owning
  <2>7. StopperCalls'
    BY <2>1, <2>2 DEF StopperCalls
  <2>8. Others(Stopper) /\ Ordering'
    BY <1>2, <2>1 DEF Others, Late
  <2>9. Downing'
    BY <1>3, <2>1, <2>2, <2>8
  <2>10. QED
    BY <1>1, <2>1, <2>2, <2>5, <2>6, <2>7, <2>8, <2>9
<1>11. ASSUME NEW a \in Addresses, ShutdownPops(a)
       PROVE  IInv'
  <2>1. /\ Moves(Stopper, "idle", "closing") /\ UNCHANGED <<healthy, holder>>
        /\ call'[Stopper].address = a /\ call'[Stopper].resource = table[a]
        /\ table[a] # None
        /\ table' = [table EXCEPT ![a] = None]
        /\ estop.at = "close" /\ UNCHANGED <<owners, op, client, estop, freed>>
    BY <1>0, <1>11, PopsEffect DEF ShutdownPops
  <2>2. \A b \in Addresses : table'[b] \in {table[b], None}
    BY <1>0, <2>1 DEF Visa!TypeOK
  <2>3. Ordering'
    BY <1>0, <2>1, <2>2, OrderingLooks DEF Moves, Late
  <2>4. /\ StopTyped' /\ StopperCalls'
        /\ \A r \in Resources : holder[r] # Stopper
    BY <2>1 DEF IInv, TypeOK, StopTyped, StopperCalls, Leasing, Moves
  <2>5. Downing'
    BY <1>3, <2>1 DEF Moves, IInv, Downing
  <2>6. QED
    BY <1>1, <1>4, <2>1, <2>3, <2>4, <2>5 DEF Moves
<1>12. CASE ShutdownCloses
  <2>1. /\ Moves(Stopper, "closing", "idle") /\ UNCHANGED <<table, healthy, holder>>
        /\ UNCHANGED <<owners, op, client, estop, freed>>
    BY <1>0, <1>12, ClosesEffect DEF ShutdownCloses
  <2>2. estop.at = "close"
    BY <2>1 DEF IInv, StopperCalls, Moves
  <2>3. Ordering'
    BY <1>2, <2>1 DEF Moves, Late
  <2>4. /\ StopTyped' /\ StopperCalls'
        /\ \A r \in Resources : holder[r] # Stopper
    BY <2>1, <2>2 DEF IInv, TypeOK, StopTyped, StopperCalls, Leasing, Moves
  <2>5. Downing'
    BY <1>3, <2>1, <2>2 DEF Moves, IInv, Downing
  <2>6. QED
    BY <1>1, <1>4, <2>1, <2>3, <2>4, <2>5 DEF Moves
<1>13. CASE ShutdownEnds
  <2>1. /\ UNCHANGED <<owners, table, opened, healthy, holder, call, op, client, freed>>
        /\ estop.at = "close" /\ call[Stopper].at = "idle"
        /\ \A a \in Addresses : table[a] = None
    BY <1>13 DEF ShutdownEnds, visaVars, InCall, Visa!Published
  <2>2. estop' = [todo |-> estop.todo, at |-> "down", address |-> estop.address,
                  operation |-> estop.operation, final |-> estop.final]
    BY <1>13 DEF ShutdownEnds, IInv, TypeOK
  <2>3. Others(Stopper) /\ Ordering'
    BY <1>2, <2>1 DEF Others, Late
  <2>4. /\ StopTyped' /\ StopperCalls' /\ Downing'
        /\ \A r \in Resources : holder[r] # Stopper
    BY <2>1, <2>2 DEF IInv, TypeOK, StopTyped, StopperCalls, Leasing, Downing
  <2>5. QED
    BY <1>1, <1>4, <2>1, <2>3, <2>4
<1>14. QED
  BY <1>5, <1>6, <1>7, <1>8, <1>9, <1>10, <1>11, <1>12, <1>13 DEF EmergencyStop,
     Shutdown

-----------------------------------------------------------------------------
(* Whatever a thread does here to the sessions is a step of VisaSessions.  *)
LEMMA SessionStep ==
  ASSUME IInv, Next
  PROVE  (\E t \in Threads : Visa!Step(t)) \/ UNCHANGED visaVars
<1>1. ASSUME NEW o \in Operations, (\E p \in Plans : OperationOwns(o, p)) \/ Operate(o)
      PROVE  Visa!Step(o) \/ UNCHANGED visaVars
  <2>1. op[o].todo \subseteq Addresses /\ op[o].addresses \subseteq Addresses
    BY DEF IInv, TypeOK
  <2>2. CASE OperationLooks(o)
    BY <2>1, <2>2 DEF OperationLooks, NextLease, Visa!Step
  <2>3. CASE OperationMarks(o)
    BY <2>1, <2>3 DEF OperationMarks, Visa!Step
  <2>4. CASE \E r \in Resources :
               OperationFails(o, r) \/ OperationStumbles(o, r) \/ OperationExits(o, r)
    BY <2>4 DEF OperationFails, OperationStumbles, OperationExits, Visa!Step
  <2>5. QED
    BY <1>1, <2>2, <2>3, <2>4 DEF Operate, OperationOwns, OperationFinds,
       OperationEnters,
       OperationReleases, Visa!Step
<1>2. ASSUME NEW c \in Clients,
             \/ Serve(c)
             \/ \E a \in Addresses :
                  \/ ClientConnects(c, a) \/ ClientCommands(c, a)
                  \/ \E again \in BOOLEAN : ClientChecks(c, a, again)
      PROVE  Visa!Step(c) \/ UNCHANGED visaVars
  <2>1. client[c].at # "idle" => client[c].address \in Addresses
    BY DEF IInv, ClientCalls
  <2>2. CASE ClientDisconnects(c) \/ ClientReopens(c)
    BY <2>1, <2>2 DEF ClientDisconnects, ClientReopens, ClientAt, Visa!Step
  <2>3. CASE ClientTalks(c)
    BY <2>3 DEF ClientTalks, Visa!Step
  <2>4. QED
    BY <1>2, <2>2, <2>3 DEF Serve, ClientConnects, ClientCommands, ClientChecks,
       ClientCloses, Visa!Step
<1>3. ASSUME EmergencyStop \/ Shutdown \/ StopSnapshots \/ ShutdownBegins
      PROVE  Visa!Step(Stopper) \/ UNCHANGED visaVars
  BY <1>3 DEF EmergencyStop, Shutdown, StopSnapshots, ShutdownBegins, StopEnters,
     StopReleases, StopLooks, StopFails, StopTears, ShutdownCloses, ShutdownEnds,
     ShutdownPops, Visa!Step
<1>4. QED
  BY <1>1, <1>2, <1>3, Distinct DEF Next, Requests, IsDown, vars

(* The definitions of VisaSessions, which its proofs are about, are those  *)
(* this module uses.                                                       *)
LEMMA SameStep ==
  ASSUME NEW t \in Threads, Visa!Step(t)
  PROVE  Sessions!Step(t)
BY DEF Visa!Step, Visa!ConnectLooks, Visa!LeaseLooks, Visa!DisconnectPops,
   Visa!MarkLooks,
   Visa!LeaseExits, Visa!Fails, Visa!Connect, Visa!ConnectOpens, Visa!OpenFails,
   Visa!IdentifyFails, Visa!ConnectPublishes, Visa!LeaseEnters, Visa!DisconnectCloses,
   Visa!Marks, Visa!At, Visa!Begins, Visa!Returns, Visa!Idle, Visa!Close, Visa!Free,
   Visa!Published, Visa!Usable, Sessions!Step, Sessions!ConnectLooks, Sessions!LeaseLooks,
   Sessions!DisconnectPops, Sessions!MarkLooks, Sessions!LeaseExits, Sessions!Fails,
   Sessions!Connect, Sessions!ConnectOpens, Sessions!OpenFails, Sessions!IdentifyFails,
   Sessions!ConnectPublishes, Sessions!LeaseEnters, Sessions!DisconnectCloses,
   Sessions!Marks, Sessions!At, Sessions!Begins, Sessions!Returns, Sessions!Idle,
   Sessions!Close, Sessions!Free, Sessions!Published, Sessions!Usable

(* In every state the threads can reach, the invariants hold.              *)
LEMMA Invariance == Spec => [](IInv /\ VInv)
<1>1. Init => IInv /\ VInv
  <2> SUFFICES ASSUME Init
               PROVE  IInv /\ VInv
    OBVIOUS
  <2>1. /\ table = [a \in Addresses |-> None]
        /\ opened = [r \in Resources |-> "unused"]
        /\ healthy = [r \in Resources |-> TRUE]
        /\ holder = [r \in Resources |-> None]
        /\ call = [t \in Threads |-> [at |-> "idle", address |-> None, resource |-> None]]
        /\ owners = [a \in Addresses |-> None]
        /\ op = [o \in Operations |-> IdleOp]
        /\ client = [c \in Clients |-> IdleClient]
        /\ estop = IdleStop
        /\ freed = {}
    BY DEF Init, Visa!Init, Visa!Idle, Ownership!Init
  <2>2. VInv
    BY <2>1 DEF VInv, Sessions!IInv, Sessions!TypeOK, Sessions!CallsInOrder,
       Sessions!Holding, Sessions!Found, Sessions!PublishedIsOpen, Sessions!InHandIsOpen,
       Sessions!OneOwner, Sessions!Published, Sessions!Unheard, Sessions!New, Sessions!Free,
       Sessions!NoneForgotten
  <2>3. TypeOK
    BY <2>1, VisaFacts, <2>2 DEF TypeOK, Ownership!TypeOK, IdleOp, IdleClient,
       IdleStop, Kinds
  <2>4. OperationCalls /\ ClientCalls /\ StopperCalls
    BY <2>1, Distinct DEF OperationCalls, ClientCalls, StopperCalls, IdleOp,
       IdleClient, IdleStop
  <2>5. Leasing /\ Owning
    BY <2>1, Distinct DEF Leasing, Owning, IdleOp
  <2>6. Ordering /\ Downing
    BY <2>1, Distinct DEF Ordering, Downing, Taken, Late, IdleOp, IdleClient,
       IdleStop
  <2>7. QED
    BY <2>2, <2>3, <2>4, <2>5, <2>6 DEF IInv
<1>2. IInv /\ VInv /\ [Next]_vars => (IInv /\ VInv)'
  <2> SUFFICES ASSUME IInv, VInv, [Next]_vars
               PROVE  (IInv /\ VInv)'
    OBVIOUS
  <2>1. CASE UNCHANGED vars
    <3>1. UNCHANGED <<owners, table, opened, healthy, holder, call, op, client, estop, freed>>
      BY <2>1 DEF vars, visaVars
    <3>2. VInv'
      BY <3>1 DEF VInv, Sessions!IInv, Sessions!TypeOK, Sessions!CallsInOrder,
         Sessions!Holding, Sessions!Found, Sessions!PublishedIsOpen, Sessions!InHandIsOpen,
         Sessions!OneOwner, Sessions!Published, Sessions!Unheard, Sessions!New,
         Sessions!Free, Sessions!NoneForgotten, Sessions!InHand
    <3>3. TypeOK'
      BY <3>1 DEF IInv, TypeOK, Visa!TypeOK, Ownership!TypeOK
    <3>4. OperationCalls' /\ ClientCalls' /\ StopperCalls'
      BY <3>1 DEF IInv, OperationCalls, NextLease, ClientCalls, StopperCalls
    <3>5. Leasing' /\ Owning' /\ Ordering' /\ Downing'
      BY <3>1 DEF IInv, Leasing, Owning, Ordering, Taken, Downing
    <3>6. QED
      BY <3>2, <3>3, <3>4, <3>5 DEF IInv
  <2>2. CASE Next
    <3>1. VInv'
      <4>1. ASSUME NEW t \in Threads, Visa!Step(t)
            PROVE  VInv'
        BY <4>1, SameStep, Sessions!StepInv, Sessions!NoneForgottenStep,
           ThreadAssumption
           DEF VInv, Sessions!NoneAssumption
      <4>2. CASE UNCHANGED visaVars
        BY <4>2 DEF visaVars, VInv, Sessions!IInv, Sessions!TypeOK,
           Sessions!CallsInOrder,
           Sessions!Holding, Sessions!Found, Sessions!PublishedIsOpen, Sessions!InHandIsOpen,
           Sessions!OneOwner, Sessions!Published, Sessions!Unheard, Sessions!New,
           Sessions!Free, Sessions!NoneForgotten, Sessions!InHand
      <4>3. QED
        BY <2>2, <4>1, <4>2, SessionStep
    <3>2. IInv'
      <4>1. CASE IsDown
        BY <2>1, <4>1 DEF IsDown
      <4>2. QED
        BY <2>2, <3>1, <4>1, OperationStep, ClientStep, StopperStep DEF Next,
           Requests
    <3>3. QED
      BY <3>1, <3>2
  <2>3. QED
    BY <2>1, <2>2
<1>3. QED
  BY <1>1, <1>2, PTL DEF Spec

-----------------------------------------------------------------------------
(* Ownership, leases, calls and places keep their types.                   *)
THEOREM TypeCorrect == Spec => []TypeOK
<1>1. IInv => TypeOK
  BY DEF IInv
<1>2. QED
  BY <1>1, Invariance, PTL

(* The routes, the stop and the shutdown change the sessions only as the   *)
(* session manager does, so that all that holds of it holds here.          *)
THEOREM SessionsImplemented == Spec => Visa!Spec
<1>1. Init => Visa!Init
  BY DEF Init
<1>2. IInv /\ [Next]_vars => [Visa!Next]_(Visa!vars)
  BY SessionStep DEF Visa!Next, Visa!vars, vars, visaVars
<1>3. QED
  BY <1>1, <1>2, Invariance, PTL DEF Spec, Visa!Spec

(* A thread that drives an instrument under a lease does it for the        *)
(* operation that owns all the instruments of its plan, unless an          *)
(* emergency stop has released one of them.                                *)
THEOREM WhatIsDrivenIsOwned == Spec => []DrivesWhatItOwns
<1>1. IInv => DrivesWhatItOwns
  BY DEF IInv, Leasing, Owning, DrivesWhatItOwns, Leases
<1>2. QED
  BY <1>1, Invariance, PTL

(* Whatever has failed, an operation gives up its addresses before it is   *)
(* over, but for the failed sweep whose completion callback raises.        *)
THEOREM NothingIsLeftOwned == Spec => OverOwnsNothing
<1> DEFINE Given ==
      \A o \in Operations :
        op[o].at # "over" /\ op'[o].at = "over" =>
          \/ \A a \in Addresses : owners'[a] # o
          \/ op[o].kind = "sweep" /\ op[o].failed
<1>1. ASSUME IInv, Next
      PROVE  Given
  <2> SUFFICES ASSUME NEW o \in Operations, op[o].at # "over", op'[o].at = "over"
               PROVE  \/ \A a \in Addresses : owners'[a] # o
                      \/ op[o].kind = "sweep" /\ op[o].failed
    OBVIOUS
  <2>1. PICK q \in Operations : (\E p \in Plans : OperationOwns(q, p)) \/ Operate(q)
    BY <1>1 DEF Next, Requests, Serve, EmergencyStop, Shutdown, IsDown, vars,
       ClientConnects, ClientCommands, ClientChecks, ClientDisconnects, ClientReopens,
       ClientTalks, ClientCloses, StopSnapshots, ShutdownBegins, StopEnters, StopReleases,
       StopLooks, StopFails, StopTears, ShutdownCloses, ShutdownEnds, ShutdownPops
  <2>2. ASSUME NEW place, Goes(q, place), place # "over"
        PROVE  FALSE
    BY <1>1, <2>2 DEF IInv, TypeOK, Goes
  <2>3. CASE OperationReleases(q)
    <3>1. q = o
      BY <1>1, <2>3 DEF OperationReleases, Ends, IInv, TypeOK
    <3>2. QED
      BY <1>1, <2>3, <3>1, Distinct DEF OperationReleases, Ownership!ReleaseMany,
         IInv, Owning
  <2>4. CASE OperationMarks(q)
    <3>1. Ends(q) /\ op[q].at = "mark" /\ op[q].kind # "agent"
      BY <2>2, <2>4 DEF OperationMarks
    <3>2. q = o
      BY <1>1, <3>1 DEF Ends, IInv, TypeOK
    <3>3. QED
      BY <1>1, <3>1, <3>2 DEF IInv, TypeOK, Kinds, Owning
  <2>5. CASE \/ OperationFinds(q) \/ OperationLooks(q)
             \/ \E r \in Resources : OperationExits(q, r) \/ OperationStumbles(q, r)
    BY <2>2, <2>5 DEF OperationFinds, OperationLooks, OperationExits,
       OperationStumbles, GivesUp, Completes
  <2>6. CASE OperationEnters(q)
    BY <1>1, <2>6 DEF OperationEnters, IInv, TypeOK, GivesUp, Completes
  <2>7. CASE \E r \in Resources : OperationFails(q, r)
    BY <1>1, <2>7 DEF OperationFails, IInv, TypeOK
  <2>8. CASE \E p \in Plans : OperationOwns(q, p)
    BY <1>1, <2>8 DEF OperationOwns, IInv, TypeOK
  <2>9. QED
    BY <2>1, <2>3, <2>4, <2>5, <2>6, <2>7, <2>8 DEF Operate
<1>2. IInv /\ [Next]_vars => [Given]_vars
  BY <1>1
<1>3. QED
  BY <1>2, Invariance, PTL DEF Spec, OverOwnsNothing

(* The shutdown disconnects every address.  A session that somebody had on *)
(* lease it waits for, and closes; what a sweep then still believes to     *)
(* drive is closed, and the threads of the requests are gone.              *)
THEOREM ShutdownLeavesNothing == Spec => []DownLeavesNothing
<1>1. ASSUME IInv, VInv, estop.at = "down"
      PROVE  DownLeavesNothing
  <2>1. \A a \in Addresses : table[a] = None
    BY <1>1 DEF IInv, Downing
  <2>2. \A t \in Threads : call[t].at \notin {"identifying", "closing"}
    BY <1>1 DEF IInv, Downing, OperationCalls, Threads
  <2>3. ASSUME NEW r \in Resources, opened[r] = "open"
        PROVE  ~healthy[r]
    BY <1>1, <2>1, <2>2, <2>3, ThreadAssumption
       DEF VInv, Sessions!NoneForgotten, Sessions!InHand
  <2>4. ASSUME NEW o \in Operations, op[o].at = "drive", NEW r \in Leases(o)
        PROVE  opened[r] = "closed"
    <3>1. r \in Resources /\ holder[r] = o /\ healthy[r] /\ o # None
      BY <1>1, <2>4, Distinct DEF Leases, IInv, Leasing
    <3>2. opened[r] # "unused"
      BY <1>1, <3>1 DEF VInv, Sessions!IInv, Sessions!Unheard, Sessions!New,
         Sessions!Free
    <3>3. opened[r] \in {"unused", "open", "closed"}
      BY <1>1, <3>1, VisaFacts DEF Visa!TypeOK
    <3>4. QED
      BY <2>3, <3>1, <3>2, <3>3
  <2>5. QED
    BY <2>1, <2>3, <2>4 DEF DownLeavesNothing, Visa!Published
<1>2. IInv /\ VInv => DownLeavesNothing
  BY <1>1 DEF DownLeavesNothing
<1>3. QED
  BY <1>2, Invariance, PTL

-----------------------------------------------------------------------------
(* Some number of a set of numbers is the least; of the places of the      *)
(* addresses in sorted(addresses), for one.                                *)
LEMMA LeastNumber ==
  ASSUME NEW S \in SUBSET Nat, S # {}
  PROVE  \E x \in S : \A y \in S : x <= y
<1> DEFINE Less == {p \in Nat \X Nat : p[1] < p[2]}
<1>1. IsWellFoundedOn(Less, Nat)
  BY NatLessThanWellFounded DEF OpToRel
<1>2. \E x \in S : \A y \in S : ~ (<<y, x>> \in Less)
  <2> HIDE DEF Less
  <2>1. QED
    BY <1>1, WFMin
<1>3. ASSUME NEW x \in S, NEW y \in S, ~ (<<y, x>> \in Less)
      PROVE  x <= y
  <2>1. x \in Nat /\ y \in Nat /\ <<y, x>> \in Nat \X Nat
    OBVIOUS
  <2>2. QED
    BY <1>3, <2>1
<1>4. QED
  BY <1>2, <1>3

(* A thread that waits for another waits for an address that the other has *)
(* taken; if that one waits too, it is an operation, and asks for an       *)
(* address of a higher rank.                                               *)
LEMMA WaitsClimb ==
  ASSUME IInv, VInv, NEW t \in Threads, NEW u \in Threads, Waits(t, u),
         NEW v \in Threads, Waits(u, v)
  PROVE  Rank[call[t].address] < Rank[call[u].address]
<1>1. /\ call[t].at \in Late /\ call[t].resource \in Resources
      /\ holder[call[t].resource] = u
      /\ call[u].at \in Late
  BY VisaFacts DEF Waits, Late
<1>2. u \in Operations
  <2>1. u \notin Clients
    BY <1>1 DEF IInv, Leasing, Late
  <2>2. u # Stopper
    BY <1>1 DEF IInv, Leasing, StopperCalls, Late
  <2>3. QED
    BY <2>1, <2>2 DEF Threads
<1>3. call[t].address \in Taken(u)
  BY <1>1, <1>2 DEF IInv, Ordering
<1>4. call[u].address \in op[u].todo
  BY <1>1, <1>2 DEF IInv, OperationCalls, Leasing, Late, NextLease
<1>5. QED
  BY <1>2, <1>3, <1>4 DEF IInv, Ordering

(* Leases are taken in the order of sorted(addresses), so that the threads *)
(* of no number of operations, clients and stops wait in a circle: the one *)
(* that asks for the last address of them waits for somebody who does not. *)
THEOREM NobodyWaitsInACircle == Spec => []NoWaitCycle
<1>1. ASSUME IInv, VInv, NEW T \in (SUBSET Threads) \ {{}},
             \A t \in T : \E u \in T : Waits(t, u)
      PROVE  FALSE
  <2> DEFINE n == Cardinality(Addresses)
             Below(t) == n - Rank[call[t].address]
  <2>1. n \in Nat
    BY RankAssumption, FS_CardinalityType
  <2>2. \A t \in T : call[t].address \in Addresses
    BY <1>1, VisaFacts DEF Waits
  <2>3. \A t \in T : Rank[call[t].address] \in 1 .. n
    BY <2>2, RankAssumption
  <2> HIDE DEF n
  <2>4. \A t \in T : Below(t) \in Nat
    BY <2>1, <2>3
  <2>5. PICK t \in T : \A u \in T : Below(t) <= Below(u)
    <3> DEFINE S == {Below(t) : t \in T}
    <3> HIDE DEF Below
    <3>1. S \in SUBSET Nat /\ S # {}
      BY <1>1, <2>4
    <3>2. PICK x \in S : \A y \in S : x <= y
      <4> HIDE DEF S
      <4>1. QED
        BY <3>1, LeastNumber
    <3>3. QED
      BY <3>2
  <2>6. PICK u \in T : Waits(t, u)
    BY <1>1
  <2>7. PICK v \in T : Waits(u, v)
    BY <1>1
  <2>8. Rank[call[t].address] < Rank[call[u].address]
    BY <1>1, <2>6, <2>7, WaitsClimb
  <2>9. QED
    BY <2>1, <2>3, <2>5, <2>8
<1>2. IInv /\ VInv => NoWaitCycle
  BY <1>1 DEF NoWaitCycle
<1>3. QED
  BY <1>2, Invariance, PTL
=============================================================================
