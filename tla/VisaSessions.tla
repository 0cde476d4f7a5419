---------------------------- MODULE VisaSessions ----------------------------
(***************************************************************************)
(* VisaSessionManager: the reusable VISA sessions, one published per       *)
(* address, each with a lock of its own.                                   *)
(* src/src/instr_core/api/services/session_manager.py                      *)
(*                                                                         *)
(* The manager's lock guards the table only: resources are opened,         *)
(* identified and closed outside it, and a session that a thread has       *)
(* looked up can be removed before the thread gets the session's lock.     *)
(* A step is what happens under one lock, or one call of pyvisa.           *)
(*                                                                         *)
(* Every session has a resource of its own, which stands for it.  A close  *)
(* that raises is a close: the manager never looks at the resource again.  *)
(***************************************************************************)
CONSTANTS
  Addresses,
  Resources,  \* the resources open_resource can return; each is opened once
  Threads,
  None

(* None is no session: sessions.get(address) of an unknown address.        *)
ASSUME NoneAssumption == None \notin Resources

VARIABLES
  table,    \* _sessions: the session published for an address
  opened,   \* external: the resource is unused, open or closed
  healthy,  \* ManagedVisaSession.healthy
  holder,   \* the thread that holds a session's lock for a lease
  call      \* the call of the manager a thread is in

vars == <<table, opened, healthy, holder, call>>

Idle == [at |-> "idle", address |-> None, resource |-> None]

TypeOK ==
  /\ table \in [Addresses -> Resources \union {None}]
  /\ opened \in [Resources -> {"unused", "open", "closed"}]
  /\ healthy \in [Resources -> BOOLEAN]
  /\ holder \in [Resources -> Threads \union {None}]
  /\ call \in [Threads ->
       [ at : {"idle", "opening", "identifying", "entering", "closing", "marking"},
         address : Addresses \union {None}, resource : Resources \union {None} ]]

Init ==
  /\ table = [a \in Addresses |-> None]
  /\ opened = [r \in Resources |-> "unused"]
  /\ healthy = [r \in Resources |-> TRUE]
  /\ holder = [r \in Resources |-> None]
  /\ call = [t \in Threads |-> Idle]

-----------------------------------------------------------------------------
At(t, place) == call[t].at = place

Begins(t, place, a, r) ==
  /\ At(t, "idle")
  /\ call' = [call EXCEPT ![t] = [at |-> place, address |-> a, resource |-> r]]

Returns(t) == call' = [call EXCEPT ![t] = Idle]

Close(r) == opened' = [opened EXCEPT ![r] = "closed"]

Free(r) == holder[r] = None

Published(a) == table[a] # None

(* connect returns such a session without opening anything.                *)
Usable(a) == Published(a) /\ healthy[table[a]]

-----------------------------------------------------------------------------
(* connect.                                                                *)

ConnectLooks(t, a) ==
  /\ ~Usable(a)
  /\ Begins(t, "opening", a, None)
  /\ UNCHANGED <<table, opened, healthy, holder>>

ConnectOpens(t, r) ==
  /\ At(t, "opening")
  /\ opened[r] = "unused"
  /\ opened' = [opened EXCEPT ![r] = "open"]
  /\ call' = [call EXCEPT ![t].at = "identifying", ![t].resource = r]
  /\ UNCHANGED <<table, healthy, holder>>

(* Fault: the thread is left in a state of its own.                        *)
OpenFailsAgain(t) ==
  /\ At(t, "opening")
  /\ call' = [call EXCEPT ![t].at = "retrying"]
  /\ UNCHANGED <<table, opened, healthy, holder>>

OpenFails(t) ==
  /\ At(t, "opening")
  /\ Returns(t)
  /\ UNCHANGED <<table, opened, healthy, holder>>

(* The identification query, or the lookup of the schema, raises.          *)
IdentifyFails(t) ==
  /\ At(t, "identifying")
  /\ Close(call[t].resource)
  /\ Returns(t)
  /\ UNCHANGED <<table, healthy, holder>>

(* Fault: the session is published without a second look at the table.     *)
ConnectPublishesUnseen(t) ==
  /\ At(t, "identifying")
  /\ table' = [table EXCEPT ![call[t].address] = call[t].resource]
  /\ Returns(t)
  /\ UNCHANGED <<opened, healthy, holder>>

(* The session is published unless a healthy one has been in the meantime. *)
ConnectPublishes(t) ==
  LET a == call[t].address
      r == call[t].resource
  IN  /\ At(t, "identifying")
      /\ \/ Usable(a) /\ Close(r) /\ UNCHANGED table
         \/ ~Usable(a) /\ table' = [table EXCEPT ![a] = r] /\ UNCHANGED opened
      /\ Returns(t)
      /\ UNCHANGED <<healthy, holder>>

Connect(t) ==
  \/ OpenFails(t) \/ IdentifyFails(t) \/ ConnectPublishes(t)
  \/ \E r \in Resources : ConnectOpens(t, r)

-----------------------------------------------------------------------------
(* lease, and the input and output done under it.                          *)

LeaseLooks(t, a) ==
  /\ Published(a)
  /\ Begins(t, "entering", a, table[a])
  /\ UNCHANGED <<table, opened, healthy, holder>>

LeaseEnters(t) ==
  LET r == call[t].resource
  IN  /\ At(t, "entering")
      /\ Free(r)
      /\ holder' = IF healthy[r] THEN [holder EXCEPT ![r] = t] ELSE holder
      /\ Returns(t)
      /\ UNCHANGED <<table, opened, healthy>>

LeaseExits(t, r) ==
  /\ holder[r] = t
  /\ holder' = [holder EXCEPT ![r] = None]
  /\ UNCHANGED <<table, opened, healthy, call>>

(* ManagedResourceProxy: a method of the resource raises.                  *)
Fails(t, r) ==
  /\ holder[r] = t
  /\ healthy' = [healthy EXCEPT ![r] = FALSE]
  /\ UNCHANGED <<table, opened, holder, call>>

-----------------------------------------------------------------------------
(* disconnect, and mark_unhealthy.                                         *)

(* Fault: the session is looked up to be closed and stays in the table.    *)
DisconnectLooks(t, a) ==
  /\ Published(a)
  /\ Begins(t, "closing", a, table[a])
  /\ UNCHANGED <<table, opened, healthy, holder>>

DisconnectPops(t, a) ==
  /\ Published(a)
  /\ Begins(t, "closing", a, table[a])
  /\ table' = [table EXCEPT ![a] = None]
  /\ UNCHANGED <<opened, healthy, holder>>

(* Fault: the resource is closed without the session's lock.               *)
DisconnectClosesUnlocked(t) ==
  /\ At(t, "closing")
  /\ Close(call[t].resource)
  /\ Returns(t)
  /\ UNCHANGED <<table, healthy, holder>>

DisconnectCloses(t) ==
  /\ At(t, "closing")
  /\ Free(call[t].resource)
  /\ Close(call[t].resource)
  /\ Returns(t)
  /\ UNCHANGED <<table, healthy, holder>>

MarkLooks(t, a) ==
  /\ Published(a)
  /\ Begins(t, "marking", a, table[a])
  /\ UNCHANGED <<table, opened, healthy, holder>>

Marks(t) ==
  LET r == call[t].resource
  IN  /\ At(t, "marking")
      /\ Free(r)
      /\ healthy' = [healthy EXCEPT ![r] = FALSE]
      /\ Returns(t)
      /\ UNCHANGED <<table, opened, holder>>

-----------------------------------------------------------------------------
Step(t) ==
  \/ \E a \in Addresses :
       ConnectLooks(t, a) \/ LeaseLooks(t, a) \/ DisconnectPops(t, a) \/ MarkLooks(t, a)
  \/ \E r \in Resources : LeaseExits(t, r) \/ Fails(t, r)
  \/ Connect(t) \/ LeaseEnters(t) \/ DisconnectCloses(t) \/ Marks(t)

Next == \E t \in Threads : Step(t)

Spec == Init /\ [][Next]_vars

-----------------------------------------------------------------------------
(* Properties.                                                             *)

(* Whoever looks an address up finds a resource that was identified and    *)
(* has not been closed, however connects, duplicate connects and           *)
(* disconnects of the address overlap.                                     *)
PublishedIsOpen ==
  \A a \in Addresses : Published(a) => opened[table[a]] = "open"

InHand(r) ==
  \E t \in Threads : call[t].resource = r /\ call[t].at \in {"identifying", "closing"}

(* No open connection is forgotten: it is published, or a thread is about  *)
(* to publish or to close it - unless its session had failed, because      *)
(* connect replaces a failed session without closing it.                   *)
NoneForgotten ==
  \A r \in Resources : opened[r] = "open" /\ healthy[r] =>
    InHand(r) \/ \E a \in Addresses : table[a] = r

(* A resource is not closed while a thread has it on lease.                *)
LeaseKeepsOpen ==
  [][\A r \in Resources : ~Free(r) /\ opened[r] = "open" => opened'[r] = "open"]_vars
=============================================================================
