------------------------- MODULE VisaSessionsProofs -------------------------
(***************************************************************************)
(* What VisaSessions promises, for any sets of addresses, resources and    *)
(* threads.                                                                *)
(*                                                                         *)
(* PublishedIsOpen is not inductive: a resource is closed outside the      *)
(* manager's lock, and nothing in the closing step looks at the table.     *)
(* The inductive invariant IInv therefore says who may close: a resource   *)
(* is published at one address, or is in the hand of one thread that will  *)
(* publish or close it, and never both (OneOwner); and nobody else has     *)
(* heard of a resource before it is published (Unheard).                   *)
(***************************************************************************)
EXTENDS VisaSessions, TLAPS

(* Where the call of a thread has a resource to publish or to close, and   *)
(* where it has one that it found in the table.                            *)
Holding == {"identifying", "closing"}
Found == {"entering", "marking"}

CallsInOrder ==
  \A t \in Threads :
    /\ call[t].at # "idle" => call[t].address \in Addresses
    /\ call[t].at \in Holding \union Found => call[t].resource \in Resources

InHandIsOpen ==
  \A t \in Threads : call[t].at \in Holding => opened[call[t].resource] = "open"

OneOwner ==
  /\ \A a, b \in Addresses : Published(a) /\ table[a] = table[b] => a = b
  /\ \A t, u \in Threads :
       call[t].at \in Holding /\ call[u].at \in Holding
         /\ call[t].resource = call[u].resource => t = u
  /\ \A t \in Threads, a \in Addresses :
       call[t].at \in Holding => table[a] # call[t].resource

(* A resource before its session is published.                             *)
New(r) ==
  \/ opened[r] = "unused"
  \/ \E t \in Threads : call[t].at = "identifying" /\ call[t].resource = r

Unheard ==
  \A r \in Resources : New(r) =>
    Free(r) /\ \A t \in Threads : call[t].at \in Found => call[t].resource # r

IInv ==
  TypeOK /\ CallsInOrder /\ PublishedIsOpen /\ InHandIsOpen /\ OneOwner /\ Unheard

-----------------------------------------------------------------------------
(* Every step of a thread keeps the inductive invariant.                   *)
LEMMA StepInv ==
  ASSUME IInv, NEW t \in Threads, Step(t)
  PROVE  IInv'
<1> USE NoneAssumption DEF At, Free, Published, Holding, Found
<1>1. ASSUME NEW a \in Addresses, ConnectLooks(t, a)
      PROVE  IInv'
  <2>1. TypeOK' /\ CallsInOrder'
    BY <1>1 DEF IInv, TypeOK, CallsInOrder, ConnectLooks, Begins
  <2>2. PublishedIsOpen' /\ InHandIsOpen'
    BY <1>1 DEF IInv, PublishedIsOpen, InHandIsOpen, ConnectLooks, Begins
  <2>3. OneOwner'
    BY <1>1 DEF IInv, OneOwner, ConnectLooks, Begins
  <2>4. Unheard'
    BY <1>1 DEF IInv, Unheard, New, ConnectLooks, Begins
  <2>5. QED
    BY <2>1, <2>2, <2>3, <2>4 DEF IInv
<1>2. ASSUME NEW a \in Addresses, LeaseLooks(t, a)
      PROVE  IInv'
  <2>1. TypeOK' /\ CallsInOrder'
    BY <1>2 DEF IInv, TypeOK, CallsInOrder, LeaseLooks, Begins
  <2>2. PublishedIsOpen' /\ InHandIsOpen'
    BY <1>2 DEF IInv, PublishedIsOpen, InHandIsOpen, LeaseLooks, Begins
  <2>3. OneOwner'
    BY <1>2 DEF IInv, OneOwner, LeaseLooks, Begins
  <2>4. Unheard'
    BY <1>2 DEF IInv, PublishedIsOpen, OneOwner, Unheard, New, LeaseLooks,
       Begins
  <2>5. QED
    BY <2>1, <2>2, <2>3, <2>4 DEF IInv
<1>3. ASSUME NEW a \in Addresses, DisconnectPops(t, a)
      PROVE  IInv'
  <2>1. TypeOK' /\ CallsInOrder'
    BY <1>3 DEF IInv, TypeOK, CallsInOrder, DisconnectPops, Begins
  <2>2. PublishedIsOpen' /\ InHandIsOpen'
    BY <1>3 DEF IInv, PublishedIsOpen, InHandIsOpen, DisconnectPops, Begins
  <2>3. OneOwner'
    BY <1>3 DEF IInv, TypeOK, CallsInOrder, OneOwner, DisconnectPops, Begins
  <2>4. Unheard'
    BY <1>3 DEF IInv, Unheard, New, DisconnectPops, Begins
  <2>5. QED
    BY <2>1, <2>2, <2>3, <2>4 DEF IInv
<1>4. ASSUME NEW a \in Addresses, MarkLooks(t, a)
      PROVE  IInv'
  <2>1. TypeOK' /\ CallsInOrder'
    BY <1>4 DEF IInv, TypeOK, CallsInOrder, MarkLooks, Begins
  <2>2. PublishedIsOpen' /\ InHandIsOpen'
    BY <1>4 DEF IInv, PublishedIsOpen, InHandIsOpen, MarkLooks, Begins
  <2>3. OneOwner'
    BY <1>4 DEF IInv, OneOwner, MarkLooks, Begins
  <2>4. Unheard'
    BY <1>4 DEF IInv, PublishedIsOpen, OneOwner, Unheard, New, MarkLooks,
       Begins
  <2>5. QED
    BY <2>1, <2>2, <2>3, <2>4 DEF IInv
<1>5. ASSUME NEW r \in Resources, LeaseExits(t, r)
      PROVE  IInv'
  <2>1. TypeOK' /\ CallsInOrder'
    BY <1>5 DEF IInv, TypeOK, CallsInOrder, LeaseExits
  <2>2. PublishedIsOpen' /\ InHandIsOpen'
    BY <1>5 DEF IInv, PublishedIsOpen, InHandIsOpen, LeaseExits
  <2>3. OneOwner'
    BY <1>5 DEF IInv, OneOwner, LeaseExits
  <2>4. Unheard'
    BY <1>5 DEF IInv, Unheard, New, LeaseExits
  <2>5. QED
    BY <2>1, <2>2, <2>3, <2>4 DEF IInv
<1>6. ASSUME NEW r \in Resources, Fails(t, r)
      PROVE  IInv'
  <2>1. TypeOK' /\ CallsInOrder'
    BY <1>6 DEF IInv, TypeOK, CallsInOrder, Fails
  <2>2. PublishedIsOpen' /\ InHandIsOpen'
    BY <1>6 DEF IInv, PublishedIsOpen, InHandIsOpen, Fails
  <2>3. OneOwner'
    BY <1>6 DEF IInv, OneOwner, Fails
  <2>4. Unheard'
    BY <1>6 DEF IInv, Unheard, New, Fails
  <2>5. QED
    BY <2>1, <2>2, <2>3, <2>4 DEF IInv
<1>7. ASSUME NEW r \in Resources, ConnectOpens(t, r)
      PROVE  IInv'
  <2>1. TypeOK'
    BY <1>7 DEF IInv, TypeOK, ConnectOpens
  <2>2. CallsInOrder'
    BY <1>7 DEF IInv, TypeOK, CallsInOrder, ConnectOpens
  <2>3. PublishedIsOpen' /\ InHandIsOpen'
    BY <1>7 DEF IInv, TypeOK, PublishedIsOpen, InHandIsOpen, ConnectOpens
  <2>4. OneOwner'
    BY <1>7 DEF IInv, TypeOK, PublishedIsOpen, InHandIsOpen, OneOwner,
       ConnectOpens
  <2>5. Unheard'
    BY <1>7 DEF IInv, TypeOK, Unheard, New, ConnectOpens
  <2>6. QED
    BY <2>1, <2>2, <2>3, <2>4, <2>5 DEF IInv
<1>8. ASSUME OpenFails(t)
      PROVE  IInv'
  <2>1. TypeOK' /\ CallsInOrder'
    BY <1>8 DEF IInv, TypeOK, CallsInOrder, OpenFails, Returns, Idle
  <2>2. PublishedIsOpen' /\ InHandIsOpen'
    BY <1>8 DEF IInv, PublishedIsOpen, InHandIsOpen, OpenFails, Returns, Idle
  <2>3. OneOwner'
    BY <1>8 DEF IInv, OneOwner, OpenFails, Returns, Idle
  <2>4. Unheard'
    BY <1>8 DEF IInv, Unheard, New, OpenFails, Returns, Idle
  <2>5. QED
    BY <2>1, <2>2, <2>3, <2>4 DEF IInv
<1>9. ASSUME IdentifyFails(t)
      PROVE  IInv'
  <2>1. TypeOK' /\ CallsInOrder'
    BY <1>9 DEF IInv, TypeOK, CallsInOrder, IdentifyFails, Returns, Idle,
       Close
  <2>2. PublishedIsOpen' /\ InHandIsOpen'
    BY <1>9 DEF IInv, TypeOK, PublishedIsOpen, InHandIsOpen, OneOwner,
       IdentifyFails, Returns, Idle, Close
  <2>3. OneOwner'
    BY <1>9 DEF IInv, OneOwner, IdentifyFails, Returns, Idle
  <2>4. Unheard'
    BY <1>9 DEF IInv, Unheard, New, IdentifyFails, Returns, Idle, Close
  <2>5. QED
    BY <2>1, <2>2, <2>3, <2>4 DEF IInv
<1>10. ASSUME ConnectPublishes(t)
      PROVE  IInv'
  <2>1. TypeOK' /\ CallsInOrder'
    BY <1>10 DEF IInv, TypeOK, CallsInOrder, ConnectPublishes, Returns, Idle,
       Close
  <2>2. PublishedIsOpen' /\ InHandIsOpen'
    BY <1>10 DEF IInv, TypeOK, CallsInOrder, PublishedIsOpen, InHandIsOpen,
       OneOwner, ConnectPublishes, Returns, Idle, Close
  <2>3. OneOwner'
    BY <1>10 DEF IInv, TypeOK, InHandIsOpen, OneOwner, ConnectPublishes,
       Returns, Idle
  <2>4. Unheard'
    BY <1>10 DEF IInv, TypeOK, Unheard, New, ConnectPublishes, Returns, Idle,
       Close
  <2>5. QED
    BY <2>1, <2>2, <2>3, <2>4 DEF IInv
<1>11. ASSUME LeaseEnters(t)
      PROVE  IInv'
  <2>1. TypeOK' /\ CallsInOrder'
    BY <1>11 DEF IInv, TypeOK, CallsInOrder, LeaseEnters, Returns, Idle
  <2>2. PublishedIsOpen' /\ InHandIsOpen'
    BY <1>11 DEF IInv, PublishedIsOpen, InHandIsOpen, LeaseEnters, Returns,
       Idle
  <2>3. OneOwner'
    BY <1>11 DEF IInv, OneOwner, LeaseEnters, Returns, Idle
  <2>4. Unheard'
    BY <1>11 DEF IInv, Unheard, New, LeaseEnters, Returns, Idle
  <2>5. QED
    BY <2>1, <2>2, <2>3, <2>4 DEF IInv
<1>12. ASSUME DisconnectCloses(t)
      PROVE  IInv'
  <2>1. TypeOK' /\ CallsInOrder'
    BY <1>12 DEF IInv, TypeOK, CallsInOrder, DisconnectCloses, Returns, Idle,
       Close
  <2>2. PublishedIsOpen' /\ InHandIsOpen'
    BY <1>12 DEF IInv, TypeOK, PublishedIsOpen, InHandIsOpen, OneOwner,
       DisconnectCloses, Returns, Idle, Close
  <2>3. OneOwner'
    BY <1>12 DEF IInv, OneOwner, DisconnectCloses, Returns, Idle
  <2>4. Unheard'
    BY <1>12 DEF IInv, Unheard, New, DisconnectCloses, Returns, Idle, Close
  <2>5. QED
    BY <2>1, <2>2, <2>3, <2>4 DEF IInv
<1>13. ASSUME Marks(t)
      PROVE  IInv'
  <2>1. TypeOK' /\ CallsInOrder'
    BY <1>13 DEF IInv, TypeOK, CallsInOrder, Marks, Returns, Idle
  <2>2. PublishedIsOpen' /\ InHandIsOpen'
    BY <1>13 DEF IInv, PublishedIsOpen, InHandIsOpen, Marks, Returns, Idle
  <2>3. OneOwner'
    BY <1>13 DEF IInv, OneOwner, Marks, Returns, Idle
  <2>4. Unheard'
    BY <1>13 DEF IInv, Unheard, New, Marks, Returns, Idle
  <2>5. QED
    BY <2>1, <2>2, <2>3, <2>4 DEF IInv
<1>14. QED
  BY <1>1, <1>2, <1>3, <1>4, <1>5, <1>6, <1>7, <1>8, <1>9, <1>10, <1>11,
     <1>12, <1>13 DEF Step, Connect

(* In every state the manager can reach, IInv holds.                       *)
LEMMA Invariance == Spec => []IInv
<1>1. Init => IInv
  BY DEF Init, Idle, Holding, Found, Free, Published, IInv, TypeOK,
     CallsInOrder, PublishedIsOpen, InHandIsOpen, OneOwner, Unheard
<1>2. IInv /\ [Next]_vars => IInv'
  <2>1. CASE UNCHANGED vars
    BY <2>1 DEF vars, Free, Published, IInv, TypeOK, CallsInOrder,
       PublishedIsOpen, InHandIsOpen, OneOwner, Unheard, New
  <2>2. QED
    BY <2>1, StepInv DEF Next
<1>3. QED
  BY <1>1, <1>2, PTL DEF Spec

(* The table, the locks of the sessions and the calls keep their types: in *)
(* particular nobody locks, closes or publishes None.                      *)
THEOREM TypeCorrect == Spec => []TypeOK
<1>1. IInv => TypeOK
  BY DEF IInv
<1>2. QED
  BY <1>1, Invariance, PTL

(* Whoever looks up an address in _sessions finds a resource that has been *)
(* identified and not been closed, for any number of addresses and of      *)
(* connects, leases and disconnects that overlap.                          *)
THEOREM WhatIsPublishedIsOpen == Spec => []PublishedIsOpen
<1>1. IInv => PublishedIsOpen
  BY DEF IInv
<1>2. QED
  BY <1>1, Invariance, PTL

-----------------------------------------------------------------------------
(* Connect closes what it does not publish, and replaces only a session    *)
(* that has failed; disconnect takes what it closes out of the table.      *)
LEMMA NoneForgottenStep ==
  ASSUME IInv, NoneForgotten, NEW t \in Threads, Step(t)
  PROVE  NoneForgotten'
<1> USE NoneAssumption DEF At, Free, Published, Holding, Found
<1>1. ASSUME NEW a \in Addresses, ConnectLooks(t, a)
      PROVE  NoneForgotten'
  BY <1>1 DEF NoneForgotten, InHand, ConnectLooks, Begins
<1>2. ASSUME NEW a \in Addresses, LeaseLooks(t, a)
      PROVE  NoneForgotten'
  BY <1>2 DEF NoneForgotten, InHand, LeaseLooks, Begins
<1>3. ASSUME NEW a \in Addresses, DisconnectPops(t, a)
      PROVE  NoneForgotten'
  BY <1>3 DEF IInv, TypeOK, NoneForgotten, InHand, DisconnectPops, Begins
<1>4. ASSUME NEW a \in Addresses, MarkLooks(t, a)
      PROVE  NoneForgotten'
  BY <1>4 DEF NoneForgotten, InHand, MarkLooks, Begins
<1>5. ASSUME NEW r \in Resources, LeaseExits(t, r)
      PROVE  NoneForgotten'
  BY <1>5 DEF NoneForgotten, InHand, LeaseExits
<1>6. ASSUME NEW r \in Resources, Fails(t, r)
      PROVE  NoneForgotten'
  BY <1>6 DEF NoneForgotten, InHand, Fails
<1>7. ASSUME NEW r \in Resources, ConnectOpens(t, r)
      PROVE  NoneForgotten'
  <2>1. /\ UNCHANGED <<table, healthy>>
        /\ opened[r] = "unused" /\ opened' = [opened EXCEPT ![r] = "open"]
        /\ call[t].at = "opening"
        /\ call'[t].at = "identifying" /\ call'[t].resource = r
        /\ \A u \in Threads : u # t => call'[u] = call[u]
    BY <1>7 DEF IInv, TypeOK, ConnectOpens
  <2>2. ASSUME NEW q \in Resources, opened'[q] = "open", healthy'[q]
        PROVE  InHand(q)' \/ \E a \in Addresses : table'[a] = q
    <3>1. CASE q = r
      BY <2>1, <3>1 DEF InHand
    <3>2. CASE q # r
      BY <2>1, <2>2, <3>2 DEF IInv, TypeOK, NoneForgotten, InHand
    <3>3. QED
      BY <3>1, <3>2
  <2>3. QED
    BY <2>2 DEF NoneForgotten
<1>8. ASSUME OpenFails(t)
      PROVE  NoneForgotten'
  BY <1>8 DEF NoneForgotten, InHand, OpenFails, Returns
<1>9. ASSUME IdentifyFails(t)
      PROVE  NoneForgotten'
  BY <1>9 DEF IInv, TypeOK, NoneForgotten, InHand, IdentifyFails, Returns,
     Close
<1>10. ASSUME ConnectPublishes(t)
      PROVE  NoneForgotten'
  BY <1>10 DEF IInv, TypeOK, CallsInOrder, NoneForgotten, InHand,
     ConnectPublishes, Returns, Close, Usable
<1>11. ASSUME LeaseEnters(t)
      PROVE  NoneForgotten'
  BY <1>11 DEF NoneForgotten, InHand, LeaseEnters, Returns
<1>12. ASSUME DisconnectCloses(t)
      PROVE  NoneForgotten'
  BY <1>12 DEF IInv, TypeOK, NoneForgotten, InHand, DisconnectCloses, Returns,
     Close
<1>13. ASSUME Marks(t)
      PROVE  NoneForgotten'
  BY <1>13 DEF NoneForgotten, InHand, Marks, Returns
<1>14. QED
  BY <1>1, <1>2, <1>3, <1>4, <1>5, <1>6, <1>7, <1>8, <1>9, <1>10, <1>11,
     <1>12, <1>13 DEF Step, Connect

(* A connection that is open and has not failed is published or about to   *)
(* be published or closed: however connects of one address overlap, the    *)
(* resource of the one that comes second is closed.                        *)
THEOREM NoOpenSessionIsForgotten == Spec => []NoneForgotten
<1>1. Init => NoneForgotten
  BY DEF Init, NoneForgotten
<1>2. IInv /\ NoneForgotten /\ [Next]_vars => NoneForgotten'
  <2>1. CASE UNCHANGED vars
    BY <2>1 DEF vars, NoneForgotten, InHand
  <2>2. QED
    BY <2>1, NoneForgottenStep DEF Next
<1>3. QED
  BY <1>1, <1>2, Invariance, PTL DEF Spec

-----------------------------------------------------------------------------
(* No step closes a resource that a thread has on lease: disconnect waits  *)
(* for the session's lock, and connect closes only what nobody has heard   *)
(* of.                                                                     *)
THEOREM ALeaseKeepsItsSessionOpen == Spec => LeaseKeepsOpen
<1> DEFINE Kept ==
      \A r \in Resources : ~Free(r) /\ opened[r] = "open" => opened'[r] = "open"
<1>1. ASSUME IInv, NEW t \in Threads, Step(t)
      PROVE  Kept
  <2>1. ASSUME NEW r \in Resources, ConnectOpens(t, r)
        PROVE  Kept
    BY <2>1 DEF ConnectOpens
  <2>2. ASSUME IdentifyFails(t)
        PROVE  Kept
    BY <1>1, <2>2 DEF IInv, Unheard, New, At, IdentifyFails, Close
  <2>3. ASSUME ConnectPublishes(t)
        PROVE  Kept
    BY <1>1, <2>3 DEF IInv, TypeOK, Unheard, New, At, ConnectPublishes, Close
  <2>4. ASSUME DisconnectCloses(t)
        PROVE  Kept
    BY <2>4 DEF DisconnectCloses, Close
  <2>5. CASE opened' = opened
    BY <2>5
  <2>6. QED
    BY <1>1, <2>1, <2>2, <2>3, <2>4, <2>5 DEF Step, Connect, ConnectLooks,
       LeaseLooks, DisconnectPops, MarkLooks, LeaseExits, Fails, OpenFails,
       LeaseEnters, Marks
<1>2. IInv /\ [Next]_vars => [Kept]_vars
  BY <1>1 DEF Next
<1>3. QED
  BY <1>2, Invariance, PTL DEF Spec, LeaseKeepsOpen
=============================================================================
