-------------------------- MODULE AddressOwnership --------------------------
(***************************************************************************)
(* AddressOwnershipRegistry: which active operation owns an instrument     *)
(* address.  Every operation holds the registry's lock, so each is a step. *)
(* src/src/instr_core/api/services/ownership_service.py                    *)
(***************************************************************************)
CONSTANTS
  Addresses,
  Operations,  \* owners: run and sweep ids
  None

VARIABLE owners

TypeOK == owners \in [Addresses -> Operations \union {None}]

Init == owners = [a \in Addresses |-> None]

(* Fault: the owner is compared the wrong way round.                       *)
ConflictWithItself(addresses, owner) == \E a \in addresses : owners[a] = owner

(* Another operation holds one of the addresses.                           *)
Conflict(addresses, owner) ==
  \E a \in addresses : owners[a] \notin {None, owner}

(* acquire_many returning TRUE; it takes all the addresses or none, and    *)
(* takes again what the owner already has.                                 *)
AcquireMany(addresses, owner) ==
  /\ ~Conflict(addresses, owner)
  /\ owners' = [a \in Addresses |-> IF a \in addresses THEN owner ELSE owners[a]]

(* release_many, and release for one address: what belongs to somebody     *)
(* else is left alone.                                                     *)
ReleaseMany(addresses, owner) ==
  owners' = [a \in Addresses |-> IF a \in addresses /\ owners[a] = owner
                                   THEN None ELSE owners[a]]

Acquire(a, owner) == AcquireMany({a}, owner)

Release(a, owner) == ReleaseMany({a}, owner)
=============================================================================
