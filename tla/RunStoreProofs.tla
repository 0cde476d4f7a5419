--------------------------- MODULE RunStoreProofs ---------------------------
(***************************************************************************)
(* What RunStore promises, for any sets of runs, keys and contexts.        *)
(*                                                                         *)
(* AtMostOneGrant is not inductive: a second reservation of a run is       *)
(* refused because of what the table holds, and the table is rebuilt from  *)
(* the file after a crash.  The inductive invariant IInv therefore says    *)
(* how the three relate: a granted run is spent on disk, the file is       *)
(* behind the table but never on another branch (DiskLags), and a record   *)
(* carries a key exactly when it can no longer be executed (WellFormed).   *)
(***************************************************************************)
EXTENDS RunStore, TLAPS

WellFormed(run) == run.key = None <=> run.status \in Executable

Records ==
  \A r \in Runs :
    /\ mem[r] # Absent => up /\ WellFormed(mem[r])
    /\ disk[r] \in Run => WellFormed(disk[r])

IInv == TypeOK /\ Records /\ DiskLags /\ GrantIsDurable /\ AtMostOneGrant

-----------------------------------------------------------------------------
(* Lemmas about the lifecycle.                                             *)

(* A transition leaves a status that is not terminal, never goes down the  *)
(* lifecycle, and enters or stays in the executable statuses only from     *)
(* them.                                                                   *)
LEMMA TransitionsClimb ==
  ASSUME NEW s \in RunStatus, NEW t, CanTransition(s, t)
  PROVE  /\ t \in RunStatus
         /\ ~IsTerminal(s)
         /\ Rank[s] <= Rank[t]
         /\ t \in Executable => s \in Executable
         /\ s \in Executable => t \in Executable \union {"running"}
BY DEF CanTransition, AllowedTransitions, RunStatus, Executable, Active,
       Terminal, IsTerminal, Rank

(* Every status has a rank.                                                *)
LEMMA RankType == \A s \in RunStatus : Rank[s] \in Nat
BY DEF Rank, RunStatus, Executable, Active, Terminal

(* A record lags itself.                                                   *)
LEMMA LagsReflexive ==
  ASSUME NEW run \in Run
  PROVE  Lags(run, run)
BY RankType DEF Lags, Run

(* A file that lags a record still lags it after the record has moved      *)
(* along the lifecycle, or has only changed fields the order ignores.      *)
LEMMA LagsStep ==
  ASSUME NEW e \in Run, NEW old \in Run, NEW new \in Run, Lags(e, old),
         \/ new.key = old.key
         \/ old.key = None,
         \/ new.status = old.status
         \/ CanTransition(old.status, new.status)
  PROVE  Lags(e, new)
<1>1. e.key \in {None, new.key}
  BY DEF Lags
<1>2. e.status \in RunStatus /\ old.status \in RunStatus /\ new.status \in RunStatus
  BY DEF Run
<1>3. CASE new.status = old.status
  BY <1>1, <1>3 DEF Lags
<1>4. CASE CanTransition(old.status, new.status)
  <2>1. ~IsTerminal(old.status) /\ Rank[old.status] <= Rank[new.status]
    BY <1>2, <1>4, TransitionsClimb
  <2>2. ~IsTerminal(e.status) /\ Rank[e.status] <= Rank[old.status]
    BY <2>1 DEF Lags
  <2>3. Rank[e.status] <= Rank[new.status]
    BY <2>1, <2>2, <1>2, RankType
  <2>4. QED
    BY <1>1, <2>2, <2>3 DEF Lags
<1>5. QED
  BY <1>3, <1>4

(* Recovery yields a record, keeps the reservation and only moves forward. *)
LEMMA RecoveredFacts ==
  ASSUME NEW run \in Run, WellFormed(run)
  PROVE  /\ Recovered(run) \in Run
         /\ WellFormed(Recovered(run))
         /\ Lags(run, Recovered(run))
         /\ Recovered(run).key = run.key
         /\ Recovered(run).status \notin Active
<1>1. CASE Interrupted(run)
  <2>1. Recovered(run) = [run EXCEPT !.status = "error"]
    BY <1>1 DEF Recovered
  <2>2. /\ Recovered(run) \in Run
        /\ Recovered(run).key = run.key
        /\ Recovered(run).status = "error"
    BY <2>1 DEF Run, RunStatus, Terminal
  <2>3. run.status \in Active /\ run.key # None
    BY <1>1 DEF Interrupted, WellFormed, Executable, Active
  <2>4. CanTransition(run.status, "error")
    BY <2>3 DEF CanTransition, AllowedTransitions, Active, Terminal
  <2>5. Lags(run, Recovered(run))
    BY <2>2, <2>4, LagsReflexive, LagsStep
  <2>6. QED
    BY <2>2, <2>3, <2>5 DEF WellFormed, Executable, Active
<1>2. CASE ~Interrupted(run)
  BY <1>2, LagsReflexive DEF Recovered, Interrupted
<1>3. QED
  BY <1>1, <1>2

-----------------------------------------------------------------------------
(* The operations.                                                         *)

(* What every operation writes: a new run, or the record it found moved    *)
(* along the lifecycle with its reservation, if any, kept.                 *)
Follows(r, run) ==
  /\ run \in Run
  /\ WellFormed(run)
  /\ \/ mem[r] = Absent /\ disk[r] = Absent
     \/ /\ mem[r] \in Run
        /\ run.key = mem[r].key \/ mem[r].key = None
        /\ run.status = mem[r].status \/ CanTransition(mem[r].status, run.status)

(* A granted run that is in the table is there with its reservation.       *)
LEMMA GrantedIsKeyed ==
  ASSUME IInv, NEW r \in Runs, grants[r] > 0, mem[r] # Absent
  PROVE  mem[r].key # None
<1>1. Spent(disk[r])
  BY DEF IInv, GrantIsDurable
<1>2. disk[r] # Absent
  BY <1>1, MarkAssumption DEF Spent
<1>3. disk[r] # Quarantined /\ Lags(disk[r], mem[r])
  BY <1>2 DEF IInv, DiskLags
<1>4. disk[r] \in Run /\ disk[r].key # None
  BY <1>1, <1>3 DEF Spent
<1>5. QED
  BY <1>3, <1>4 DEF Lags

(* Storing what follows keeps the table and the file in order.             *)
LEMMA StoreStep ==
  ASSUME IInv, NEW r \in Runs, NEW run, Follows(r, run), NEW saved \in BOOLEAN,
         up, Store(r, run, saved)
  PROVE  /\ up' \in BOOLEAN
         /\ mem' \in [Runs -> Run \union {Absent}]
         /\ disk' \in [Runs -> Run \union {Absent, Quarantined}]
         /\ Records'
         /\ DiskLags'
         /\ \A q \in Runs : grants[q] > 0 => Spent(disk'[q])
<1>1. /\ mem \in [Runs -> Run \union {Absent}]
      /\ disk \in [Runs -> Run \union {Absent, Quarantined}]
  BY DEF IInv, TypeOK
<1>2. /\ up' = up
      /\ mem' = [mem EXCEPT ![r] = run]
      /\ disk' = IF saved THEN [disk EXCEPT ![r] = run] ELSE disk
  BY DEF Store, Persist
<1>3. run \in Run /\ WellFormed(run)
  BY DEF Follows
<1>4. /\ up' \in BOOLEAN
      /\ mem' \in [Runs -> Run \union {Absent}]
      /\ disk' \in [Runs -> Run \union {Absent, Quarantined}]
  BY <1>1, <1>2, <1>3 DEF IInv, TypeOK
<1>5. mem'[r] = run /\ disk'[r] = IF saved THEN run ELSE disk[r]
  BY <1>1, <1>2
<1>6. \A q \in Runs \ {r} : mem'[q] = mem[q] /\ disk'[q] = disk[q]
  BY <1>1, <1>2
<1>7. Records'
  <2>1. ASSUME NEW q \in Runs
        PROVE  /\ mem'[q] # Absent => up' /\ WellFormed(mem'[q])
               /\ disk'[q] \in Run => WellFormed(disk'[q])
    <3>1. CASE q = r
      BY <3>1, <1>2, <1>3, <1>5 DEF IInv, Records
    <3>2. CASE q # r
      BY <3>2, <1>2, <1>6 DEF IInv, Records
    <3>3. QED
      BY <3>1, <3>2
  <2>2. QED
    BY <2>1 DEF Records, WellFormed
<1>8. DiskLags'
  <2>1. ASSUME NEW q \in Runs, mem'[q] # Absent, disk'[q] # Absent
        PROVE  disk'[q] # Quarantined /\ Lags(disk'[q], mem'[q])
    <3>1. CASE q # r
      BY <3>1, <2>1, <1>6 DEF IInv, DiskLags
    <3>2. CASE q = r /\ saved
      BY <3>2, <1>3, <1>5, LagsReflexive, MarkAssumption
    <3>3. CASE q = r /\ ~saved
      <4>1. disk'[r] = disk[r] /\ disk[r] # Absent
        BY <3>3, <2>1, <1>5
      <4>2. mem[r] \in Run /\ mem[r] # Absent
        BY <4>1, MarkAssumption DEF Follows
      <4>3. disk[r] # Quarantined /\ Lags(disk[r], mem[r])
        BY <4>1, <4>2 DEF IInv, DiskLags
      <4>4. disk[r] \in Run
        BY <4>1, <4>3, <1>1
      <4>5. Lags(disk[r], run)
        BY <4>2, <4>3, <4>4, <4>1, LagsStep DEF Follows
      <4>6. QED
        BY <3>3, <4>1, <4>3, <4>5, <1>5
    <3>4. QED
      BY <3>1, <3>2, <3>3
  <2>2. QED
    BY <2>1 DEF DiskLags, Lags
<1>9. ASSUME NEW q \in Runs, grants[q] > 0
      PROVE  Spent(disk'[q])
  <2>1. Spent(disk[q])
    BY <1>9 DEF IInv, GrantIsDurable
  <2>2. CASE q # r \/ ~saved
    BY <2>1, <2>2, <1>5, <1>6
  <2>3. CASE q = r /\ saved
    <3>1. mem[r] \in Run /\ mem[r] # Absent
      BY <2>1, <2>3, MarkAssumption DEF Follows, Spent
    <3>2. run.key # None
      BY <3>1, <2>3, <1>9, GrantedIsKeyed DEF Follows
    <3>3. QED
      BY <3>2, <2>3, <1>3, <1>5 DEF Spent, WellFormed
  <2>4. QED
    BY <2>2, <2>3
<1>10. QED
  BY <1>4, <1>7, <1>8, <1>9

(* An operation that grants nothing keeps the invariant.                   *)
LEMMA StoreKeepsInvariant ==
  ASSUME IInv, NEW r \in Runs, NEW run, Follows(r, run), NEW saved \in BOOLEAN,
         up, Store(r, run, saved), UNCHANGED grants
  PROVE  IInv'
<1>1. GrantIsDurable' /\ AtMostOneGrant'
  BY StoreStep DEF IInv, GrantIsDurable, AtMostOneGrant, Spent
<1>2. QED
  BY <1>1, StoreStep DEF IInv, TypeOK

(* Nor does it move a file backwards.                                      *)
LEMMA StoreMovesForward ==
  ASSUME IInv, NEW r \in Runs, NEW run, Follows(r, run), NEW saved \in BOOLEAN,
         Store(r, run, saved), NEW q \in OnDisk
  PROVE  disk'[q] # Absent /\ Lags(disk[q], disk'[q])
<1>1. disk \in [Runs -> Run \union {Absent, Quarantined}]
  BY DEF IInv, TypeOK
<1>2. q \in Runs /\ disk[q] \in Run /\ disk[q] # Absent /\ disk[q] # Quarantined
  BY <1>1 DEF OnDisk
<1>3. CASE q # r \/ ~saved
  <2>1. disk'[q] = disk[q]
    BY <1>1, <1>2, <1>3 DEF Store, Persist
  <2>2. QED
    BY <1>2, <2>1, LagsReflexive
<1>4. CASE q = r /\ saved
  <2>1. disk'[q] = run /\ run \in Run
    BY <1>1, <1>2, <1>4 DEF Store, Persist, Follows
  <2>2. mem[r] \in Run /\ mem[r] # Absent
    BY <1>2, <1>4, MarkAssumption DEF Follows
  <2>3. Lags(disk[q], mem[r])
    BY <1>2, <1>4, <2>2 DEF IInv, DiskLags
  <2>4. Lags(disk[q], run)
    BY <1>2, <1>4, <2>1, <2>2, <2>3, LagsStep DEF Follows
  <2>5. QED
    BY <2>1, <2>4, MarkAssumption
<1>5. QED
  BY <1>3, <1>4

(* A record of the table is a well-formed run of a live process.           *)
LEMMA KnownIsRun ==
  ASSUME IInv, NEW r \in Runs, Known(r)
  PROVE  up /\ mem[r] \in Run /\ WellFormed(mem[r])
BY DEF IInv, TypeOK, Records, Known

(* The three kinds of change an operation can make follow.                 *)
LEMMA CreateFollows ==
  ASSUME IInv, NEW r \in Runs, mem[r] = Absent, disk[r] = Absent
  PROVE  Follows(r, NewRun)
BY NoneAssumption DEF Follows, NewRun, Run, RunStatus, WellFormed, Executable

LEMMA MoveFollows ==
  ASSUME IInv, NEW r \in Runs, Known(r), NEW run \in Run, run.key = mem[r].key,
         \/ run.status = mem[r].status
         \/ run.status # "running" /\ CanTransition(mem[r].status, run.status)
  PROVE  Follows(r, run)
<1>1. mem[r] \in Run /\ WellFormed(mem[r])
  BY KnownIsRun
<1>2. CASE run.status = mem[r].status
  BY <1>1, <1>2 DEF Follows, WellFormed
<1>3. CASE run.status # "running" /\ CanTransition(mem[r].status, run.status)
  <2>1. mem[r].status \in RunStatus
    BY <1>1 DEF Run
  <2>2. run.status \in Executable <=> mem[r].status \in Executable
    BY <2>1, <1>3, TransitionsClimb
  <2>3. QED
    BY <1>1, <1>3, <2>2 DEF Follows, WellFormed
<1>4. QED
  BY <1>2, <1>3

LEMMA ReserveFollows ==
  ASSUME IInv, NEW r \in Runs, Known(r), NEW k \in Keys, NEW fp \in Fingerprints,
         MayReserve(mem[r], fp), CanTransition(mem[r].status, "running")
  PROVE  Follows(r, Reserved(mem[r], k, fp))
<1> DEFINE run == Reserved(mem[r], k, fp)
<1>1. mem[r] \in Run
  BY KnownIsRun
<1>2. /\ run \in Run
      /\ run.key = k
      /\ run.status = "running"
  BY <1>1 DEF Reserved, Run, RunStatus, Active
<1>3. WellFormed(run)
  BY <1>2, NoneAssumption DEF WellFormed, Executable
<1>4. QED
  BY <1>1, <1>2, <1>3 DEF Follows, MayReserve

-----------------------------------------------------------------------------
(* The steps of Next.                                                      *)

(* An operation other than a reservation stores something that follows.    *)
LEMMA QuietOperation ==
  ASSUME IInv, NEW r \in Runs, NEW saved \in BOOLEAN,
         \/ Create(r, saved)
         \/ RespectfulUpdate(r, saved)
         \/ \E target \in RunStatus \ {"running"} : Transition(r, target, saved)
         \/ \E target \in RunStatus : UpdateFromSweep(r, target, saved)
  PROVE  up /\ UNCHANGED grants /\ \E run : Follows(r, run) /\ Store(r, run, saved)
<1>1. CASE Create(r, saved)
  BY <1>1, CreateFollows DEF Create
<1>2. CASE RespectfulUpdate(r, saved)
  <2>1. PICK s \in RunStatus, fp \in Fingerprints \union {None},
             valid \in BOOLEAN, linked \in BOOLEAN :
          LET copy == [mem[r] EXCEPT !.status = s, !.valFp = fp, !.valid = valid,
                                     !.linked = linked]
          IN  /\ Known(r)
              /\ Respects(mem[r], copy)
              /\ Update(r, copy, saved)
    BY <1>2 DEF RespectfulUpdate
  <2> DEFINE copy == [mem[r] EXCEPT !.status = s, !.valFp = fp, !.valid = valid,
                                    !.linked = linked]
  <2>2. Known(r) /\ mem[r] \in Run
    BY <2>1, KnownIsRun
  <2>3. copy \in Run /\ copy.key = mem[r].key
    BY <2>2 DEF Run
  <2>4. Respects(mem[r], copy) /\ Update(r, copy, saved)
    BY <2>1
  <2>5. Follows(r, copy)
    BY <2>2, <2>3, <2>4, MoveFollows DEF Respects
  <2>6. QED
    BY <2>2, <2>4, <2>5 DEF Update, Known
<1>3. ASSUME NEW target \in RunStatus \ {"running"}, Transition(r, target, saved)
      PROVE  up /\ UNCHANGED grants /\ \E run : Follows(r, run) /\ Store(r, run, saved)
  <2> DEFINE run == [mem[r] EXCEPT !.status = target]
  <2>1. Known(r) /\ mem[r] \in Run
    BY <1>3, KnownIsRun DEF Transition
  <2>2. run \in Run /\ run.key = mem[r].key /\ run.status = target
    BY <2>1 DEF Run
  <2>3. Follows(r, run)
    BY <1>3, <2>1, <2>2, MoveFollows DEF Transition
  <2>4. QED
    BY <1>3, <2>1, <2>3 DEF Transition, Known
<1>4. ASSUME NEW target \in RunStatus, UpdateFromSweep(r, target, saved)
      PROVE  up /\ UNCHANGED grants /\ \E run : Follows(r, run) /\ Store(r, run, saved)
  <2>1. target # "running" /\ Transition(r, target, saved)
    BY <1>4 DEF UpdateFromSweep, IsTerminal, Terminal
  <2>2. QED
    BY <1>3, <2>1
<1>5. QED
  BY <1>1, <1>2, <1>3, <1>4

LEMMA OperationStep ==
  ASSUME IInv, NEW r \in Runs, NEW saved \in BOOLEAN, Operation(r, saved)
  PROVE  /\ IInv'
         /\ \A q \in OnDisk : disk'[q] # Absent /\ Lags(disk[q], disk'[q])
<1>1. CASE \E k \in Keys, fp \in Fingerprints : ReserveExecution(r, k, fp, saved)
  <2>1. PICK k \in Keys, fp \in Fingerprints : ReserveExecution(r, k, fp, saved)
    BY <1>1
  <2> DEFINE run == Reserved(mem[r], k, fp)
  <2>2. /\ up
        /\ Known(r)
        /\ mem[r] # Absent
        /\ Store(r, run, saved)
        /\ MayReserve(mem[r], fp)
        /\ grants' = IF saved THEN [grants EXCEPT ![r] = @ + 1] ELSE grants
    BY <2>1 DEF ReserveExecution, Known
  <2>3. Follows(r, run)
    BY <2>1, <2>2, ReserveFollows DEF ReserveExecution
  <2>4. grants \in [Runs -> Nat] /\ \A q \in Runs : grants[q] <= 1
    BY DEF IInv, TypeOK, AtMostOneGrant
  <2>5. grants[r] = 0
    <3>1. ~(grants[r] > 0)
      BY <2>2, GrantedIsKeyed DEF MayReserve
    <3>2. QED
      BY <3>1, <2>4
  <2>6. grants' \in [Runs -> Nat] /\ AtMostOneGrant'
    BY <2>2, <2>4, <2>5 DEF AtMostOneGrant
  <2>7. GrantIsDurable'
    <3>1. ASSUME NEW q \in Runs, grants'[q] > 0
          PROVE  Spent(disk'[q])
      <4>1. CASE grants[q] > 0
        BY <4>1, <2>2, <2>3, StoreStep
      <4>2. CASE ~(grants[q] > 0)
        <5>1. q = r /\ saved
          BY <3>1, <4>2, <2>2, <2>4
        <5>2. disk'[r] = run
          BY <5>1, <2>2 DEF Store, Persist, IInv, TypeOK
        <5>3. run \in Run /\ run.key = k /\ run.status = "running"
          BY <2>2, <2>3, KnownIsRun DEF Follows, Reserved, Run
        <5>4. QED
          BY <5>1, <5>2, <5>3, NoneAssumption DEF Spent, Executable
      <4>3. QED
        BY <4>1, <4>2
    <3>2. QED
      BY <3>1 DEF GrantIsDurable, Spent
  <2>8. QED
    BY <2>2, <2>3, <2>6, <2>7, StoreStep, StoreMovesForward DEF IInv, TypeOK
<1>2. CASE ~ \E k \in Keys, fp \in Fingerprints : ReserveExecution(r, k, fp, saved)
  <2>1. up /\ UNCHANGED grants /\ \E run : Follows(r, run) /\ Store(r, run, saved)
    BY <1>2, QuietOperation DEF Operation
  <2>2. PICK run : Follows(r, run) /\ Store(r, run, saved)
    BY <2>1
  <2>3. QED
    BY <2>1, <2>2, StoreKeepsInvariant, StoreMovesForward
<1>3. QED
  BY <1>1, <1>2

LEMMA CrashStep ==
  ASSUME IInv, Crash
  PROVE  IInv'
BY DEF IInv, Crash, TypeOK, Records, WellFormed, DiskLags, Lags,
       GrantIsDurable, Spent, AtMostOneGrant

(* A restart reads the files: what it loads is what the file then holds.   *)
LEMMA RestartFiles ==
  ASSUME IInv, NEW unread, NEW stuck, NEW written, Restart(unread, stuck, written),
         NEW r \in Runs
  PROVE  /\ \/ disk'[r] = disk[r]
            \/ r \in OnDisk /\ disk'[r] = Quarantined
            \/ r \in OnDisk /\ disk'[r] = Recovered(disk[r])
         /\ mem'[r] # Absent => /\ up'
                                /\ r \in OnDisk
                                /\ mem'[r] = Recovered(disk[r])
                                /\ disk'[r] = mem'[r]
<1> DEFINE loaded == OnDisk \ unread
           found  == {q \in loaded : Interrupted(disk[q])}
<1>1. /\ written \subseteq found
      /\ up' = (written = found)
      /\ mem' = [q \in Runs |-> IF up' /\ q \in loaded
                                  THEN Recovered(disk[q]) ELSE Absent]
      /\ disk' = [q \in Runs |-> IF q \in written THEN Recovered(disk[q])
                                 ELSE IF q \in unread \ stuck THEN Quarantined
                                 ELSE disk[q]]
      /\ unread \subseteq OnDisk
  BY DEF Restart
<1>2. \/ disk'[r] = disk[r]
      \/ r \in OnDisk /\ disk'[r] = Quarantined
      \/ r \in OnDisk /\ disk'[r] = Recovered(disk[r])
  BY <1>1
<1>3. ASSUME mem'[r] # Absent
      PROVE  /\ up'
             /\ r \in OnDisk
             /\ mem'[r] = Recovered(disk[r])
             /\ disk'[r] = mem'[r]
  <2>1. up' /\ r \in loaded /\ mem'[r] = Recovered(disk[r])
    BY <1>1, <1>3
  <2>2. CASE r \in written
    BY <2>1, <2>2, <1>1
  <2>3. CASE r \notin written
    <3>1. ~Interrupted(disk[r])
      BY <2>1, <2>3, <1>1
    <3>2. disk'[r] = disk[r] /\ Recovered(disk[r]) = disk[r]
      BY <3>1, <2>1, <2>3, <1>1 DEF Recovered
    <3>3. QED
      BY <2>1, <3>2
  <2>4. QED
    BY <2>2, <2>3
<1>4. QED
  BY <1>2, <1>3

LEMMA RestartStep ==
  ASSUME IInv, NEW unread, NEW stuck, NEW written, Restart(unread, stuck, written)
  PROVE  /\ IInv'
         /\ \A q \in OnDisk : \/ disk'[q] = Quarantined
                              \/ disk'[q] # Absent /\ Lags(disk[q], disk'[q])
         /\ \A q \in Runs : mem'[q] # Absent => /\ mem'[q].status \notin Active
                                                /\ disk'[q] = mem'[q]
<1>1. ASSUME NEW q \in OnDisk
      PROVE  /\ q \in Runs /\ disk[q] \in Run /\ WellFormed(disk[q])
             /\ Recovered(disk[q]) \in Run
             /\ Recovered(disk[q]) # Absent /\ Recovered(disk[q]) # Quarantined
             /\ WellFormed(Recovered(disk[q]))
             /\ Lags(disk[q], Recovered(disk[q]))
             /\ Recovered(disk[q]).key = disk[q].key
             /\ Recovered(disk[q]).status \notin Active
  <2>1. q \in Runs /\ disk[q] \in Run /\ WellFormed(disk[q])
    BY DEF OnDisk, IInv, TypeOK, Records
  <2>2. QED
    BY <2>1, RecoveredFacts, MarkAssumption
<1>2. up' \in BOOLEAN /\ grants' = grants
  BY DEF Restart
<1>3. mem' \in [Runs -> Run \union {Absent}]
  <2>1. \E f : mem' = [q \in Runs |-> f[q]]
    <3>1. mem' = [q \in Runs |-> mem'[q]]
      BY DEF Restart
    <3>2. QED
      BY <3>1
  <2>2. \A q \in Runs : mem'[q] \in Run \union {Absent}
    BY <1>1, RestartFiles
  <2>3. QED
    BY <2>1, <2>2
<1>4. disk' \in [Runs -> Run \union {Absent, Quarantined}]
  <2>1. disk' = [q \in Runs |-> disk'[q]]
    BY DEF Restart
  <2>2. \A q \in Runs : disk'[q] \in Run \union {Absent, Quarantined}
    BY <1>1, RestartFiles DEF IInv, TypeOK
  <2>3. QED
    BY <2>1, <2>2
<1>5. ASSUME NEW q \in Runs
      PROVE  /\ mem'[q] # Absent => up' /\ WellFormed(mem'[q])
             /\ disk'[q] \in Run => WellFormed(disk'[q])
  <2>1. mem'[q] # Absent => up' /\ WellFormed(mem'[q])
    BY <1>1, RestartFiles
  <2>2. disk'[q] \in Run => WellFormed(disk'[q])
    BY <1>1, RestartFiles, MarkAssumption DEF IInv, Records
  <2>3. QED
    BY <2>1, <2>2
<1>6. ASSUME NEW q \in Runs, mem'[q] # Absent
      PROVE  /\ disk'[q] # Quarantined
             /\ Lags(disk'[q], mem'[q])
             /\ mem'[q].status \notin Active
             /\ disk'[q] = mem'[q]
  BY <1>1, <1>6, RestartFiles, LagsReflexive
<1>7. ASSUME NEW q \in Runs, grants[q] > 0
      PROVE  Spent(disk'[q])
  <2>1. Spent(disk[q])
    BY <1>7 DEF IInv, GrantIsDurable
  <2>2. CASE q \in OnDisk /\ disk'[q] = Recovered(disk[q])
    <3>1. disk[q] # Quarantined /\ disk[q].key # None
      BY <2>1, <2>2 DEF Spent, OnDisk
    <3>2. disk'[q] \in Run /\ disk'[q].key # None /\ WellFormed(disk'[q])
      BY <3>1, <2>2, <1>1
    <3>3. QED
      BY <3>2 DEF Spent, WellFormed
  <2>3. CASE disk'[q] \in {disk[q], Quarantined}
    BY <2>1, <2>3 DEF Spent
  <2>4. QED
    BY <2>2, <2>3, RestartFiles
<1>8. Records' /\ DiskLags' /\ GrantIsDurable' /\ AtMostOneGrant'
  BY <1>2, <1>5, <1>6, <1>7
     DEF Records, WellFormed, DiskLags, Lags, GrantIsDurable, Spent, IInv, AtMostOneGrant
<1>9. \A q \in OnDisk : \/ disk'[q] = Quarantined
                        \/ disk'[q] # Absent /\ Lags(disk[q], disk'[q])
  <2>1. ASSUME NEW q \in OnDisk
        PROVE  \/ disk'[q] = Quarantined
               \/ disk'[q] # Absent /\ Lags(disk[q], disk'[q])
    BY <1>1, RestartFiles, LagsReflexive DEF OnDisk
  <2>2. QED
    BY <2>1
<1>10. QED
  BY <1>2, <1>3, <1>4, <1>6, <1>8, <1>9 DEF IInv, TypeOK

-----------------------------------------------------------------------------
(* The theorems.                                                           *)

LEMMA InitIInv == Init => IInv
BY NoneAssumption, MarkAssumption
   DEF Init, IInv, TypeOK, Records, DiskLags, GrantIsDurable, AtMostOneGrant

LEMMA NextIInv ==
  ASSUME IInv, [Next]_vars
  PROVE  IInv'
<1>1. ASSUME NEW r \in Runs, NEW saved \in BOOLEAN, Operation(r, saved)
      PROVE  IInv'
  BY <1>1, OperationStep
<1>2. CASE Crash
  BY <1>2, CrashStep
<1>3. ASSUME NEW unread, NEW stuck, NEW written, Restart(unread, stuck, written)
      PROVE  IInv'
  BY <1>3, RestartStep
<1>4. CASE UNCHANGED vars
  BY <1>4 DEF vars, IInv, TypeOK, Records, WellFormed, DiskLags, Lags,
              GrantIsDurable, Spent, AtMostOneGrant
<1>5. QED
  BY <1>1, <1>2, <1>3, <1>4 DEF Next

LEMMA Invariance == Spec => []IInv
<1>1. Init => IInv
  BY InitIInv
<1>2. IInv /\ [Next]_vars => IInv'
  BY NextIInv
<1>3. QED
  BY <1>1, <1>2, PTL DEF Spec

(* The table and the files only ever hold records of their type.           *)
THEOREM TypeCorrect == Spec => []TypeOK
<1>1. IInv => TypeOK
  BY DEF IInv
<1>2. QED
  BY <1>1, Invariance, PTL

(* For any runs, keys and contexts, and any order of requests, failed      *)
(* writes, crashes and restarts, a run is granted to hardware at most once.*)
THEOREM AtMostOnce == Spec => []AtMostOneGrant
<1>1. IInv => AtMostOneGrant
  BY DEF IInv
<1>2. QED
  BY <1>1, Invariance, PTL

(* A caller that was told NEW finds the reservation on disk ever after.    *)
THEOREM GrantsAreDurable == Spec => []GrantIsDurable
<1>1. IInv => GrantIsDurable
  BY DEF IInv
<1>2. QED
  BY <1>1, Invariance, PTL

(* What a restart would load is always something the run has been.         *)
THEOREM FilesLag == Spec => []DiskLags
<1>1. IInv => DiskLags
  BY DEF IInv
<1>2. QED
  BY <1>1, Invariance, PTL

(* No step takes a file back along the lifecycle.                          *)
THEOREM FilesMoveForward == Spec => FilesOnlyMoveForward
<1> DEFINE Forward == \A r \in OnDisk : \/ disk'[r] = Quarantined
                                        \/ disk'[r] # Absent /\ Lags(disk[r], disk'[r])
<1>1. ASSUME IInv, [Next]_vars
      PROVE  [Forward]_vars
  <2>1. ASSUME NEW r \in Runs, NEW saved \in BOOLEAN, Operation(r, saved)
        PROVE  Forward
    BY <1>1, <2>1, OperationStep
  <2>2. CASE Crash
    <3>1. ASSUME NEW q \in OnDisk
          PROVE  disk'[q] # Absent /\ Lags(disk[q], disk'[q])
      <4>1. disk' = disk /\ disk[q] \in Run /\ disk[q] # Absent
        BY <1>1, <2>2 DEF Crash, OnDisk, IInv, TypeOK
      <4>2. QED
        BY <4>1, LagsReflexive
    <3>2. QED
      BY <3>1
  <2>3. ASSUME NEW unread, NEW stuck, NEW written, Restart(unread, stuck, written)
        PROVE  Forward
    BY <1>1, <2>3, RestartStep
  <2>4. QED
    BY <1>1, <2>1, <2>2, <2>3 DEF Next
<1>2. QED
  BY <1>1, Invariance, PTL DEF Spec, FilesOnlyMoveForward

(* A process that has just started shows no run as executing.              *)
THEOREM RestartIsQuiet == Spec => RestartRunsNothing
<1> DEFINE Quiet == ~up /\ up' => \A r \in Runs :
              mem'[r] # Absent => /\ mem'[r].status \notin Active
                                  /\ disk'[r] = mem'[r]
<1>1. ASSUME IInv, [Next]_vars
      PROVE  [Quiet]_vars
  <2>1. ASSUME NEW r \in Runs, NEW saved \in BOOLEAN, Operation(r, saved)
        PROVE  Quiet
    BY <2>1 DEF Operation, Create, RespectfulUpdate, Update, Transition,
                UpdateFromSweep, ReserveExecution, Known
  <2>2. CASE Crash
    BY <2>2 DEF Crash
  <2>3. ASSUME NEW unread, NEW stuck, NEW written, Restart(unread, stuck, written)
        PROVE  Quiet
    BY <1>1, <2>3, RestartStep
  <2>4. QED
    BY <1>1, <2>1, <2>2, <2>3 DEF Next
<1>2. QED
  BY <1>1, Invariance, PTL DEF Spec, RestartRunsNothing

-----------------------------------------------------------------------------
(* The store implements ExperimentRun.                                     *)

(* Where nothing was granted, the abstract run stays put or closes.        *)
LEMMA PhaseMoves ==
  ASSUME IInv, IInv', NEW q \in Runs, grants'[q] = grants[q],
         \/ disk'[q] = disk[q]
         \/ disk[q] = Absent /\ disk'[q] # Quarantined
         \/ q \in OnDisk /\ disk'[q] = Quarantined
         \/ q \in OnDisk /\ disk'[q] # Absent /\ Lags(disk[q], disk'[q])
  PROVE  PhaseOf(disk'[q], grants'[q]) \in {PhaseOf(disk[q], grants[q]), "closed"}
<1>1. /\ disk[q] \in Run \union {Absent, Quarantined}
      /\ disk'[q] \in Run \union {Absent, Quarantined}
      /\ grants[q] \in Nat
  BY DEF IInv, TypeOK
<1>2. CASE disk'[q] = disk[q]
  BY <1>2 DEF PhaseOf
<1>3. CASE disk'[q] = Quarantined
  BY <1>3, MarkAssumption DEF PhaseOf
<1>4. CASE disk[q] = Absent /\ disk'[q] # Quarantined
  <2>1. ~(grants[q] > 0)
    BY <1>4, MarkAssumption DEF IInv, GrantIsDurable, Spent
  <2>2. QED
    BY <2>1, <1>1, <1>4 DEF PhaseOf
<1>5. CASE q \in OnDisk /\ disk'[q] # Absent /\ disk'[q] # Quarantined
           /\ Lags(disk[q], disk'[q])
  <2>1. /\ disk[q] \in Run /\ disk'[q] \in Run
        /\ disk[q] # Absent /\ disk[q] # Quarantined
    BY <1>1, <1>5 DEF OnDisk
  <2>2. WellFormed(disk[q]) /\ WellFormed(disk'[q])
    BY <2>1 DEF IInv, Records, WellFormed
  <2>3. disk[q].status \in RunStatus /\ disk'[q].status \in RunStatus
    BY <2>1 DEF Run
  <2>4. CASE disk[q].key = None
    <3>1. ~(grants[q] > 0)
      BY <2>1, <2>4 DEF IInv, GrantIsDurable, Spent
    <3>2. QED
      BY <3>1, <2>1, <2>4, <1>5 DEF PhaseOf
  <2>5. CASE disk[q].key # None
    <3>1. disk'[q].key # None
      BY <2>5, <1>5 DEF Lags
    <3>2. CASE grants[q] > 0 /\ disk[q].status \in Active
      BY <3>1, <3>2, <2>1, <2>5, <1>5 DEF PhaseOf
    <3>3. CASE ~(grants[q] > 0)
      BY <3>1, <3>3, <2>1, <2>5, <1>5 DEF PhaseOf
    <3>4. CASE disk[q].status \notin Active
      <4>1. disk[q].status \in Terminal
        BY <3>4, <2>2, <2>3, <2>5 DEF WellFormed, RunStatus
      <4>2. disk'[q].status = disk[q].status
        BY <4>1, <1>5 DEF Lags, IsTerminal
      <4>3. QED
        BY <4>2, <3>1, <3>4, <2>1, <2>5, <1>5 DEF PhaseOf
    <3>5. QED
      BY <3>2, <3>3, <3>4
  <2>6. QED
    BY <2>4, <2>5
<1>6. QED
  BY <1>1, <1>2, <1>3, <1>4, <1>5

(* Runs that only stay put or close take an abstract Close step.           *)
LEMMA ClosingStep ==
  ASSUME \A q \in Runs : Phase'[q] \in {Phase[q], "closed"}
  PROVE  Abstract!Next
<1> DEFINE S == {q \in Runs : Phase'[q] = "closed"}
<1>1. Phase' = [q \in Runs |-> Phase'[q]]
  BY DEF Phase
<1>2. \A q \in Runs : Phase'[q] = IF q \in S THEN "closed" ELSE Phase[q]
  OBVIOUS
<1>3. Phase' = [q \in Runs |-> IF q \in S THEN "closed" ELSE Phase[q]]
  BY <1>1, <1>2
<1>4. Abstract!Close(S)
  BY <1>3 DEF Abstract!Close
<1>5. QED
  BY <1>4 DEF Abstract!Next

(* The files and grants of an operation that grants nothing.               *)
LEMMA QuietPhases ==
  ASSUME IInv, IInv', NEW r \in Runs, NEW saved \in BOOLEAN, NEW run,
         Follows(r, run), Store(r, run, saved), UNCHANGED grants
  PROVE  Abstract!Next
<1>1. disk \in [Runs -> Run \union {Absent, Quarantined}]
  BY DEF IInv, TypeOK
<1>2. ASSUME NEW q \in Runs
      PROVE  Phase'[q] \in {Phase[q], "closed"}
  <2>1. \/ disk'[q] = disk[q]
        \/ disk[q] = Absent /\ disk'[q] # Quarantined
        \/ q \in OnDisk /\ disk'[q] # Absent /\ Lags(disk[q], disk'[q])
    <3>1. CASE q \in OnDisk
      BY <3>1, StoreMovesForward
    <3>2. CASE q \notin OnDisk
      <4>1. disk[q] \in {Absent, Quarantined}
        BY <3>2 DEF OnDisk
      <4>2. disk'[q] = disk[q] \/ (disk'[q] = run /\ q = r)
        BY <1>1 DEF Store, Persist
      <4>3. CASE disk[q] = Absent
        BY <4>2, <4>3, MarkAssumption DEF Follows
      <4>4. CASE disk[q] = Quarantined
        <5>1. mem[q] = Absent
          BY <4>4, MarkAssumption DEF IInv, DiskLags
        <5>2. q # r
          BY <5>1, <4>4, MarkAssumption DEF Follows
        <5>3. QED
          BY <5>2, <4>2
      <4>5. QED
        BY <4>1, <4>3, <4>4
    <3>3. QED
      BY <3>1, <3>2
  <2>2. PhaseOf(disk'[q], grants'[q]) \in {PhaseOf(disk[q], grants[q]), "closed"}
    BY <2>1, PhaseMoves
  <2>3. QED
    BY <2>2 DEF Phase
<1>3. QED
  BY <1>2, ClosingStep

LEMMA AbstractStep ==
  ASSUME IInv, IInv', [Next]_vars
  PROVE  [Abstract!Next]_Phase
<1>1. ASSUME NEW r \in Runs, NEW saved \in BOOLEAN, Operation(r, saved)
      PROVE  Abstract!Next
  <2>1. ASSUME NEW k \in Keys, NEW fp \in Fingerprints,
               ReserveExecution(r, k, fp, saved)
        PROVE  Abstract!Next
    <3> DEFINE run == Reserved(mem[r], k, fp)
    <3>1. /\ Known(r) /\ mem[r] # Absent
          /\ Store(r, run, saved)
          /\ MayReserve(mem[r], fp)
          /\ grants' = IF saved THEN [grants EXCEPT ![r] = @ + 1] ELSE grants
      BY <2>1 DEF ReserveExecution, Known
    <3>2. Follows(r, run)
      BY <2>1, <3>1, ReserveFollows DEF ReserveExecution
    <3>3. CASE ~saved
      BY <3>1, <3>2, <3>3, QuietPhases
    <3>4. CASE saved
      <4>1. /\ disk \in [Runs -> Run \union {Absent, Quarantined}]
            /\ grants \in [Runs -> Nat]
        BY DEF IInv, TypeOK
      <4>2. /\ disk' = [disk EXCEPT ![r] = run]
            /\ grants' = [grants EXCEPT ![r] = @ + 1]
        BY <3>1, <3>4 DEF Store, Persist
      <4>3. run \in Run /\ run.key = k /\ run.status = "running"
        BY <3>1, <3>2, KnownIsRun DEF Follows, Reserved, Run
      <4>4. PhaseOf(disk'[r], grants'[r]) = "executing"
        <5>1. disk'[r] = run /\ grants'[r] > 0
          BY <4>1, <4>2
        <5>2. run # Absent /\ run # Quarantined /\ run.key # None
          BY <4>3, MarkAssumption, NoneAssumption
        <5>3. run.status \in Active
          BY <4>3 DEF Active
        <5>4. QED
          BY <5>1, <5>2, <5>3 DEF PhaseOf
      <4>5. PhaseOf(disk[r], grants[r]) = "open"
        <5>1. CASE disk[r] = Absent
          BY <5>1 DEF PhaseOf
        <5>2. CASE disk[r] # Absent
          <6>1. disk[r] # Quarantined /\ Lags(disk[r], mem[r])
            BY <5>2, <3>1 DEF IInv, DiskLags
          <6>2. disk[r].key = None
            BY <6>1, <3>1 DEF Lags, MayReserve
          <6>3. QED
            BY <5>2, <6>1, <6>2 DEF PhaseOf
        <5>3. QED
          BY <5>1, <5>2
      <4>6. Phase' = [Phase EXCEPT ![r] = "executing"]
        <5>1. ASSUME NEW q \in Runs
              PROVE  Phase'[q] = [Phase EXCEPT ![r] = "executing"][q]
          <6>1. CASE q = r
            BY <6>1, <4>4 DEF Phase
          <6>2. CASE q # r
            BY <6>2, <4>1, <4>2 DEF Phase
          <6>3. QED
            BY <6>1, <6>2
        <5>2. QED
          BY <5>1 DEF Phase
      <4>7. Abstract!Grant(r)
        BY <4>5, <4>6 DEF Abstract!Grant, Phase
      <4>8. QED
        BY <4>7 DEF Abstract!Next
    <3>5. QED
      BY <3>3, <3>4
  <2>2. CASE ~ \E k \in Keys, fp \in Fingerprints : ReserveExecution(r, k, fp, saved)
    <3>1. up /\ UNCHANGED grants /\ \E run : Follows(r, run) /\ Store(r, run, saved)
      BY <1>1, <2>2, QuietOperation DEF Operation
    <3>2. QED
      BY <3>1, QuietPhases
  <2>3. QED
    BY <2>1, <2>2
<1>2. CASE Crash \/ UNCHANGED vars
  BY <1>2 DEF Crash, vars, Phase
<1>3. ASSUME NEW unread, NEW stuck, NEW written, Restart(unread, stuck, written)
      PROVE  Abstract!Next
  <2>1. ASSUME NEW q \in Runs
        PROVE  Phase'[q] \in {Phase[q], "closed"}
    <3>1. grants' = grants
      BY <1>3 DEF Restart
    <3>2. \/ disk'[q] = disk[q]
          \/ q \in OnDisk /\ disk'[q] = Quarantined
          \/ q \in OnDisk /\ disk'[q] # Absent /\ Lags(disk[q], disk'[q])
      BY <1>3, RestartFiles, RestartStep
    <3>3. PhaseOf(disk'[q], grants'[q]) \in {PhaseOf(disk[q], grants[q]), "closed"}
      BY <3>1, <3>2, PhaseMoves
    <3>4. QED
      BY <3>3 DEF Phase
  <2>2. QED
    BY <2>1, ClosingStep
<1>4. QED
  BY <1>1, <1>2, <1>3 DEF Next

(* The store, with its failed writes, crashes and restarts, is a run that  *)
(* is open, then executing once, then closed for good.                     *)
THEOREM Refinement == Spec => ImplementsExperimentRun
<1>1. Init => Abstract!Init
  BY DEF Init, Abstract!Init, Phase, PhaseOf
<1>2. IInv /\ IInv' /\ [Next]_vars => [Abstract!Next]_Phase
  BY AbstractStep
<1>3. QED
  BY <1>1, <1>2, Invariance, PTL DEF Spec, ImplementsExperimentRun, Abstract!Spec
=============================================================================
