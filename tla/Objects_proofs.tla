---------------------------- MODULE Objects_proofs ----------------------------
(***************************************************************************)
(* What the shared objects keep true of themselves, for any number of      *)
(* tasks, every capacity and every interleaving of calls, expiries and     *)
(* lifecycle calls: the loan of the mutex, the bounds of the count, the    *)
(* frames of the snapshot buffer, the books of the pool, the step of the   *)
(* two controllers of a cascade, whom a call by ID reaches, what a waiter  *)
(* tells of its call, and that both queues are channels.                   *)
(***************************************************************************)
EXTENDS Objects, ParameterEdit_proofs, FiniteSetTheorems, SequenceTheorems, TLAPS

(* A step is one of the chosen object's, and leaves the choice alone. *)
LEMMA OneObject ==
    ASSUME [Next]_vars
    PROVE  /\ subject' = subject
           /\ subject = "mutex" => Mutex!Next \/ UNCHANGED <<port, object, task>>
           /\ subject = "count" => Count!Next \/ UNCHANGED <<port, object, task>>
           /\ subject = "event" => Event!Next \/ UNCHANGED <<port, object, task>>
           /\ subject = "queue" => Queue!Next \/ UNCHANGED <<port, object, task>>
           /\ subject = "fixed" => Fixed!Next \/ UNCHANGED <<object, task>>
           /\ subject = "pool" => Pool!Next \/ UNCHANGED <<object, task>>
           /\ subject = "snapshot" => Snapshot!Next \/ UNCHANGED <<object, task, memory>>
           /\ subject = "cascade" => Cascade!Next \/ UNCHANGED <<object, task>>
           /\ subject = "parameter" => Parameter!Next \/ UNCHANGED <<object, task, memory>>
BY DEF Next, Synchronise, Serial, vars

(* The modules that are instantiated count as this one does. *)
LEMMA SameCardinality ==
    ASSUME NEW S
    PROVE  Mutex!Cardinality(S) = Cardinality(S) /\ Pool!Cardinality(S) = Cardinality(S)
<1>1. Mutex!Cardinality(S) = Cardinality(S)
  BY DEF Mutex!Cardinality, Cardinality
<1>2. Pool!Cardinality(S) = Cardinality(S)
  BY DEF Pool!Cardinality, Cardinality
<1> QED BY <1>1, <1>2

-----------------------------------------------------------------------------
(* The fields of the mutex tell who holds it, but reset and start may have *)
(* taken the owner away from a task that locked it under them.             *)
MutexInv ==
    subject = "mutex" =>
        /\ object \in [locked : BOOLEAN, owner : Task \cup {None},
                       held : SUBSET Task, lost : SUBSET Task]
        /\ IF object.locked
           THEN \E holder \in Task : object.held = {holder} /\ object.owner \in {holder, None}
           ELSE object.held = {}

LEMMA MutexInit == Init => MutexInv
<1> SUFFICES ASSUME Init, subject = "mutex" PROVE MutexInv
  BY DEF MutexInv
<1>1. object = Mutex!Unlocked
  BY DEF Init, InitSubject, Mutex!Init, Mutex!InitWith
<1> QED BY <1>1 DEF MutexInv, Mutex!Unlocked

LEMMA MutexStep ==
    ASSUME MutexInv, [Next]_vars
    PROVE  MutexInv'
<1> SUFFICES ASSUME subject = "mutex" PROVE MutexInv'
  BY OneObject DEF MutexInv
<1>1. subject' = "mutex" /\ (Mutex!Next \/ UNCHANGED <<port, object, task>>)
  BY OneObject
<1>2. CASE UNCHANGED object
  BY <1>1, <1>2 DEF MutexInv
<1>3. ASSUME NEW t \in Task, Mutex!TryLock(t) PROVE MutexInv'
  <2>1. CASE object.locked
    BY <1>2, <1>3, <2>1 DEF Mutex!TryLock
  <2>2. CASE ~object.locked
    <3> DEFINE taken == [object EXCEPT !.locked = TRUE, !.owner = t,
                                       !.held = @ \cup {t}, !.lost = @ \ {t}]
    <3>1. object' = taken /\ object.held = {}
      BY <1>3, <2>2 DEF Mutex!TryLock, MutexInv
    <3>2. taken \in [locked : BOOLEAN, owner : Task \cup {None},
                     held : SUBSET Task, lost : SUBSET Task]
      BY DEF MutexInv
    <3>3. taken.locked /\ taken.held = {t} /\ taken.owner = t
      BY <3>1 DEF MutexInv
    <3> QED BY <1>1, <3>1, <3>2, <3>3 DEF MutexInv
  <2> QED BY <2>1, <2>2 DEF MutexInv
<1>4. ASSUME NEW t \in Task, Mutex!Unlock(t) PROVE MutexInv'
  <2>1. CASE Mutex!MayUnlock(t)
    <3>1. object' = [object EXCEPT !.locked = FALSE, !.owner = None, !.held = @ \ {t}]
      BY <1>4, <2>1 DEF Mutex!Unlock
    <3>2. object.held = {t}
      BY <2>1, NoneAssumption DEF Mutex!MayUnlock, MutexInv
    <3> QED BY <1>1, <3>1, <3>2 DEF MutexInv
  <2>2. CASE ~Mutex!MayUnlock(t)
    <3>1. object' = [object EXCEPT !.lost = @ \ {t}]
      BY <1>4, <2>2 DEF Mutex!Unlock
    <3> QED BY <1>1, <3>1 DEF MutexInv
  <2> QED BY <2>1, <2>2
<1>5. CASE Mutex!LockedStore
  BY <1>1, <1>5 DEF MutexInv, Mutex!LockedStore
<1>6. CASE Mutex!OwnerStore
  BY <1>1, <1>6 DEF MutexInv, Mutex!OwnerStore
<1> QED BY <1>1, <1>2, <1>3, <1>4, <1>5, <1>6
    DEF Mutex!Next, Mutex!Call, Mutex!CallLock, Mutex!CallUnlock, Mutex!Begin, Mutex!TaskStep, Mutex!CheckReady, Mutex!CheckRefused,
        Mutex!SignalOne, Mutex!CommonStep, Mutex!WaiterReset, Mutex!Recheck,
        Mutex!Sleep, Mutex!Timeout, Mutex!WakeUp, Mutex!Lifecycle, Mutex!PortInit,
        Mutex!Start, Mutex!Stop, Mutex!Reset, Mutex!Deinit, Mutex!LifecycleCall,
        Mutex!StateStore, Mutex!CancelAll

(* Between two starts the mutex is lent to one task at most, and its       *)
(* fields tell whether it is, whoever stops or resets it meanwhile.        *)
THEOREM MutexIsLentOnce == Spec => []MutexLentOnce
<1>1. Init => MutexInv
  BY MutexInit
<1>2. MutexInv /\ [Next]_vars => MutexInv'
  BY MutexStep
<1>3. MutexInv => MutexLentOnce
  <2> SUFFICES ASSUME MutexInv, subject = "mutex" PROVE Mutex!LentOnce
    BY DEF MutexLentOnce
  <2>1. CASE object.locked
    <3>1. PICK holder \in Task : object.held = {holder} /\ object.owner \in {holder, None}
      BY <2>1 DEF MutexInv
    <3> QED BY <2>1, <3>1, FS_Singleton, SameCardinality DEF Mutex!LentOnce
  <2>2. CASE ~object.locked
    BY <2>2, FS_EmptySet, SameCardinality DEF MutexInv, Mutex!LentOnce
  <2> QED BY <2>1, <2>2
<1> QED BY <1>1, <1>2, <1>3, PTL DEF Spec

-----------------------------------------------------------------------------
LEMMA CountStep ==
    ASSUME CountInBounds, [Next]_vars
    PROVE  CountInBounds'
<1> SUFFICES ASSUME subject = "count" PROVE CountInBounds'
  BY OneObject DEF CountInBounds
<1>1. subject' = "count" /\ (Count!Next \/ UNCHANGED <<port, object, task>>)
  BY OneObject
<1>2. CASE UNCHANGED object
  BY <1>1, <1>2 DEF CountInBounds
<1>3. ASSUME NEW t \in Task, Count!Give(t) PROVE CountInBounds'
  BY <1>1, <1>3, MaximumAssumption DEF CountInBounds, Count!Give
<1>4. ASSUME NEW t \in Task, Count!Take(t) PROVE CountInBounds'
  BY <1>1, <1>4, MaximumAssumption DEF CountInBounds, Count!Take
<1>5. CASE Count!CountStore
  BY <1>1, <1>5, MaximumAssumption DEF CountInBounds, Count!CountStore
<1> QED BY <1>1, <1>2, <1>3, <1>4, <1>5
    DEF Count!Next, Count!Call, Count!CallGive, Count!CallTake, Count!Begin,
        Count!TaskStep, Count!CheckReady, Count!CheckRefused,
        Count!SignalOne, Count!CommonStep, Count!WaiterReset, Count!Recheck,
        Count!Sleep, Count!Timeout, Count!WakeUp, Count!Lifecycle, Count!PortInit,
        Count!Start, Count!Stop, Count!Reset, Count!Deinit, Count!LifecycleCall,
        Count!StateStore, Count!CancelAll

(* No interleaving of gives, takes and lifecycle calls moves the count of  *)
(* count_notification out of its bounds, whatever the maximum.             *)
THEOREM CountStaysInBounds == Spec => []CountInBounds
<1>1. Init => CountInBounds
  BY MaximumAssumption DEF Init, InitSubject, CountInBounds, Count!Init, Count!InitWith
<1> QED BY <1>1, CountStep, PTL DEF Spec

-----------------------------------------------------------------------------
(* A writer fills a slot that nobody reads, and not the active one once    *)
(* something is published; a reader is registered at the slot of its lease *)
(* as long as it has one.                                                  *)
SnapshotInv ==
    subject = "snapshot" =>
        /\ object \in [published : BOOLEAN, active : {0, 1}, writing : {0, 1},
                       writer : Task \cup {None}, readers : [{0, 1} -> Task \cup {None}],
                       info : [{0, 1} -> Nat]]
        /\ memory \in [{0, 1} -> Nat]
        /\ task \in [Task -> [slot : {0, 1}, sequence : Nat]]
        /\ object.writer # None =>
              /\ object.readers[object.writing] = None
              /\ object.published => object.writing = 1 - object.active
        /\ object.published => /\ object.info[object.active] > 0
                               /\ memory[object.active] = object.info[object.active]
        /\ ~object.published => object.readers = [s \in {0, 1} |-> None]
        /\ \A t \in Task :
              IF task[t] = Snapshot!NoLease
              THEN \A s \in {0, 1} : object.readers[s] # t
              ELSE /\ object.readers[task[t].slot] = t
                   /\ object.readers[1 - task[t].slot] # t
                   /\ task[t].sequence = object.info[task[t].slot]
                   /\ task[t].sequence = memory[task[t].slot]

LEMMA SnapshotInit == Init => SnapshotInv
<1> SUFFICES ASSUME Init, subject = "snapshot" PROVE SnapshotInv
  BY DEF SnapshotInv
<1>1. /\ object = Snapshot!NewBuffer
      /\ memory = [s \in {0, 1} |-> 0]
      /\ task = [t \in Task |-> Snapshot!NoLease]
  BY DEF Init, InitSubject, Snapshot!Init, Snapshot!Slot
<1> QED BY <1>1, NoneAssumption
    DEF SnapshotInv, Snapshot!NewBuffer, Snapshot!NoLease, Snapshot!Slot

LEMMA SnapshotStep ==
    ASSUME SnapshotInv, [Next]_vars
    PROVE  SnapshotInv'
<1> SUFFICES ASSUME subject = "snapshot" PROVE SnapshotInv'
  BY OneObject DEF SnapshotInv
<1>1. subject' = "snapshot" /\ (Snapshot!Next \/ UNCHANGED <<object, task, memory>>)
  BY OneObject
<1> USE NoneAssumption
<1>2. CASE UNCHANGED <<object, task, memory>>
  BY <1>1, <1>2 DEF SnapshotInv
<1>3. ASSUME NEW u \in Task, Snapshot!Begin(u) PROVE SnapshotInv'
  <2> DEFINE slot == Snapshot!BeginSlot
  <2>1. /\ object' = [object EXCEPT !.writing = slot, !.writer = u]
        /\ object.readers[slot] = None
        /\ memory' = memory /\ task' = task
    BY <1>3 DEF Snapshot!Begin
  <2>2. slot \in {0, 1} /\ (object.published => slot = 1 - object.active)
    BY DEF SnapshotInv, Snapshot!BeginSlot
  <2> HIDE DEF slot
  <2>3. object' \in [published : BOOLEAN, active : {0, 1}, writing : {0, 1},
                     writer : Task \cup {None}, readers : [{0, 1} -> Task \cup {None}],
                     info : [{0, 1} -> Nat]]
    BY <2>1, <2>2 DEF SnapshotInv
  <2>4. /\ object'.writing = slot /\ object'.published = object.published
        /\ object'.active = object.active /\ object'.readers = object.readers
        /\ object'.info = object.info
    BY <2>1 DEF SnapshotInv
  <2> QED BY <1>1, <2>1, <2>2, <2>3, <2>4 DEF SnapshotInv, Snapshot!NoLease
<1>4. CASE Snapshot!Fill
  BY <1>1, <1>4 DEF SnapshotInv, Snapshot!Fill, Snapshot!Sequence
<1>5. CASE Snapshot!Publish
  <2> DEFINE next == Snapshot!Sequence + 1
             slot == object.writing
  <2>1. next \in Nat /\ next > 0
    BY DEF SnapshotInv, Snapshot!Sequence
  <2>2. /\ object' = [object EXCEPT !.info = [@ EXCEPT ![slot] = next], !.active = slot,
                                    !.published = TRUE, !.writer = None]
        /\ memory[slot] = next /\ memory' = memory /\ task' = task
        /\ object.writer # None
    BY <1>5 DEF Snapshot!Publish
  <2>3. /\ slot \in {0, 1} /\ object.readers[slot] = None
        /\ object.published => slot = 1 - object.active
    BY <2>2 DEF SnapshotInv
  <2> HIDE DEF next
  <2>4. object' \in [published : BOOLEAN, active : {0, 1}, writing : {0, 1},
                     writer : Task \cup {None}, readers : [{0, 1} -> Task \cup {None}],
                     info : [{0, 1} -> Nat]]
    BY <2>1, <2>2, <2>3 DEF SnapshotInv
  <2>5. /\ object'.published /\ object'.active = slot /\ object'.writer = None
        /\ object'.readers = object.readers
        /\ object'.info[slot] = next
        /\ \A s \in {0, 1} \ {slot} : object'.info[s] = object.info[s]
    BY <2>2, <2>3 DEF SnapshotInv
  <2>6. ASSUME NEW t \in Task
        PROVE  IF task[t] = Snapshot!NoLease
               THEN \A s \in {0, 1} : object'.readers[s] # t
               ELSE /\ object'.readers[task[t].slot] = t
                    /\ object'.readers[1 - task[t].slot] # t
                    /\ task[t].sequence = object'.info[task[t].slot]
                    /\ task[t].sequence = memory[task[t].slot]
    BY <2>3, <2>5 DEF SnapshotInv
  <2> QED BY <1>1, <2>1, <2>2, <2>4, <2>5, <2>6 DEF SnapshotInv, Snapshot!NoLease
<1>6. CASE Snapshot!Cancel
  BY <1>1, <1>6 DEF SnapshotInv, Snapshot!Cancel
<1>7. ASSUME NEW u \in Task, NEW s \in {0, 1}, NEW reader \in Task \cup {None},
             NEW lease \in [slot : {0, 1}, sequence : Nat],
             object' = [object EXCEPT !.readers[s] = reader],
             task' = [task EXCEPT ![u] = lease], memory' = memory,
             \/ /\ object.published /\ s = object.active /\ reader = u
                /\ object.readers[s] = None /\ \A other \in {0, 1} : object.readers[other] # u
                /\ lease = [slot |-> s, sequence |-> object.info[s]]
             \/ object.readers[s] = u /\ reader = None /\ lease = Snapshot!NoLease
      PROVE  SnapshotInv'
  <2> DEFINE readers == [object.readers EXCEPT ![s] = reader]
  <2>1. /\ object.readers \in [{0, 1} -> Task \cup {None}] /\ object.info \in [{0, 1} -> Nat]
        /\ object.active \in {0, 1} /\ task \in [Task -> [slot : {0, 1}, sequence : Nat]]
    BY DEF SnapshotInv
  <2>2. readers \in [{0, 1} -> Task \cup {None}] /\ readers[s] = reader
        /\ readers[1 - s] = object.readers[1 - s] /\ 1 - s \in {0, 1}
    BY <2>1
  <2>3. /\ object' \in [published : BOOLEAN, active : {0, 1}, writing : {0, 1},
                        writer : Task \cup {None}, readers : [{0, 1} -> Task \cup {None}],
                        info : [{0, 1} -> Nat]]
        /\ object'.published = object.published /\ object'.active = object.active
        /\ object'.writing = object.writing /\ object'.writer = object.writer
        /\ object'.info = object.info /\ object'.readers = readers
    <3>1. object' = [object EXCEPT !.readers = readers]
      BY <1>7 DEF SnapshotInv
    <3> HIDE DEF readers
    <3> QED BY <2>2, <3>1 DEF SnapshotInv
  <2> HIDE DEF readers
  <2>4. /\ task' \in [Task -> [slot : {0, 1}, sequence : Nat]]
        /\ task'[u] = lease /\ \A t \in Task \ {u} : task'[t] = task[t]
    BY <1>7, <2>1
  <2>5. object.published
    <3>1. object.readers # [other \in {0, 1} |-> None] \/ object.published
      BY <1>7
    <3> QED BY <3>1 DEF SnapshotInv
  <2>6. object.writer # None =>
            readers[object.writing] = None /\ object.writing = 1 - object.active
    BY <1>7, <2>1, <2>2, <2>5 DEF SnapshotInv
  <2>7. object.info[object.active] > 0 /\ memory[object.active] = object.info[object.active]
    BY <2>5 DEF SnapshotInv
  <2>8. ASSUME NEW t \in Task \ {u}
        PROVE  IF task[t] = Snapshot!NoLease
               THEN \A other \in {0, 1} : readers[other] # t
               ELSE /\ readers[task[t].slot] = t /\ readers[1 - task[t].slot] # t
                    /\ task[t].sequence = object.info[task[t].slot]
                    /\ task[t].sequence = memory[task[t].slot]
    <3>1. reader # t /\ object.readers[s] # t
      BY <1>7
    <3>2. task[t].slot \in {0, 1}
      BY <2>1
    <3> QED BY <2>2, <3>1, <3>2 DEF SnapshotInv
  <2>9. IF lease = Snapshot!NoLease
        THEN \A other \in {0, 1} : readers[other] # u
        ELSE /\ readers[lease.slot] = u /\ readers[1 - lease.slot] # u
             /\ lease.sequence = object.info[lease.slot]
             /\ lease.sequence = memory[lease.slot]
    <3>1. CASE reader = u
      <4>1. lease = [slot |-> s, sequence |-> object.info[s]] /\ s = object.active
        BY <1>7, <3>1
      <4>2. lease # Snapshot!NoLease
        BY <2>7, <4>1 DEF Snapshot!NoLease
      <4> QED BY <1>7, <2>2, <2>7, <3>1, <4>1, <4>2
    <3>2. CASE reader # u
      <4>1. object.readers[s] = u /\ lease = Snapshot!NoLease
        BY <1>7, <3>2
      <4>2. object.readers[1 - s] # u
        <5>1. task[u] = Snapshot!NoLease \/ (task[u].slot = s /\ task[u].slot \in {0, 1})
          BY <2>1, <2>2, <4>1 DEF SnapshotInv
        <5> QED BY <2>2, <4>1, <5>1 DEF SnapshotInv
      <4> QED BY <2>2, <3>2, <4>1, <4>2
    <3> QED BY <3>1, <3>2
  <2> QED BY <1>1, <1>7, <2>3, <2>4, <2>5, <2>6, <2>7, <2>8, <2>9 DEF SnapshotInv, Snapshot!NoLease
<1>8. ASSUME NEW u \in Task, Snapshot!Acquire(u) \/ Snapshot!Release(u) PROVE SnapshotInv'
  <2>1. CASE Snapshot!Acquire(u)
    <3> DEFINE lease == [slot |-> object.active, sequence |-> object.info[object.active]]
    <3>1. /\ object.published /\ object.readers[object.active] = None
          /\ \A s \in {0, 1} : object.readers[s] # u
          /\ object' = [object EXCEPT !.readers[object.active] = u]
          /\ task' = [task EXCEPT ![u] = lease] /\ memory' = memory
      BY <2>1 DEF Snapshot!Acquire, Snapshot!Sequence, Snapshot!Slot
    <3>2. object.active \in {0, 1} /\ lease \in [slot : {0, 1}, sequence : Nat]
      BY DEF SnapshotInv
    <3> HIDE DEF lease
    <3> QED BY <1>7, <3>1, <3>2 DEF lease
  <2>2. CASE Snapshot!Release(u)
    <3>1. PICK s \in {0, 1} : /\ object.readers[s] = u
                              /\ object' = [object EXCEPT !.readers[s] = None]
                              /\ task' = [task EXCEPT ![u] = Snapshot!NoLease]
                              /\ memory' = memory
      BY <2>2 DEF Snapshot!Release, Snapshot!Slot
    <3>2. Snapshot!NoLease \in [slot : {0, 1}, sequence : Nat]
      BY DEF Snapshot!NoLease
    <3> QED BY <1>7, <3>1, <3>2
  <2> QED BY <1>8, <2>1, <2>2
<1>9. CASE Snapshot!BufferInit
  BY <1>1, <1>9 DEF SnapshotInv, Snapshot!BufferInit, Snapshot!NewBuffer, Snapshot!Slot
<1> QED BY <1>1, <1>2, <1>3, <1>4, <1>5, <1>6, <1>8, <1>9 DEF Snapshot!Next

(* Whoever reads from snapshot_buffer reads a complete frame that stays as *)
(* it was published, however many users write and read at whatever pace.   *)
THEOREM FramesAreWhole == Spec => []FramesStayWhole
<1>1. SnapshotInv => FramesStayWhole
  BY DEF SnapshotInv, FramesStayWhole, Snapshot!FramesStayWhole
<1> QED BY <1>1, SnapshotInit, SnapshotStep, PTL DEF Spec

-----------------------------------------------------------------------------
PoolSlots == 0 .. PoolCapacity - 1
FreeSlots == PoolSlots \ task

(* The books are in order, and nothing but slots of the pool is lent. *)
PoolInv ==
    subject = "pool" =>
        /\ object \in [states : [PoolSlots -> {0, 1}], available : Nat,
                       lowest_free_index : Nat, exhausted_count : Nat]
        /\ task \subseteq PoolSlots
        /\ \A i \in PoolSlots : object.states[i] = IF i \in task THEN 1 ELSE 0
        /\ object.available = Cardinality(FreeSlots)
        /\ object.lowest_free_index \in FreeSlots \cup {PoolCapacity}
        /\ \A i \in FreeSlots : object.lowest_free_index <= i

(* The scan of object_pool_acquire stops at the next free slot, or behind  *)
(* the last slot if there is none.                                         *)
LEMMA NextFreeIsNext ==
    ASSUME PoolInv, subject = "pool", NEW slot \in PoolSlots
    PROVE  LET next == Pool!NextFree(slot)
           IN  /\ next \in slot + 1 .. PoolCapacity
               /\ next = PoolCapacity \/ object.states[next] = 0
               /\ \A i \in slot + 1 .. next - 1 : object.states[i] # 0
<1> DEFINE Candidates == {n \in slot + 1 .. PoolCapacity : n = PoolCapacity \/ object.states[n] = 0}
           IsNext(next) == /\ next \in slot + 1 .. PoolCapacity
                           /\ next = PoolCapacity \/ object.states[next] = 0
                           /\ \A i \in slot + 1 .. next - 1 : object.states[i] # 0
<1>1. Candidates \in SUBSET Nat /\ PoolCapacity \in Candidates
  BY PoolCapacityAssumption DEF PoolSlots
<1>2. PICK least \in Candidates : \A n \in Candidates : least <= n
  <2> HIDE DEF Candidates
  <2> QED BY <1>1, LeastElement
<1>3. IsNext(least)
  BY <1>2, PoolCapacityAssumption DEF PoolSlots
<1>4. Pool!NextFree(slot) = CHOOSE next : IsNext(next)
  BY Zenon DEF Pool!NextFree
<1> HIDE DEF IsNext
<1>5. IsNext(Pool!NextFree(slot))
  BY <1>3, <1>4, Zenon
<1> QED BY <1>5 DEF IsNext

LEMMA PoolInitiation == Init => PoolInv
<1> SUFFICES ASSUME Init, subject = "pool" PROVE PoolInv
  BY DEF PoolInv
<1>1. object = Pool!NewPool /\ task = {}
  BY DEF Init, InitSubject, Pool!Init
<1>2. FreeSlots = PoolSlots
  BY <1>1 DEF FreeSlots
<1>3. Cardinality(PoolSlots) = PoolCapacity
  BY PoolCapacityAssumption, FS_Interval DEF PoolSlots
<1> QED BY <1>1, <1>2, <1>3, PoolCapacityAssumption
    DEF PoolInv, PoolSlots, Pool!NewPool, Pool!PoolSlots

LEMMA PoolStep ==
    ASSUME PoolInv, [Next]_vars
    PROVE  PoolInv'
<1> SUFFICES ASSUME subject = "pool" PROVE PoolInv'
  BY OneObject DEF PoolInv
<1>1. subject' = "pool" /\ (Pool!Next \/ UNCHANGED <<object, task>>)
  BY OneObject
<1>2. IsFiniteSet(FreeSlots)
  <2>1. IsFiniteSet(PoolSlots)
    BY PoolCapacityAssumption, FS_Interval DEF PoolSlots
  <2> QED BY <2>1, FS_Subset DEF FreeSlots
<1>3. CASE UNCHANGED <<object, task>>
  BY <1>1, <1>3 DEF PoolInv, FreeSlots
<1>4. CASE Pool!Acquire
  <2> DEFINE slot == object.lowest_free_index
             next == Pool!NextFree(slot)
  <2>1. slot \in PoolSlots /\ object.states[slot] = 0 /\ object.available > 0
    BY <1>4 DEF Pool!Acquire, Pool!IndexUsable, Pool!PoolSlots, PoolSlots
  <2>2. /\ next \in slot + 1 .. PoolCapacity
        /\ next = PoolCapacity \/ object.states[next] = 0
        /\ \A i \in slot + 1 .. next - 1 : object.states[i] # 0
    BY <2>1, NextFreeIsNext
  <2>3. /\ object' = [object EXCEPT !.states = [@ EXCEPT ![slot] = 1], !.available = @ - 1,
                                    !.lowest_free_index = next]
        /\ task' = task \cup {slot}
    BY <1>4 DEF Pool!Acquire
  <2> HIDE DEF next
  <2>4. slot \in FreeSlots /\ FreeSlots' = FreeSlots \ {slot}
    BY <2>1, <2>3 DEF FreeSlots, PoolInv, PoolSlots
  <2>5. Cardinality(FreeSlots') = object.available - 1
    BY <1>2, <2>4, FS_RemoveElement DEF PoolInv
  <2>6. next \in Nat /\ next \in FreeSlots' \cup {PoolCapacity}
    BY <2>1, <2>2, <2>4, PoolCapacityAssumption DEF PoolInv, PoolSlots, FreeSlots
  <2>7. \A i \in FreeSlots' : next <= i
    BY <2>1, <2>2, <2>4 DEF PoolInv, PoolSlots, FreeSlots
  <2>8. \A i \in PoolSlots : object'.states[i] = IF i \in task' THEN 1 ELSE 0
    BY <2>1, <2>3 DEF PoolInv
  <2>9. /\ object' \in [states : [PoolSlots -> {0, 1}], available : Nat,
                        lowest_free_index : Nat, exhausted_count : Nat]
        /\ object'.available = object.available - 1 /\ object'.lowest_free_index = next
    <3> DEFINE states == [object.states EXCEPT ![slot] = 1]
               available == object.available - 1
    <3>1. states \in [PoolSlots -> {0, 1}] /\ available \in Nat
      BY <2>1 DEF PoolInv
    <3>2. object' = [object EXCEPT !.states = states, !.available = available,
                                  !.lowest_free_index = next]
      BY <2>3 DEF PoolInv
    <3> HIDE DEF states, available
    <3>3. object' \in [states : [PoolSlots -> {0, 1}], available : Nat,
                       lowest_free_index : Nat, exhausted_count : Nat]
      BY <2>6, <3>1, <3>2 DEF PoolInv
    <3>4. object'.available = available /\ object'.lowest_free_index = next
      BY <3>2 DEF PoolInv
    <3> QED BY <3>3, <3>4 DEF available
  <2>10. task' \subseteq PoolSlots
    BY <2>1, <2>3 DEF PoolInv
  <2> QED BY <1>1, <2>5, <2>6, <2>7, <2>8, <2>9, <2>10 DEF PoolInv
<1>5. CASE Pool!AcquireFull
  BY <1>1, <1>5 DEF PoolInv, FreeSlots, Pool!AcquireFull
<1>6. ASSUME NEW slot \in PoolSlots, Pool!Release(slot) PROVE PoolInv'
  <2> DEFINE lowest == IF slot < object.lowest_free_index THEN slot
                       ELSE object.lowest_free_index
  <2>1. /\ slot \in task
        /\ object' = [object EXCEPT !.states = [@ EXCEPT ![slot] = 0], !.available = @ + 1,
                                    !.lowest_free_index = lowest]
        /\ task' = task \ {slot}
    BY <1>6 DEF Pool!Release, PoolInv
  <2>2. slot \notin FreeSlots /\ FreeSlots' = FreeSlots \cup {slot}
    BY <2>1 DEF FreeSlots, PoolInv
  <2>3. Cardinality(FreeSlots') = object.available + 1
    BY <1>2, <2>2, FS_AddElement DEF PoolInv
  <2>4. lowest \in Nat /\ lowest \in FreeSlots' \cup {PoolCapacity}
    BY <2>2 DEF PoolInv, PoolSlots
  <2>5. \A i \in FreeSlots' : lowest <= i
    BY <2>2, PoolCapacityAssumption DEF PoolInv, PoolSlots, FreeSlots
  <2> HIDE DEF lowest
  <2>6. \A i \in PoolSlots : object'.states[i] = IF i \in task' THEN 1 ELSE 0
    BY <2>1 DEF PoolInv
  <2>7. /\ object' \in [states : [PoolSlots -> {0, 1}], available : Nat,
                        lowest_free_index : Nat, exhausted_count : Nat]
        /\ object'.available = object.available + 1 /\ object'.lowest_free_index = lowest
    <3> DEFINE states == [object.states EXCEPT ![slot] = 0]
               available == object.available + 1
    <3>1. states \in [PoolSlots -> {0, 1}] /\ available \in Nat
      BY <2>1 DEF PoolInv
    <3>2. object' = [object EXCEPT !.states = states, !.available = available,
                                  !.lowest_free_index = lowest]
      BY <2>1 DEF PoolInv
    <3> HIDE DEF states, available
    <3>3. object' \in [states : [PoolSlots -> {0, 1}], available : Nat,
                       lowest_free_index : Nat, exhausted_count : Nat]
      BY <2>4, <3>1, <3>2 DEF PoolInv
    <3>4. object'.available = available /\ object'.lowest_free_index = lowest
      BY <3>2 DEF PoolInv
    <3> QED BY <3>3, <3>4 DEF available
  <2>8. task' \subseteq PoolSlots
    BY <2>1 DEF PoolInv
  <2> QED BY <1>1, <2>3, <2>4, <2>5, <2>6, <2>7, <2>8 DEF PoolInv
<1>7. CASE Pool!PoolInit
  <2>1. object.available = PoolCapacity /\ object' = Pool!NewPool /\ task' = task
    BY <1>7 DEF Pool!PoolInit
  <2>2. IsFiniteSet(PoolSlots) /\ Cardinality(PoolSlots) = PoolCapacity
    BY PoolCapacityAssumption, FS_Interval DEF PoolSlots
  <2>3. FreeSlots = PoolSlots
    <3>1. Cardinality(FreeSlots) = Cardinality(PoolSlots) /\ FreeSlots \in SUBSET PoolSlots
      BY <2>1, <2>2 DEF PoolInv, FreeSlots
    <3> QED BY <2>2, <3>1, FS_Subset
  <2>4. task = {}
    BY <2>3 DEF FreeSlots, PoolInv
  <2> QED BY <1>1, <2>1, <2>2, <2>4, PoolCapacityAssumption
      DEF PoolInv, FreeSlots, PoolSlots, Pool!NewPool, Pool!PoolSlots
<1> QED BY <1>1, <1>3, <1>4, <1>5, <1>6, <1>7 DEF Pool!Next, Pool!PoolSlots, PoolSlots

(* After any sequence of loans and returns the pool's state bytes, the     *)
(* number and the lowest index of its free slots describe the loans, for   *)
(* every capacity.                                                         *)
THEOREM BooksAlwaysBalance == Spec => []PoolBooksBalance
<1>1. PoolInv => PoolBooksBalance
  BY SameCardinality, PoolCapacityAssumption
  DEF PoolInv, PoolBooksBalance, Pool!BooksBalance, Pool!PoolSlots, PoolSlots, FreeSlots
<1> QED BY <1>1, PoolInitiation, PoolStep, PTL DEF Spec

-----------------------------------------------------------------------------
(***************************************************************************)
(* The cascade.  A controller keeps its integral and its output within the *)
(* limits of a config that was accepted, and its history is the sample.    *)
(***************************************************************************)
IntegerConfig(c) ==
    /\ c.kp \in Int /\ c.ki \in Int /\ c.kd \in Int /\ c.tracking_gain \in Int
    /\ c.output_min \in Int /\ c.output_max \in Int
    /\ c.integral_min \in Int /\ c.integral_max \in Int

Controller(pid) ==
    /\ DOMAIN pid = {"config", "integral", "previous_measurement", "output", "history_valid"}
    /\ IntegerConfig(pid.config) /\ Cascade!ConfigStatus(pid.config) = "OK"
    /\ pid.integral \in {0} \cup pid.config.integral_min .. pid.config.integral_max
    /\ pid.output \in {0} \cup pid.config.output_min .. pid.config.output_max
    /\ pid.previous_measurement \in Int /\ Cascade!Finite(pid.previous_measurement)

CascadeInv ==
    subject = "cascade" =>
        \/ object = [initialized |-> FALSE]
        \/ /\ object = [initialized |-> TRUE, outer |-> object.outer, inner |-> object.inner]
           /\ Controller(object.outer) /\ Controller(object.inner)
           /\ \/ /\ task = << >>
                 /\ object.outer.history_valid = FALSE /\ object.inner.history_valid = FALSE
              \/ /\ task = <<object.outer.previous_measurement,
                             object.inner.previous_measurement>>
                 /\ object.outer.history_valid = TRUE /\ object.inner.history_valid = TRUE

(* What arithmetic of the controller leaves is a number, finite or not.    *)
LEMMA NumbersStay ==
    ASSUME NEW x \in Int, NEW y \in Int
    PROVE  /\ Cascade!Plus(x, y) \in Int /\ Cascade!Times(x, y) \in Int
           /\ y > 0 => Cascade!Quotient(x, y) \in Int
<1>1. FloatLimit \in Nat /\ x + y \in Int /\ x * y \in Int /\ (y > 0 => x \div y \in Int)
  BY PidAssumption
<1> QED BY <1>1 DEF Cascade!Plus, Cascade!Times, Cascade!Quotient, Cascade!Float, Cascade!NotFinite

LEMMA LimitedInside ==
    ASSUME NEW x \in Int, NEW low \in Int, NEW high \in Int, low <= high
    PROVE  Cascade!Limited(x, low, high) \in low .. high /\ Cascade!Limited(x, low, high) \in Int
BY DEF Cascade!Limited

LEMMA RawIsNumber ==
    ASSUME NEW c, IntegerConfig(c), NEW error \in Int, NEW integral \in Int,
           NEW derivative \in Int
    PROVE  Cascade!RawOutput(c, error, integral, derivative) \in Int
BY NumbersStay DEF Cascade!RawOutput, IntegerConfig

LEMMA AcceptedConfig ==
    ASSUME NEW c, IntegerConfig(c), Cascade!ConfigStatus(c) = "OK"
    PROVE  /\ c.integral_min <= c.integral_max /\ c.output_min <= c.output_max
           /\ \A x \in {0} \cup c.integral_min .. c.integral_max : x \in Int /\ Cascade!Finite(x)
           /\ \A x \in {0} \cup c.output_min .. c.output_max : x \in Int /\ Cascade!Finite(x)
<1>1. /\ Cascade!Finite(c.output_min) /\ Cascade!Finite(c.output_max)
      /\ Cascade!Finite(c.integral_min) /\ Cascade!Finite(c.integral_max)
      /\ ~(c.output_min > c.output_max) /\ ~(c.integral_min > c.integral_max)
  BY DEF Cascade!ConfigStatus
<1> QED BY <1>1, PidAssumption DEF IntegerConfig, Cascade!Finite

(* A computation leaves a controller, whether it was finite or not.        *)
LEMMA ComputedController ==
    ASSUME NEW pid, Controller(pid), NEW setpoint \in Int, NEW measurement \in Int,
           Cascade!Finite(measurement), NEW dt \in Int, dt > 0
    PROVE  LET next == Cascade!Computed(pid, setpoint, measurement, dt).pid
           IN  /\ Controller(next) /\ next.previous_measurement = measurement
               /\ next.history_valid = TRUE
<1> DEFINE c == pid.config
           error == Cascade!Plus(setpoint, -measurement)
           derivative == IF pid.history_valid
                         THEN Cascade!Quotient(
                                Cascade!Plus(pid.previous_measurement, -measurement), dt) ELSE 0
           accumulated == Cascade!Plus(pid.integral, Cascade!Times(error, dt))
           candidate == Cascade!Limited(accumulated, c.integral_min, c.integral_max)
           raw == Cascade!RawOutput(c, error, candidate, derivative)
           kept == IF Cascade!Saturating(c, raw, error) THEN pid.integral ELSE candidate
           keptRaw == Cascade!RawOutput(c, error, kept, derivative)
           limited == Cascade!Limited(keptRaw, c.output_min, c.output_max)
           corrected == IF c.anti_windup = "BACK_CALCULATION"
                        THEN Cascade!Plus(kept, Cascade!Times(Cascade!Times(c.tracking_gain,
                                                  Cascade!Plus(limited, -keptRaw)), dt))
                        ELSE kept
           integral == IF c.anti_windup = "BACK_CALCULATION"
                       THEN Cascade!Limited(corrected, c.integral_min, c.integral_max) ELSE kept
           final == Cascade!RawOutput(c, error, integral, derivative)
           output == Cascade!Limited(final, c.output_min, c.output_max)
           next == [pid EXCEPT !.integral = integral, !.previous_measurement = measurement,
                               !.history_valid = TRUE, !.output = output]
<1>1. Cascade!Computed(pid, setpoint, measurement, dt).pid = next
  BY DEF Cascade!Computed
<1>2. /\ IntegerConfig(c) /\ Cascade!ConfigStatus(c) = "OK"
      /\ c.integral_min \in Int /\ c.integral_max \in Int /\ c.integral_min <= c.integral_max
      /\ c.output_min \in Int /\ c.output_max \in Int /\ c.output_min <= c.output_max
      /\ pid.integral \in {0} \cup c.integral_min .. c.integral_max
      /\ pid.integral \in Int /\ c.tracking_gain \in Int /\ pid.previous_measurement \in Int
  BY AcceptedConfig DEF Controller, IntegerConfig
<1>3. error \in Int /\ derivative \in Int /\ accumulated \in Int
  <2> DEFINE minus == -measurement
             change == Cascade!Plus(pid.previous_measurement, minus)
             area == Cascade!Times(error, dt)
  <2>1. minus \in Int
    OBVIOUS
  <2> HIDE DEF minus
  <2>2. error \in Int /\ change \in Int
    BY <1>2, <2>1, NumbersStay DEF minus
  <2> HIDE DEF change, error
  <2>3. derivative \in Int
    BY <2>2, NumbersStay DEF change, minus
  <2>4. area \in Int
    BY <2>2, NumbersStay
  <2> HIDE DEF area, derivative
  <2>5. accumulated \in Int
    BY <1>2, <2>4, NumbersStay DEF area
  <2> QED BY <2>2, <2>3, <2>5
<1> HIDE DEF error, derivative, accumulated
<1>4. candidate \in c.integral_min .. c.integral_max
  BY <1>2, <1>3, LimitedInside
<1> HIDE DEF candidate, raw
<1>5. kept \in {0} \cup c.integral_min .. c.integral_max
  BY <1>2, <1>4
<1> HIDE DEF kept
<1>6. kept \in Int
  BY <1>2, <1>5
<1>7. keptRaw \in Int
  BY <1>2, <1>3, <1>6, RawIsNumber
<1> HIDE DEF keptRaw
<1>8. corrected \in Int
  <2> DEFINE minus == -keptRaw
             excess == Cascade!Plus(limited, minus)
             rate == Cascade!Times(c.tracking_gain, excess)
             back == Cascade!Times(rate, dt)
  <2>1. limited \in Int
    <3> HIDE DEF c
    <3>1. c.output_min \in Int /\ c.output_max \in Int /\ c.output_min <= c.output_max
      BY <1>2
    <3> QED BY <1>7, <3>1, LimitedInside, Zenon
  <2>2. minus \in Int
    BY <1>7
  <2> HIDE DEF limited, minus
  <2>3. excess \in Int
    BY <2>1, <2>2, NumbersStay
  <2> HIDE DEF excess
  <2>4. rate \in Int
    BY <1>2, <2>3, NumbersStay
  <2> HIDE DEF rate
  <2>5. back \in Int
    BY <2>4, NumbersStay
  <2> HIDE DEF back
  <2>6. Cascade!Plus(kept, back) \in Int
    BY <1>6, <2>5, NumbersStay
  <2> QED BY <1>6, <2>6 DEF back, rate, excess, minus
<1> HIDE DEF corrected
<1>9. integral \in {0} \cup c.integral_min .. c.integral_max /\ integral \in Int
  <2>1. Cascade!Limited(corrected, c.integral_min, c.integral_max)
            \in c.integral_min .. c.integral_max
    BY <1>2, <1>8, LimitedInside
  <2> QED BY <1>2, <1>5, <1>6, <2>1
<1> HIDE DEF integral
<1>10. output \in c.output_min .. c.output_max
  <2>1. final \in Int
    BY <1>2, <1>3, <1>9, RawIsNumber
  <2> HIDE DEF final
  <2> QED BY <1>2, <2>1, LimitedInside
<1> HIDE DEF output
<1>11. /\ DOMAIN next = DOMAIN pid /\ next.config = c /\ next.integral = integral
       /\ next.output = output /\ next.previous_measurement = measurement
       /\ next.history_valid = TRUE
  <2> HIDE DEF c
  <2>1. DOMAIN pid = {"config", "integral", "previous_measurement", "output", "history_valid"}
        /\ pid.config = c
    BY DEF Controller, c
  <2> QED BY <2>1
<1> HIDE DEF next
<1> QED BY <1>1, <1>2, <1>9, <1>10, <1>11 DEF Controller

LEMMA CascadeInitiation == Init => CascadeInv
BY DEF Init, InitSubject, CascadeInv, Cascade!Init, Cascade!NotInitialized

LEMMA CascadeStep ==
    ASSUME CascadeInv, [Next]_vars
    PROVE  CascadeInv'
<1> SUFFICES ASSUME subject = "cascade" PROVE CascadeInv'
  BY OneObject DEF CascadeInv
<1>1. subject' = "cascade" /\ (Cascade!Next \/ UNCHANGED <<object, task>>)
  BY OneObject
<1>2. CASE UNCHANGED <<object, task>>
  BY <1>1, <1>2 DEF CascadeInv
<1>3. ASSUME NEW configs \in PidConfigs, Cascade!CascadeInit(configs[1], configs[2])
      PROVE  CascadeInv'
  <2>1. ASSUME NEW c \in {configs[1], configs[2]}
        PROVE  Controller(Cascade!NewPid(c)) /\ Cascade!NewPid(c).history_valid = FALSE
    <3>1. IntegerConfig(c)
      BY PidAssumption DEF IntegerConfig
    <3>2. Cascade!ConfigStatus(c) = "OK"
      BY <1>3 DEF Cascade!CascadeInit
    <3>3. Cascade!Finite(0)
      BY PidAssumption DEF Cascade!Finite
    <3> QED BY <3>1, <3>2, <3>3 DEF Controller, Cascade!NewPid
  <2>2. /\ object' = [initialized |-> TRUE, outer |-> Cascade!NewPid(configs[1]),
                      inner |-> Cascade!NewPid(configs[2])]
        /\ task' = << >>
    BY <1>3 DEF Cascade!CascadeInit
  <2> QED BY <1>1, <2>1, <2>2 DEF CascadeInv
<1>4. ASSUME object.initialized, NEW outer, NEW inner, Controller(outer), Controller(inner),
             outer.history_valid = TRUE, inner.history_valid = TRUE,
             object' = [object EXCEPT !.outer = outer, !.inner = inner],
             task' = <<outer.previous_measurement, inner.previous_measurement>>
      PROVE  CascadeInv'
  <2>1. object = [initialized |-> TRUE, outer |-> object.outer, inner |-> object.inner]
    BY <1>4 DEF CascadeInv
  <2>2. object' = [initialized |-> TRUE, outer |-> outer, inner |-> inner]
    BY <1>4, <2>1
  <2> QED BY <1>1, <1>4, <2>2 DEF CascadeInv
<1>5. object.initialized => Controller(object.outer) /\ Controller(object.inner)
  BY DEF CascadeInv
<1>6. ASSUME NEW outer \in Readings, NEW inner \in Readings, Cascade!CascadeReset(outer, inner)
      PROVE  CascadeInv'
  <2> DEFINE outerPid == Cascade!ResetPid(object.outer, outer)
             innerPid == Cascade!ResetPid(object.inner, inner)
             sound == /\ Cascade!Usable(object.outer) /\ Cascade!Finite(outer)
                      /\ Cascade!Usable(object.inner) /\ Cascade!Finite(inner)
  <2>1. CASE sound
    <3>1. ASSUME NEW pid, Controller(pid), NEW x \in Readings, Cascade!Finite(x)
          PROVE  LET next == Cascade!ResetPid(pid, x)
                 IN  /\ Controller(next) /\ next.history_valid = TRUE
                     /\ next.previous_measurement = x
      <4> DEFINE next == Cascade!ResetPid(pid, x)
      <4>1. /\ DOMAIN next = DOMAIN pid /\ next.config = pid.config /\ next.integral = 0
            /\ next.output = 0 /\ next.previous_measurement = x /\ next.history_valid = TRUE
        BY <3>1 DEF Controller, Cascade!ResetPid
      <4> HIDE DEF next
      <4>2. x \in Int
        BY PidAssumption
      <4>3. Controller(next)
        BY <3>1, <4>1, <4>2 DEF Controller
      <4> QED BY <4>1, <4>3 DEF next
    <3>2. /\ object' = [object EXCEPT !.outer = outerPid, !.inner = innerPid]
          /\ task' = <<outer, inner>> /\ object.initialized
      BY <1>6, <2>1 DEF Cascade!CascadeReset, Cascade!Committed
    <3>3. /\ Controller(outerPid) /\ outerPid.history_valid = TRUE
          /\ outerPid.previous_measurement = outer
          /\ Controller(innerPid) /\ innerPid.history_valid = TRUE
          /\ innerPid.previous_measurement = inner
      BY <1>5, <2>1, <3>1, <3>2
    <3> HIDE DEF outerPid, innerPid
    <3> QED BY <1>4, <3>2, <3>3
  <2>2. CASE ~sound
    <3>1. UNCHANGED <<object, task>>
      BY <1>6, <2>2 DEF Cascade!CascadeReset, Cascade!Committed
    <3> QED BY <1>2, <3>1
  <2> QED BY <2>1, <2>2
<1>7. ASSUME NEW setpoint \in Readings, NEW outer \in Readings, NEW inner \in Readings,
             NEW dt \in TimeSteps, Cascade!Calculate(setpoint, outer, inner, dt)
      PROVE  CascadeInv'
  <2> DEFINE outerPid == Cascade!Computed(object.outer, setpoint, outer, dt).pid
             status == Cascade!CalculateStatus(object.inner, outerPid.output, inner, dt)
             innerPid == Cascade!Computed(object.inner, outerPid.output, inner, dt).pid
  <2>1. CASE status = "OK"
    <3>1. /\ object' = [object EXCEPT !.outer = outerPid, !.inner = innerPid]
          /\ task' = <<outer, inner>> /\ object.initialized
      BY <1>7, <2>1 DEF Cascade!Calculate, Cascade!Committed
    <3>2. setpoint \in Int /\ outer \in Int /\ inner \in Int /\ dt \in Int
      BY PidAssumption
    <3>3. Cascade!InputSound(setpoint, outer, dt)
      BY <1>7 DEF Cascade!Calculate, Cascade!CalculateStatus
    <3>4. /\ Controller(outerPid) /\ outerPid.history_valid = TRUE
          /\ outerPid.previous_measurement = outer
      <4> DEFINE pid == object.outer
      <4>1. Controller(pid) /\ Cascade!Finite(outer) /\ dt > 0
        BY <1>5, <3>1, <3>3 DEF Cascade!InputSound
      <4> HIDE DEF pid
      <4>2. LET next == Cascade!Computed(pid, setpoint, outer, dt).pid
            IN  /\ Controller(next) /\ next.previous_measurement = outer
                /\ next.history_valid = TRUE
        BY <3>2, <4>1, ComputedController
      <4> QED BY <4>2 DEF pid
    <3>5. Cascade!InputSound(outerPid.output, inner, dt)
      BY <2>1 DEF Cascade!CalculateStatus
    <3>6. outerPid.output \in Int
      <4> HIDE DEF outerPid
      <4> QED BY <3>4, AcceptedConfig DEF Controller
    <3> HIDE DEF outerPid
    <3>7. /\ Controller(innerPid) /\ innerPid.history_valid = TRUE
          /\ innerPid.previous_measurement = inner
      <4> DEFINE pid == object.inner
                 target == outerPid.output
      <4>1. Controller(pid) /\ Cascade!Finite(inner) /\ dt > 0 /\ target \in Int
        BY <1>5, <3>1, <3>5, <3>6 DEF Cascade!InputSound
      <4> HIDE DEF pid, target
      <4>2. LET next == Cascade!Computed(pid, target, inner, dt).pid
            IN  /\ Controller(next) /\ next.previous_measurement = inner
                /\ next.history_valid = TRUE
        BY <3>2, <4>1, ComputedController
      <4> QED BY <4>2 DEF pid, target
    <3> HIDE DEF innerPid
    <3> QED BY <1>4, <3>1, <3>4, <3>7
  <2>2. CASE status # "OK"
    <3>1. UNCHANGED <<object, task>>
      BY <1>7, <2>2 DEF Cascade!Calculate, Cascade!Committed
    <3> QED BY <1>2, <3>1
  <2> QED BY <2>1, <2>2
<1> QED BY <1>1, <1>2, <1>3, <1>6, <1>7 DEF Cascade!Next, Cascade!CalculateFailsOuter

(* Whatever is fed to a cascade, and wherever its computation fails, both  *)
(* controllers have the history of the same sample and stay usable, within *)
(* the limits of their configurations; for every range of numbers.         *)
THEOREM ControllersStayInStep == Spec => []ControllersInStep
<1>1. CascadeInv => ControllersInStep
  <2> SUFFICES ASSUME CascadeInv, subject = "cascade", object.initialized
               PROVE  Cascade!ControllersInStep
    BY DEF ControllersInStep, Cascade!ControllersInStep
  <2>1. Controller(object.outer) /\ Controller(object.inner)
    BY DEF CascadeInv
  <2>2. \A pid \in {object.outer, object.inner} :
            /\ Cascade!Usable(pid)
            /\ pid.integral \in {0} \cup pid.config.integral_min .. pid.config.integral_max
            /\ pid.output \in {0} \cup pid.config.output_min .. pid.config.output_max
    <3> TAKE pid \in {object.outer, object.inner}
    <3>1. Controller(pid)
      BY <2>1
    <3> QED BY <3>1, AcceptedConfig DEF Controller, Cascade!Usable
  <2>3. /\ object.outer.history_valid = (task # << >>)
        /\ object.inner.history_valid = (task # << >>)
        /\ task # << >> => task = <<object.outer.previous_measurement,
                                    object.inner.previous_measurement>>
    <3>2. <<object.outer.previous_measurement, object.inner.previous_measurement>> # << >>
      OBVIOUS
    <3>3. \/ /\ task = << >>
             /\ object.outer.history_valid = FALSE /\ object.inner.history_valid = FALSE
          \/ /\ task = <<object.outer.previous_measurement, object.inner.previous_measurement>>
             /\ object.outer.history_valid = TRUE /\ object.inner.history_valid = TRUE
      BY DEF CascadeInv
    <3> QED BY <3>2, <3>3, Zenon
  <2> QED BY <2>2, <2>3 DEF Cascade!ControllersInStep
<1> QED BY <1>1, CascadeInitiation, CascadeStep, PTL DEF Spec

-----------------------------------------------------------------------------
(***************************************************************************)
(* What becomes of the calls at queue_port, mutex_port, event_group and    *)
(* count_notification.  A step of any of them either stores the lifecycle  *)
(* state or moves each call in one of a few ways, which Move lists; the    *)
(* properties follow from that.                                            *)
(***************************************************************************)
IsCall(c) ==
    c = [pc |-> c.pc, op |-> c.op, blocking |-> c.blocking, waiter |-> c.waiter,
         status |-> c.status, stop |-> c.stop]

(* Where a call that was woken has not yet looked at the state again.      *)
Waking == {"asleep", "check", "loop", "recheck"}

(* strict: a call looks at the state each time that it wakes up, which the *)
(* calls of the mutex do not.                                              *)
Sound(c, stopped, strict) ==
    /\ IsCall(c)
    /\ c.blocking \in BOOLEAN
    /\ c.waiter = "WAITING" <=> c.blocking
    /\ c.waiter = "IDLE" => c.stop = "none"
    /\ c.blocking => c.pc # "idle"
    /\ c.blocking /\ stopped => c.stop # "none"
    /\ c.status = "CANCELLED" => c.stop # "none"
    /\ strict /\ c.stop = "asleep" =>
          /\ stopped
          /\ \/ c.blocking /\ c.pc \in Waking
             \/ c.pc = "idle" /\ c.status # "OK"

MustLook(c, stopped, strict) == strict /\ stopped /\ c.pc \in Waking

BegunWhen(c, op, blocking, stopped) ==
    [c EXCEPT !.pc = "check", !.op = op, !.blocking = blocking,
              !.waiter = IF blocking THEN "WAITING" ELSE @,
              !.stop = IF blocking /\ stopped THEN "during" ELSE @]

Advances(c, d, stopped, strict) ==
    \E pc, op : /\ pc # "idle"
                /\ MustLook(c, stopped, strict) => pc \in Waking
                /\ d = [c EXCEPT !.pc = pc, !.op = op]

Ends(c, d, stopped, strict) ==
    \E status : /\ status = "CANCELLED" => stopped
                /\ MustLook(c, stopped, strict) => status # "OK"
                /\ d = Returned(c, status)

Move(c, d, stopped, strict) ==
    \/ d = c \/ d = NoCall
    \/ /\ c.pc = "idle" /\ c.waiter = "IDLE"
       /\ \E op : \E blocking \in BOOLEAN : d = BegunWhen(c, op, blocking, stopped)
    \/ c.pc # "idle" /\ Advances(c, d, stopped, strict)
    \/ c.pc # "idle" /\ Ends(c, d, stopped, strict)

-----------------------------------------------------------------------------
LEMMA MoveKeepsSound ==
    ASSUME NEW c, NEW d, NEW stopped \in BOOLEAN, NEW strict \in BOOLEAN,
           Sound(c, stopped, strict), Move(c, d, stopped, strict)
    PROVE  Sound(d, stopped, strict)
<1>1. CASE d = c
  BY <1>1
<1>2. CASE d = NoCall
  BY <1>2 DEF NoCall, Sound, IsCall
<1>3. ASSUME c.pc = "idle", c.waiter = "IDLE", NEW op, NEW blocking \in BOOLEAN,
             d = BegunWhen(c, op, blocking, stopped)
      PROVE  Sound(d, stopped, strict)
  <2>1. d = [pc |-> "check", op |-> op, blocking |-> blocking,
             waiter |-> IF blocking THEN "WAITING" ELSE c.waiter, status |-> c.status,
             stop |-> IF blocking /\ stopped THEN "during" ELSE c.stop]
    BY <1>3 DEF BegunWhen, Sound, IsCall
  <2> QED BY <1>3, <2>1 DEF Sound, IsCall
<1>4. ASSUME c.pc # "idle", NEW pc, NEW op, pc # "idle",
             MustLook(c, stopped, strict) => pc \in Waking,
             d = [c EXCEPT !.pc = pc, !.op = op]
      PROVE  Sound(d, stopped, strict)
  <2>1. d = [pc |-> pc, op |-> op, blocking |-> c.blocking, waiter |-> c.waiter,
             status |-> c.status, stop |-> c.stop]
    BY <1>4 DEF Sound, IsCall
  <2> QED BY <1>4, <2>1 DEF Sound, IsCall, MustLook
<1>5. ASSUME c.pc # "idle", NEW status, status = "CANCELLED" => stopped,
             MustLook(c, stopped, strict) => status # "OK",
             d = Returned(c, status)
      PROVE  Sound(d, stopped, strict)
  <2>1. d = [pc |-> "idle", op |-> None, blocking |-> FALSE,
             waiter |-> WaiterComplete(c.waiter, status),
             status |-> IF c.blocking THEN status ELSE c.status, stop |-> c.stop]
    BY <1>5 DEF Sound, IsCall, Returned
  <2>2. /\ d.waiter # "WAITING"
        /\ d.waiter = "IDLE" => c.waiter = "IDLE"
    BY <2>1 DEF WaiterComplete
  <2> QED BY <1>5, <2>1, <2>2 DEF Sound, IsCall, MustLook
<1> QED BY <1>1, <1>2, <1>3, <1>4, <1>5 DEF Move, Advances, Ends

-----------------------------------------------------------------------------
Stopped == port.state = "STOPPED"
Strict == subject # "mutex"

CallsSound ==
    /\ port = [state |-> port.state, controller |-> port.controller]
    /\ task = [t \in Task |-> task[t]]
    /\ \A t \in Task : Sound(task[t], Stopped, Strict)

Moves ==
    /\ port' = [state |-> port.state, controller |-> port'.controller]
    /\ task' = [t \in Task |-> task'[t]]
    /\ \A t \in Task : Move(task[t], task'[t], Stopped, Strict)

LEMMA MovesKeepSound ==
    ASSUME CallsSound, Moves, subject' = subject
    PROVE  CallsSound'
<1>1. port' = [state |-> port'.state, controller |-> port'.controller] /\ Stopped' = Stopped
  BY DEF Moves, Stopped
<1>2. Strict' = Strict /\ Strict \in BOOLEAN /\ Stopped \in BOOLEAN
  BY DEF Strict, Stopped
<1>3. ASSUME NEW t \in Task PROVE Sound(task'[t], Stopped, Strict)
  BY <1>2, MoveKeepsSound DEF CallsSound, Moves
<1> QED BY <1>1, <1>2, <1>3 DEF CallsSound, Moves

LEMMA NobodyMoves ==
    ASSUME CallsSound, UNCHANGED task,
           port' = [state |-> port.state, controller |-> port'.controller]
    PROVE  Moves
BY DEF CallsSound, Moves, Move

LEMMA OneMoves ==
    ASSUME CallsSound, NEW t \in Task, NEW d, task' = [task EXCEPT ![t] = d], UNCHANGED port,
           Move(task[t], d, Stopped, Strict)
    PROVE  Moves
<1>1. \A u \in Task : task'[u] = IF u = t THEN d ELSE task[u]
  BY DEF CallsSound
<1>2. task' = [u \in Task |-> task'[u]]
  BY DEF CallsSound
<1> QED BY <1>1, <1>2 DEF Moves, Move, CallsSound

LEMMA OneAdvances ==
    ASSUME CallsSound, NEW t \in Task, ~At(t, "idle"), NEW pc, pc # "idle",
           MustLook(task[t], Stopped, Strict) => pc \in Waking,
           task' = [task EXCEPT ![t].pc = pc], UNCHANGED port
    PROVE  Moves
<1> DEFINE d == [task[t] EXCEPT !.pc = pc, !.op = task[t].op]
<1>1. d = [task[t] EXCEPT !.pc = pc]
  BY DEF CallsSound, Sound, IsCall
<1>2. task' = [task EXCEPT ![t] = d]
  BY <1>1
<1>3. Advances(task[t], d, Stopped, Strict)
  BY DEF Advances, At
<1> QED BY <1>2, <1>3, OneMoves DEF Move, At

LEMMA OneEnds ==
    ASSUME CallsSound, NEW t \in Task, ~At(t, "idle"), NEW status, status = "CANCELLED" => Stopped,
           MustLook(task[t], Stopped, Strict) => status # "OK",
           Return(t, status), UNCHANGED port
    PROVE  Moves
<1> DEFINE d == Returned(task[t], status)
<1>1. task' = [task EXCEPT ![t] = d]
  BY DEF Return
<1>2. Ends(task[t], d, Stopped, Strict)
  BY DEF Ends, At
<1> HIDE DEF d
<1> QED BY <1>1, <1>2, OneMoves DEF Move, At

LEMMA WokenMoves ==
    ASSUME CallsSound, NEW woken \in SUBSET Asleep, NEW head, head # "idle",
           Strict => head \in Waking
    PROVE  \A t \in Task : Move(task[t], Woken(task, woken, head)[t], Stopped, Strict)
<1> SUFFICES ASSUME NEW t \in Task
             PROVE  Move(task[t], Woken(task, woken, head)[t], Stopped, Strict)
  OBVIOUS
<1>1. CASE t \notin woken
  BY <1>1 DEF Woken, Move
<1>2. CASE t \in woken
  <2> DEFINE d == [task[t] EXCEPT !.pc = head, !.op = task[t].op]
  <2>1. Woken(task, woken, head)[t] = d
    <3>1. d = [task[t] EXCEPT !.pc = head]
      BY DEF CallsSound, Sound, IsCall
    <3> QED BY <1>2, <3>1 DEF Woken
  <2>2. task[t].pc = "asleep"
    BY <1>2 DEF Asleep, At
  <2>3. Advances(task[t], d, Stopped, Strict)
    BY DEF Advances, MustLook
  <2> QED BY <2>1, <2>2, <2>3 DEF Move
<1> QED BY <1>1, <1>2

-----------------------------------------------------------------------------
(* What the objects have in common *)
LEMMA BeginMoves ==
    ASSUME CallsSound, NEW t \in Task, NEW op, NEW blocking \in BOOLEAN, Begin(t, op, blocking)
    PROVE  Moves
<1>1. task' = [task EXCEPT ![t] = BegunWhen(task[t], op, blocking, Stopped)]
  BY DEF Begin, Begun, BegunWhen, InState, Stopped
<1>2. task[t].pc = "idle" /\ task[t].waiter = "IDLE" /\ UNCHANGED port
  BY DEF Begin, At
<1> QED BY <1>1, <1>2, OneMoves DEF Move

LEMMA CheckMoves ==
    ASSUME CallsSound, NEW t \in Task, CheckReady(t) \/ CheckRefused(t)
    PROVE  Moves
<1>1. CASE CheckReady(t)
  <2>1. ~MustLook(task[t], Stopped, Strict)
    BY <1>1 DEF CheckReady, InState, Stopped, MustLook
  <2>2. task' = [task EXCEPT ![t].pc = "body"] /\ UNCHANGED port /\ ~At(t, "idle")
    BY <1>1 DEF CheckReady, Goto, At
  <2> QED BY <2>1, <2>2, OneAdvances
<1>2. CASE CheckRefused(t) /\ task[t].blocking
  BY <1>2, OneAdvances DEF CheckRefused, At, Goto, Waking
<1>3. CASE CheckRefused(t) /\ ~task[t].blocking
  BY <1>3, OneEnds DEF CheckRefused, At
<1> QED BY <1>1, <1>2, <1>3

LEMMA CommonMoves ==
    ASSUME CallsSound, NEW t \in Task, NEW head, head # "idle", Strict => head \in Waking,
           CommonStep(t, head)
    PROVE  Moves
<1>1. CASE WaiterReset(t)
  BY <1>1, OneMoves DEF WaiterReset, Move
<1>2. CASE Recheck(t)
  <2> DEFINE status == IF InState("STOPPED") THEN "CANCELLED" ELSE "INVALID_STATE"
  <2>1. /\ ~At(t, "idle") /\ Return(t, status) /\ UNCHANGED port
        /\ status = "CANCELLED" => Stopped
        /\ status # "OK"
    BY <1>2 DEF Recheck, At, InState, Stopped
  <2> HIDE DEF status
  <2> QED BY <2>1, OneEnds
<1>3. CASE Sleep(t)
  BY <1>3, OneAdvances DEF Sleep, At, Goto, Waking
<1>4. CASE Timeout(t)
  BY <1>4, OneEnds DEF Timeout, At
<1>5. CASE WakeUp(t, head)
  BY <1>5, OneAdvances DEF WakeUp, At, Goto, MustLook
<1> QED BY <1>1, <1>2, <1>3, <1>4, <1>5 DEF CommonStep

LEMMA SignalMoves ==
    ASSUME CallsSound, NEW t \in Task, NEW head, head # "idle", Strict => head \in Waking,
           SignalOne(t, head) \/ SignalAll(t, head)
    PROVE  Moves
<1> DEFINE d == Returned(task[t], "OK")
<1>1. PICK woken \in SUBSET Asleep :
          task' = [Woken(task, woken, head) EXCEPT ![t] = Returned(@, "OK")]
  BY DEF SignalOne, SignalAll
<1>2. task[t].pc = "signal" /\ t \notin woken /\ UNCHANGED port
  BY DEF SignalOne, SignalAll, At, Asleep
<1>3. Woken(task, woken, head)[t] = task[t]
  BY <1>2 DEF Woken
<1>4. /\ task' = [u \in Task |-> task'[u]]
      /\ \A u \in Task : task'[u] = IF u = t THEN d ELSE Woken(task, woken, head)[u]
  BY <1>1, <1>3 DEF Woken
<1>5. Move(task[t], d, Stopped, Strict)
  <2>1. Ends(task[t], d, Stopped, Strict)
    BY <1>2 DEF Ends, MustLook, Waking
  <2> QED BY <1>2, <2>1 DEF Move
<1>6. \A u \in Task : Move(task[u], Woken(task, woken, head)[u], Stopped, Strict)
  BY WokenMoves
<1> HIDE DEF d
<1> QED BY <1>2, <1>4, <1>5, <1>6 DEF Moves, CallsSound

(* A try of any object: it fails for now, fails for good, or succeeds.     *)
LEMMA BodyMoves ==
    ASSUME CallsSound, NEW t \in Task, task[t].pc = "body", UNCHANGED port, NEW status,
           status # "CANCELLED",
           NotNow(t, status) \/ Goto(t, "signal") \/ Goto(t, "wait") \/ Return(t, status)
    PROVE  Moves
<1>1. ~At(t, "idle") /\ ~MustLook(task[t], Stopped, Strict)
  BY DEF At, MustLook, Waking
<1>2. CASE Goto(t, "signal") \/ Goto(t, "wait")
  BY <1>1, <1>2, OneAdvances DEF Goto
<1>3. CASE Return(t, status)
  BY <1>1, <1>3, OneEnds
<1> QED BY <1>2, <1>3 DEF NotNow

LEMMA LifecycleMoves ==
    ASSUME CallsSound, NEW states, NEW stores, LifecycleCall(states, stores)
    PROVE  Moves
<1>1. port' = [state |-> port.state, controller |-> stores] /\ UNCHANGED task
  BY DEF LifecycleCall, CallsSound
<1> QED BY <1>1, NobodyMoves

LEMMA StoreMoves ==
    ASSUME CallsSound, NEW field, Stored(field), UNCHANGED task
    PROVE  Moves
<1>1. port' = [state |-> port.state, controller |-> Tail(port.controller)]
  BY DEF Stored, CallsSound
<1> QED BY <1>1, NobodyMoves

LEMMA CancelMoves ==
    ASSUME CallsSound, NEW head, head # "idle", Strict => head \in Waking, CancelAll(head)
    PROVE  Moves
<1>1. port' = [state |-> port.state, controller |-> Tail(port.controller)]
  BY DEF CancelAll, Stored, CallsSound
<1>2. task' = Woken(task, Asleep, head)
  BY DEF CancelAll
<1>3. task' = [t \in Task |-> task'[t]]
  BY <1>2 DEF Woken
<1> QED BY <1>1, <1>2, <1>3, WokenMoves DEF Moves

(* The store of the state marks the calls that it finds.                   *)
LEMMA StateStoreKeepsSound ==
    ASSUME CallsSound, StateStore, subject' = subject
    PROVE  CallsSound'
<1> DEFINE state == NextStore
<1>1. port' = [state |-> state, controller |-> port'.controller] /\ port'.state = state
  BY DEF StateStore
<1>2. Strict' = Strict /\ Stopped' = (state = "STOPPED")
  BY <1>1 DEF Strict, Stopped
<1>3. task' = [t \in Task |-> Noted(task[t], t, state)]
  BY DEF StateStore
<1> HIDE DEF state
<1>4. ASSUME NEW t \in Task
      PROVE  Sound(Noted(task[t], t, state), state = "STOPPED", Strict)
  <2> DEFINE c == task[t]
             d == Noted(c, t, state)
  <2>1. Sound(c, Stopped, Strict)
    BY DEF CallsSound
  <2>2. PICK stop : /\ d = [pc |-> c.pc, op |-> c.op, blocking |-> c.blocking,
                            waiter |-> c.waiter, status |-> c.status, stop |-> stop]
                    /\ stop = IF state = "STOPPED"
                              THEN IF ~c.blocking THEN c.stop
                                   ELSE IF c.pc = "asleep" THEN "asleep" ELSE "during"
                              ELSE IF c.stop = "asleep" THEN "during" ELSE c.stop
    BY <2>1 DEF Noted, Sound, IsCall, At
  <2> HIDE DEF c, d
  <2>3. Sound(d, state = "STOPPED", Strict)
    BY <2>1, <2>2 DEF Sound, IsCall, Waking
  <2> QED BY <2>3 DEF c, d
<1> QED BY <1>1, <1>2, <1>3, <1>4 DEF CallsSound

-----------------------------------------------------------------------------
(* The operators of an instance mean what they mean here. *)
LEMMA QueueShares ==
    ASSUME NEW t, NEW a, NEW b, NEW c
    PROVE  /\ Queue!Begin(t, a, b) <=> Begin(t, a, b)
           /\ Queue!CheckReady(t) <=> CheckReady(t)
           /\ Queue!CheckRefused(t) <=> CheckRefused(t)
           /\ Queue!CommonStep(t, a) <=> CommonStep(t, a)
           /\ Queue!SignalOne(t, a) <=> SignalOne(t, a)
           /\ Queue!SignalAll(t, a) <=> SignalAll(t, a)
           /\ Queue!Return(t, a) <=> Return(t, a)
           /\ Queue!Goto(t, a) <=> Goto(t, a)
           /\ Queue!NotNow(t, a) <=> NotNow(t, a)
           /\ Queue!LifecycleCall(a, b) <=> LifecycleCall(a, b)
           /\ Queue!Stored(a) <=> Stored(a)
           /\ Queue!StateStore <=> StateStore
           /\ Queue!CancelAll(a) <=> CancelAll(a)
           /\ Queue!At(t, a) <=> At(t, a)
           /\ Queue!InState(a) <=> InState(a)
BY DEF
    At, Asleep, InState, NextStore, NoCall, WaiterComplete, Returned,
    Return, Goto, Begun, Begin, WaiterReset, CheckReady, CheckRefused,
    Recheck, NotNow, Woken, Sleep, Timeout, WakeUp, SignalOne,
    SignalAll, LifecycleCall, Stored, Noted, StateStore, CancelAll,
    CommonStep, Queue!At, Queue!Asleep, Queue!InState, Queue!NextStore,
    Queue!NoCall, Queue!WaiterComplete, Queue!Returned, Queue!Return,
    Queue!Goto, Queue!Begun, Queue!Begin, Queue!WaiterReset,
    Queue!CheckReady, Queue!CheckRefused, Queue!Recheck, Queue!NotNow,
    Queue!Woken, Queue!Sleep, Queue!Timeout, Queue!WakeUp,
    Queue!SignalOne, Queue!SignalAll, Queue!LifecycleCall, Queue!Stored,
    Queue!Noted, Queue!StateStore, Queue!CancelAll, Queue!CommonStep

LEMMA MutexShares ==
    ASSUME NEW t, NEW a, NEW b, NEW c
    PROVE  /\ Mutex!Begin(t, a, b) <=> Begin(t, a, b)
           /\ Mutex!CheckReady(t) <=> CheckReady(t)
           /\ Mutex!CheckRefused(t) <=> CheckRefused(t)
           /\ Mutex!CommonStep(t, a) <=> CommonStep(t, a)
           /\ Mutex!SignalOne(t, a) <=> SignalOne(t, a)
           /\ Mutex!SignalAll(t, a) <=> SignalAll(t, a)
           /\ Mutex!Return(t, a) <=> Return(t, a)
           /\ Mutex!Goto(t, a) <=> Goto(t, a)
           /\ Mutex!NotNow(t, a) <=> NotNow(t, a)
           /\ Mutex!LifecycleCall(a, b) <=> LifecycleCall(a, b)
           /\ Mutex!Stored(a) <=> Stored(a)
           /\ Mutex!StateStore <=> StateStore
           /\ Mutex!CancelAll(a) <=> CancelAll(a)
           /\ Mutex!At(t, a) <=> At(t, a)
           /\ Mutex!InState(a) <=> InState(a)
BY DEF
    At, Asleep, InState, NextStore, NoCall, WaiterComplete, Returned,
    Return, Goto, Begun, Begin, WaiterReset, CheckReady, CheckRefused,
    Recheck, NotNow, Woken, Sleep, Timeout, WakeUp, SignalOne,
    SignalAll, LifecycleCall, Stored, Noted, StateStore, CancelAll,
    CommonStep, Mutex!At, Mutex!Asleep, Mutex!InState, Mutex!NextStore,
    Mutex!NoCall, Mutex!WaiterComplete, Mutex!Returned, Mutex!Return,
    Mutex!Goto, Mutex!Begun, Mutex!Begin, Mutex!WaiterReset,
    Mutex!CheckReady, Mutex!CheckRefused, Mutex!Recheck, Mutex!NotNow,
    Mutex!Woken, Mutex!Sleep, Mutex!Timeout, Mutex!WakeUp,
    Mutex!SignalOne, Mutex!SignalAll, Mutex!LifecycleCall, Mutex!Stored,
    Mutex!Noted, Mutex!StateStore, Mutex!CancelAll, Mutex!CommonStep

LEMMA EventShares ==
    ASSUME NEW t, NEW a, NEW b, NEW c
    PROVE  /\ Event!Begin(t, a, b) <=> Begin(t, a, b)
           /\ Event!CheckReady(t) <=> CheckReady(t)
           /\ Event!CheckRefused(t) <=> CheckRefused(t)
           /\ Event!CommonStep(t, a) <=> CommonStep(t, a)
           /\ Event!SignalOne(t, a) <=> SignalOne(t, a)
           /\ Event!SignalAll(t, a) <=> SignalAll(t, a)
           /\ Event!Return(t, a) <=> Return(t, a)
           /\ Event!Goto(t, a) <=> Goto(t, a)
           /\ Event!NotNow(t, a) <=> NotNow(t, a)
           /\ Event!LifecycleCall(a, b) <=> LifecycleCall(a, b)
           /\ Event!Stored(a) <=> Stored(a)
           /\ Event!StateStore <=> StateStore
           /\ Event!CancelAll(a) <=> CancelAll(a)
           /\ Event!At(t, a) <=> At(t, a)
           /\ Event!InState(a) <=> InState(a)
BY DEF
    At, Asleep, InState, NextStore, NoCall, WaiterComplete, Returned,
    Return, Goto, Begun, Begin, WaiterReset, CheckReady, CheckRefused,
    Recheck, NotNow, Woken, Sleep, Timeout, WakeUp, SignalOne,
    SignalAll, LifecycleCall, Stored, Noted, StateStore, CancelAll,
    CommonStep, Event!At, Event!Asleep, Event!InState, Event!NextStore,
    Event!NoCall, Event!WaiterComplete, Event!Returned, Event!Return,
    Event!Goto, Event!Begun, Event!Begin, Event!WaiterReset,
    Event!CheckReady, Event!CheckRefused, Event!Recheck, Event!NotNow,
    Event!Woken, Event!Sleep, Event!Timeout, Event!WakeUp,
    Event!SignalOne, Event!SignalAll, Event!LifecycleCall, Event!Stored,
    Event!Noted, Event!StateStore, Event!CancelAll, Event!CommonStep

LEMMA CountShares ==
    ASSUME NEW t, NEW a, NEW b, NEW c
    PROVE  /\ Count!Begin(t, a, b) <=> Begin(t, a, b)
           /\ Count!CheckReady(t) <=> CheckReady(t)
           /\ Count!CheckRefused(t) <=> CheckRefused(t)
           /\ Count!CommonStep(t, a) <=> CommonStep(t, a)
           /\ Count!SignalOne(t, a) <=> SignalOne(t, a)
           /\ Count!SignalAll(t, a) <=> SignalAll(t, a)
           /\ Count!Return(t, a) <=> Return(t, a)
           /\ Count!Goto(t, a) <=> Goto(t, a)
           /\ Count!NotNow(t, a) <=> NotNow(t, a)
           /\ Count!LifecycleCall(a, b) <=> LifecycleCall(a, b)
           /\ Count!Stored(a) <=> Stored(a)
           /\ Count!StateStore <=> StateStore
           /\ Count!CancelAll(a) <=> CancelAll(a)
           /\ Count!At(t, a) <=> At(t, a)
           /\ Count!InState(a) <=> InState(a)
BY DEF
    At, Asleep, InState, NextStore, NoCall, WaiterComplete, Returned,
    Return, Goto, Begun, Begin, WaiterReset, CheckReady, CheckRefused,
    Recheck, NotNow, Woken, Sleep, Timeout, WakeUp, SignalOne,
    SignalAll, LifecycleCall, Stored, Noted, StateStore, CancelAll,
    CommonStep, Count!At, Count!Asleep, Count!InState, Count!NextStore,
    Count!NoCall, Count!WaiterComplete, Count!Returned, Count!Return,
    Count!Goto, Count!Begun, Count!Begin, Count!WaiterReset,
    Count!CheckReady, Count!CheckRefused, Count!Recheck, Count!NotNow,
    Count!Woken, Count!Sleep, Count!Timeout, Count!WakeUp,
    Count!SignalOne, Count!SignalAll, Count!LifecycleCall, Count!Stored,
    Count!Noted, Count!StateStore, Count!CancelAll, Count!CommonStep

-----------------------------------------------------------------------------
(* The steps of each kind of object *)
LEMMA QueueMoves ==
    ASSUME CallsSound, subject = "queue", Queue!Next
    PROVE  Moves \/ StateStore
<1> USE QueueShares
<1>1. Strict /\ "check" \in Waking /\ "check" # "idle"
  BY DEF Strict, Waking
<1>2. ASSUME NEW t \in Task, Queue!Call(t) PROVE Moves
  BY <1>2, BeginMoves DEF Queue!Call, Queue!CallPush, Queue!CallPop
<1>3. ASSUME NEW t \in Task, Queue!TryCheck(t) PROVE Moves
  BY <1>3, CheckMoves DEF Queue!TryCheck
<1>4. ASSUME NEW t \in Task, Queue!SignalOne(t, "check") \/ Queue!CommonStep(t, "check")
      PROVE  Moves
  BY <1>1, <1>4, SignalMoves, CommonMoves
<1>5. ASSUME NEW t \in Task, Queue!Push(t) PROVE Moves
  <2>1. task[t].pc = "body" /\ UNCHANGED port
        /\ (NotNow(t, "FULL") \/ Goto(t, "signal"))
    BY <1>5 DEF Queue!Push, At
  <2> QED BY <2>1, BodyMoves
<1>6. ASSUME NEW t \in Task, Queue!Pop(t) PROVE Moves
  <2>1. CASE NotNow(t, "EMPTY")
    BY <1>6, <2>1, BodyMoves DEF Queue!Pop, At
  <2>2. CASE ~NotNow(t, "EMPTY")
    <3> DEFINE value == IF Queue!StoringSize THEN None ELSE object.ring[object.head]
               op == [task[t].op EXCEPT !.value = value]
               d == [task[t] EXCEPT !.pc = "signal", !.op = op]
    <3>1. task' = [task EXCEPT ![t] = d]
      <4>1. task' = [task EXCEPT ![t].pc = "signal", ![t].op.value = value]
        BY <1>6, <2>2, Zenon DEF Queue!Pop
      <4> HIDE DEF value
      <4>2. task = [u \in Task |-> task[u]] /\ IsCall(task[t])
        BY DEF CallsSound, Sound
      <4>3. task'[t] = d
        BY <4>1, <4>2 DEF IsCall
      <4>4. \A u \in Task \ {t} : task'[u] = task[u]
        BY <4>1, <4>2
      <4>5. task' = [u \in Task |-> task'[u]]
        BY <4>1, <4>2
      <4> HIDE DEF d
      <4> QED BY <4>2, <4>3, <4>4, <4>5
    <3>2. task[t].pc = "body" /\ UNCHANGED port
      BY <1>6 DEF Queue!Pop, At
    <3>3. Advances(task[t], d, Stopped, Strict)
      BY <3>2 DEF Advances, MustLook, Waking
    <3> HIDE DEF d
    <3> QED BY <3>1, <3>2, <3>3, OneMoves DEF Move
  <2> QED BY <2>1, <2>2
<1>7. CASE Queue!HeadStore \/ Queue!SizeStore
  BY <1>7, StoreMoves DEF Queue!HeadStore, Queue!SizeStore
<1>8. CASE Queue!Lifecycle /\ ~Queue!HeadStore /\ ~Queue!SizeStore
  BY <1>1, <1>8, LifecycleMoves, CancelMoves
  DEF Queue!Lifecycle, Queue!PortInit, Queue!Start, Queue!Stop, Queue!Reset, Queue!Deinit
<1> QED BY <1>2, <1>3, <1>4, <1>5, <1>6, <1>7, <1>8 DEF Queue!Next, Queue!TaskStep

LEMMA MutexMoves ==
    ASSUME CallsSound, subject = "mutex", Mutex!Next
    PROVE  Moves \/ StateStore
<1> USE MutexShares
<1>1. ~Strict /\ "body" # "idle"
  BY DEF Strict
<1>2. ASSUME NEW t \in Task, Mutex!Call(t) PROVE Moves
  BY <1>2, BeginMoves DEF Mutex!Call, Mutex!CallLock, Mutex!CallUnlock
<1>3. ASSUME NEW t \in Task, Mutex!CheckReady(t) \/ Mutex!CheckRefused(t) PROVE Moves
  BY <1>3, CheckMoves
<1>4. ASSUME NEW t \in Task, Mutex!SignalOne(t, "body") \/ Mutex!CommonStep(t, "body")
      PROVE  Moves
  BY <1>1, <1>4, SignalMoves, CommonMoves
<1>5. ASSUME NEW t \in Task, Mutex!TryLock(t) PROVE Moves
  <2>1. /\ task[t].pc = "body" /\ UNCHANGED port
        /\ Return(t, "OK") \/ Return(t, "INVALID_STATE") \/ NotNow(t, "BUSY")
    BY <1>5 DEF Mutex!TryLock, At
  <2> QED BY <2>1, BodyMoves
<1>6. ASSUME NEW t \in Task, Mutex!Unlock(t) PROVE Moves
  <2>1. /\ task[t].pc = "body" /\ UNCHANGED port
        /\ Goto(t, "signal") \/ Return(t, "INVALID_ARGUMENT")
    BY <1>6 DEF Mutex!Unlock, At
  <2> QED BY <2>1, BodyMoves
<1>7. CASE Mutex!LockedStore \/ Mutex!OwnerStore
  BY <1>7, StoreMoves DEF Mutex!LockedStore, Mutex!OwnerStore
<1>8. CASE Mutex!Lifecycle /\ ~Mutex!LockedStore /\ ~Mutex!OwnerStore
  BY <1>1, <1>8, LifecycleMoves, CancelMoves
  DEF Mutex!Lifecycle, Mutex!PortInit, Mutex!Start, Mutex!Stop, Mutex!Reset, Mutex!Deinit
<1> QED BY <1>2, <1>3, <1>4, <1>5, <1>6, <1>7, <1>8 DEF Mutex!Next, Mutex!TaskStep

LEMMA CountMoves ==
    ASSUME CallsSound, subject = "count", Count!Next
    PROVE  Moves \/ StateStore
<1> USE CountShares
<1>1. Strict /\ "check" \in Waking /\ "check" # "idle"
  BY DEF Strict, Waking
<1>2. ASSUME NEW t \in Task, Count!Call(t) PROVE Moves
  BY <1>2, BeginMoves DEF Count!Call, Count!CallGive, Count!CallTake
<1>3. ASSUME NEW t \in Task, Count!CheckReady(t) \/ Count!CheckRefused(t) PROVE Moves
  BY <1>3, CheckMoves
<1>4. ASSUME NEW t \in Task, Count!SignalOne(t, "check") \/ Count!CommonStep(t, "check")
      PROVE  Moves
  BY <1>1, <1>4, SignalMoves, CommonMoves
<1>5. ASSUME NEW t \in Task, Count!Give(t) PROVE Moves
  <2>1. /\ task[t].pc = "body" /\ UNCHANGED port
        /\ Return(t, "OVERFLOW") \/ Goto(t, "signal")
    BY <1>5 DEF Count!Give, At
  <2> QED BY <2>1, BodyMoves
<1>6. ASSUME NEW t \in Task, Count!Take(t) PROVE Moves
  <2>1. /\ task[t].pc = "body" /\ UNCHANGED port
        /\ NotNow(t, "EMPTY") \/ Return(t, "OK")
    BY <1>6 DEF Count!Take, At
  <2> QED BY <2>1, BodyMoves
<1>7. CASE Count!CountStore
  BY <1>7, StoreMoves DEF Count!CountStore
<1>8. CASE Count!Lifecycle /\ ~Count!CountStore
  BY <1>1, <1>8, LifecycleMoves, CancelMoves
  DEF Count!Lifecycle, Count!PortInit, Count!Start, Count!Stop, Count!Reset, Count!Deinit
<1> QED BY <1>2, <1>3, <1>4, <1>5, <1>6, <1>7, <1>8 DEF Count!Next, Count!TaskStep

LEMMA EventMoves ==
    ASSUME CallsSound, subject = "event", Event!Next
    PROVE  Moves \/ StateStore
<1> USE EventShares
<1>1. Strict /\ "loop" \in Waking /\ "loop" # "idle"
  BY DEF Strict, Waking
<1>2. ASSUME NEW t \in Task, Event!Call(t) PROVE Moves
  BY <1>2, BeginMoves DEF Event!Call, Event!CallMutate, Event!CallWait
<1>3. ASSUME NEW t \in Task, Event!MutateCheck(t) PROVE Moves
  BY <1>3, CheckMoves DEF Event!MutateCheck
<1>4. ASSUME NEW t \in Task, Event!SignalAll(t, "loop") \/ Event!CommonStep(t, "loop")
      PROVE  Moves
  BY <1>1, <1>4, SignalMoves, CommonMoves
<1>5. ASSUME NEW t \in Task, Event!WaitCheck(t) PROVE Moves
  <2>1. ~At(t, "idle") /\ UNCHANGED port
    BY <1>5 DEF Event!WaitCheck, At
  <2>2. CASE Goto(t, "loop")
    BY <1>1, <2>1, <2>2, OneAdvances DEF Goto
  <2>3. CASE Return(t, "INVALID_STATE")
    BY <2>1, <2>3, OneEnds
  <2> QED BY <1>5, <2>2, <2>3 DEF Event!WaitCheck
<1>6. ASSUME NEW t \in Task, Event!WaitLoop(t) PROVE Moves
  <2>1. ~At(t, "idle") /\ UNCHANGED port
    BY <1>6 DEF Event!WaitLoop, At
  <2>2. CASE Stopped
    BY <1>6, <2>1, <2>2, OneEnds DEF Event!WaitLoop, InState, Stopped
  <2>3. CASE ~Stopped
    BY <1>6, <2>1, <2>3, OneAdvances DEF Event!WaitLoop, InState, Stopped, Goto, MustLook
  <2> QED BY <2>2, <2>3
<1>7. ASSUME NEW t \in Task, Event!Mutate(t) \/ Event!WaitBody(t) PROVE Moves
  <2>1. /\ task[t].pc = "body" /\ UNCHANGED port
        /\ Goto(t, "signal") \/ Goto(t, "wait") \/ Return(t, "OK")
    BY <1>7 DEF Event!Mutate, Event!WaitBody, At
  <2> QED BY <2>1, BodyMoves
<1>8. CASE Event!BitsStore
  BY <1>8, StoreMoves DEF Event!BitsStore
<1>9. CASE Event!Lifecycle /\ ~Event!BitsStore
  BY <1>1, <1>9, LifecycleMoves, CancelMoves
  DEF Event!Lifecycle, Event!PortInit, Event!Start, Event!Stop, Event!Reset, Event!Deinit
<1> QED BY <1>2, <1>3, <1>4, <1>5, <1>6, <1>7, <1>8, <1>9 DEF Event!Next, Event!TaskStep

-----------------------------------------------------------------------------
WaiterInv == subject \in Synchronisation => CallsSound

LEMMA WaiterInit == Init => WaiterInv
<1> SUFFICES ASSUME Init, subject \in Synchronisation PROVE CallsSound
  BY DEF WaiterInv
<1>1. /\ port = [state |-> "UNINITIALIZED", controller |-> << >>]
      /\ task = [t \in Task |-> NoCall]
  BY DEF Init, InitSubject, Synchronisation, NoCall,
         Queue!Init, Queue!InitWith, Queue!NoCall, Mutex!Init, Mutex!InitWith, Mutex!NoCall,
         Event!Init, Event!InitWith, Event!NoCall, Count!Init, Count!InitWith, Count!NoCall
<1> QED BY <1>1 DEF CallsSound, Sound, IsCall, NoCall, Stopped

LEMMA WaiterStep ==
    ASSUME WaiterInv, [Next]_vars
    PROVE  WaiterInv'
<1>1. /\ subject' = subject
      /\ subject \in Synchronisation =>
            \/ UNCHANGED <<port, object, task>>
            \/ subject = "queue" /\ Queue!Next
            \/ subject = "mutex" /\ Mutex!Next
            \/ subject = "event" /\ Event!Next
            \/ subject = "count" /\ Count!Next
  BY DEF Next, Synchronise, Serial, Synchronisation, vars
<1> SUFFICES ASSUME subject \in Synchronisation PROVE CallsSound'
  BY <1>1 DEF WaiterInv
<1>2. CallsSound
  BY DEF WaiterInv
<1>3. CASE UNCHANGED <<port, object, task>>
  BY <1>1, <1>2, <1>3 DEF CallsSound, Stopped, Strict
<1>4. CASE ~UNCHANGED <<port, object, task>>
  <2>1. Moves \/ StateStore
    BY <1>1, <1>2, <1>4, QueueMoves, MutexMoves, EventMoves, CountMoves
  <2> QED BY <1>1, <1>2, <2>1, MovesKeepSound, StateStoreKeepsSound
<1> QED BY <1>3, <1>4

(* The waiter of a task tells what became of its call, at every kind of    *)
(* object and for any number of tasks: no path out of a blocking call      *)
(* leaves it WAITING, and CANCELLED means that the object was stopped      *)
(* during the call.                                                        *)
THEOREM WaitersTellOutcome == Spec => []WaiterTellsOutcome
<1>1. WaiterInv => WaiterTellsOutcome
  BY DEF WaiterInv, WaiterTellsOutcome, CallsSound, Sound, At
<1> QED BY <1>1, WaiterInit, WaiterStep, PTL DEF Spec

(* A call that slept while a queue, an event group or a count was stopped  *)
(* does not succeed any more, unless the object is started again first.    *)
THEOREM SleepersAreCancelled == Spec => []StopCancelsWaiters
<1>1. WaiterInv => StopCancelsWaiters
  BY DEF WaiterInv, StopCancelsWaiters, CallsSound, Sound, At, Strict, Synchronisation
<1> QED BY <1>1, WaiterInit, WaiterStep, PTL DEF Spec

-----------------------------------------------------------------------------
(* Only waits that can sleep ask for the bits of an event group, and what  *)
(* the controller has yet to store is a sequence.                          *)
Fits(c) == c.pc # "idle" /\ c.op.name = "wait" => c.blocking

Stores == {"bits", "READY", "STOPPED", "cancel_all", "DEINITIALIZED"}

EventInv ==
    subject = "event" => port.controller \in Seq(Stores) /\ \A t \in Task : Fits(task[t])

Keeps(c, d) ==
    \/ d.pc = "idle" \/ (d.op.name = "wait" => d.blocking)
    \/ c.pc # "idle" /\ d.op = c.op /\ d.blocking = c.blocking

LEMMA OneFits ==
    ASSUME CallsSound, NEW t \in Task, NEW d, task' = [task EXCEPT ![t] = d],
           Keeps(task[t], d), \A u \in Task : Fits(task[u])
    PROVE  \A u \in Task : Fits(task'[u])
<1>1. \A u \in Task : task'[u] = IF u = t THEN d ELSE task[u]
  BY DEF CallsSound
<1> QED BY <1>1 DEF Keeps, Fits

LEMMA GotoFits ==
    ASSUME CallsSound, NEW t \in Task, ~At(t, "idle"), NEW pc, Goto(t, pc),
           \A u \in Task : Fits(task[u])
    PROVE  \A u \in Task : Fits(task'[u])
<1> DEFINE d == [task[t] EXCEPT !.pc = pc]
<1>1. task' = [task EXCEPT ![t] = d]
  BY DEF Goto
<1>2. Keeps(task[t], d)
  BY DEF Keeps, At, CallsSound, Sound, IsCall
<1> HIDE DEF d
<1> QED BY <1>1, <1>2, OneFits

LEMMA ReturnFits ==
    ASSUME CallsSound, NEW t \in Task, NEW status, Return(t, status),
           \A u \in Task : Fits(task[u])
    PROVE  \A u \in Task : Fits(task'[u])
<1> DEFINE d == Returned(task[t], status)
<1>1. task' = [task EXCEPT ![t] = d]
  BY DEF Return
<1>2. d.pc = "idle"
  BY DEF Returned, CallsSound, Sound, IsCall
<1> HIDE DEF d
<1> QED BY <1>1, <1>2, OneFits DEF Keeps

LEMMA WokenFits ==
    ASSUME CallsSound, NEW woken \in SUBSET Asleep, NEW head, NEW t \in Task, Fits(task[t])
    PROVE  Fits(Woken(task, woken, head)[t])
<1>1. CASE t \notin woken
  BY <1>1 DEF Woken
<1>2. CASE t \in woken
  <2> DEFINE d == [task[t] EXCEPT !.pc = head]
  <2>1. Woken(task, woken, head)[t] = d
    BY <1>2 DEF Woken
  <2>2. task[t].pc = "asleep"
    BY <1>2 DEF Asleep, At
  <2>3. d.op = task[t].op /\ d.blocking = task[t].blocking
    BY DEF CallsSound, Sound, IsCall
  <2> HIDE DEF d
  <2> QED BY <2>1, <2>2, <2>3 DEF Fits
<1> QED BY <1>1, <1>2

LEMMA TasksFit ==
    ASSUME CallsSound, subject = "event", Event!Next, \A t \in Task : Fits(task[t])
    PROVE  \A t \in Task : Fits(task'[t])
<1> USE EventShares
<1>1. CASE UNCHANGED task
  BY <1>1
<1>2. ASSUME NEW t \in Task, Event!Call(t) PROVE \A u \in Task : Fits(task'[u])
  <2>1. ASSUME NEW op, NEW blocking \in BOOLEAN, Begin(t, op, blocking),
               op.name = "wait" => blocking
        PROVE  \A u \in Task : Fits(task'[u])
    <3> DEFINE d == BegunWhen(task[t], op, blocking, Stopped)
    <3>1. task' = [task EXCEPT ![t] = d]
      BY <2>1 DEF Begin, Begun, BegunWhen, InState, Stopped
    <3>2. d.op = op /\ d.blocking = blocking
      BY DEF BegunWhen, CallsSound, Sound, IsCall
    <3> HIDE DEF d
    <3> QED BY <2>1, <3>1, <3>2, OneFits DEF Keeps
  <2>2. CASE Event!CallMutate(t)
    <3>1. PICK mask \in Masks, name \in {"set", "clear"} :
              Begin(t, [name |-> name, mask |-> mask], FALSE)
      BY <2>2 DEF Event!CallMutate
    <3>2. [name |-> name, mask |-> mask].name # "wait"
      OBVIOUS
    <3> QED BY <2>1, <3>1, <3>2
  <2>3. CASE Event!CallWait(t)
    <3>1. \E op : Begin(t, op, TRUE)
      BY <2>3 DEF Event!CallWait
    <3> QED BY <2>1, <3>1
  <2> QED BY <1>2, <2>2, <2>3 DEF Event!Call
<1>3. ASSUME NEW t \in Task, NEW pc, ~At(t, "idle"), Goto(t, pc)
      PROVE  \A u \in Task : Fits(task'[u])
  BY <1>3, GotoFits
<1>4. ASSUME NEW t \in Task, NEW status, Return(t, status)
      PROVE  \A u \in Task : Fits(task'[u])
  BY <1>4, ReturnFits
<1>5. ASSUME NEW t \in Task, WaiterReset(t) PROVE \A u \in Task : Fits(task'[u])
  BY <1>5, OneFits DEF WaiterReset, NoCall, Keeps
<1>6. ASSUME NEW t \in Task, SignalAll(t, "loop") PROVE \A u \in Task : Fits(task'[u])
  <2> DEFINE d == Returned(Woken(task, Asleep, "loop")[t], "OK")
  <2>1. task' = [Woken(task, Asleep, "loop") EXCEPT ![t] = d]
    BY <1>6 DEF SignalAll
  <2>2. \A u \in Task : task'[u] = IF u = t THEN d ELSE Woken(task, Asleep, "loop")[u]
    BY <2>1 DEF Woken
  <2>3. d.pc = "idle"
    <3>1. Woken(task, Asleep, "loop")[t] = task[t]
      BY <1>6 DEF Woken, SignalAll, Asleep, At
    <3> QED BY <3>1 DEF Returned, CallsSound, Sound, IsCall
  <2> HIDE DEF d
  <2> QED BY <2>2, <2>3, WokenFits DEF Fits
<1>7. CASE StateStore
  <2> DEFINE state == NextStore
  <2>1. \A t \in Task : task'[t] = Noted(task[t], t, state)
    BY <1>7 DEF StateStore
  <2> HIDE DEF state
  <2>2. ASSUME NEW t \in Task PROVE Fits(Noted(task[t], t, state))
    BY DEF Noted, Fits, CallsSound, Sound, IsCall
  <2> QED BY <2>1, <2>2
<1>8. CASE CancelAll("loop")
  <2>1. \A t \in Task : task'[t] = Woken(task, Asleep, "loop")[t]
    BY <1>8 DEF CancelAll
  <2> QED BY <2>1, WokenFits
<1>9. ASSUME NEW t \in Task, Event!TaskStep(t) PROVE \A u \in Task : Fits(task'[u])
  <2>1. CASE SignalAll(t, "loop")
    BY <1>6, <2>1
  <2>2. CASE CommonStep(t, "loop")
    <3>1. \/ WaiterReset(t)
          \/ ~At(t, "idle") /\ \E pc : Goto(t, pc)
          \/ \E status : Return(t, status)
      BY <2>2 DEF CommonStep, Recheck, Sleep, Timeout, WakeUp, At
    <3> QED BY <1>3, <1>4, <1>5, <3>1
  <2>3. CASE CheckReady(t) \/ CheckRefused(t)
    <3>1. ~At(t, "idle") /\ ((\E pc : Goto(t, pc)) \/ (\E status : Return(t, status)))
      BY <2>3 DEF CheckReady, CheckRefused, At
    <3> QED BY <1>3, <1>4, <3>1
  <2>4. CASE Event!WaitCheck(t) \/ Event!WaitLoop(t) \/ Event!Mutate(t) \/ Event!WaitBody(t)
    <3>1. ~At(t, "idle") /\ ((\E pc : Goto(t, pc)) \/ (\E status : Return(t, status)))
      BY <2>4 DEF Event!WaitCheck, Event!WaitLoop, Event!Mutate, Event!WaitBody, At
    <3> QED BY <1>3, <1>4, <3>1
  <2> QED BY <1>9, <2>1, <2>2, <2>3, <2>4 DEF Event!TaskStep, Event!MutateCheck
<1>10. CASE Event!Lifecycle
  <2>1. UNCHANGED task \/ StateStore \/ CancelAll("loop")
    BY <1>10 DEF Event!Lifecycle, Event!PortInit, Event!Start, Event!Stop, Event!Reset,
                 Event!Deinit, Event!BitsStore, LifecycleCall
  <2> QED BY <1>1, <1>7, <1>8, <2>1
<1> QED BY <1>2, <1>9, <1>10 DEF Event!Next

LEMMA StoresFit ==
    ASSUME CallsSound, port.controller \in Seq(Stores), subject = "event", Event!Next
    PROVE  port'.controller \in Seq(Stores)
<1> USE EventShares
<1>1. CASE UNCHANGED port
  BY <1>1
<1>2. ASSUME NEW states, NEW stores \in Seq(Stores), LifecycleCall(states, stores)
      PROVE  port'.controller \in Seq(Stores)
  BY <1>2 DEF LifecycleCall, CallsSound
<1>3. CASE /\ NextStore # "none"
           /\ port' = [state |-> port'.state, controller |-> Tail(port.controller)]
  BY <1>3 DEF NextStore
<1>4. CASE Event!Lifecycle
  <2>1. CASE \E field \in {"bits", "cancel_all"} : Stored(field)
    BY <1>3, <2>1 DEF Stored, CallsSound
  <2>2. CASE StateStore
    BY <1>3, <2>2 DEF StateStore
  <2>3. CASE \/ Event!PortInit \/ Event!Start \/ Event!Stop \/ Event!Reset \/ Event!Deinit
    <3>1. <<"bits">> \in Seq(Stores) /\ <<"DEINITIALIZED">> \in Seq(Stores)
      BY DEF Stores
    <3>2. <<"bits", "READY">> \in Seq(Stores)
      BY DEF Stores
    <3>3. <<"bits", "STOPPED", "cancel_all">> \in Seq(Stores)
      BY DEF Stores
    <3> QED BY <1>2, <2>3, <3>1, <3>2, <3>3
            DEF Event!PortInit, Event!Start, Event!Stop, Event!Reset, Event!Deinit
  <2> QED BY <1>4, <2>1, <2>2, <2>3 DEF Event!Lifecycle, Event!BitsStore, CancelAll
<1>5. CASE ~Event!Lifecycle
  <2>1. PICK t \in Task : Event!Call(t) \/ Event!TaskStep(t)
    BY <1>5 DEF Event!Next
  <2>2. CASE Event!Call(t)
    BY <1>1, <2>2 DEF Event!Call, Event!CallMutate, Event!CallWait, Begin
  <2>3. CASE Event!TaskStep(t)
    BY <1>1, <2>3 DEF Event!TaskStep, Event!MutateCheck, Event!WaitCheck, Event!Mutate,
       Event!WaitLoop, Event!WaitBody, SignalAll, CommonStep, CheckReady, CheckRefused,
       WaiterReset, Recheck, Sleep, Timeout, WakeUp
  <2> QED BY <2>1, <2>2, <2>3
<1> QED BY <1>4, <1>5

LEMMA EventInit == Init => EventInv
<1> SUFFICES ASSUME Init, subject = "event" PROVE EventInv
  BY DEF EventInv
<1>1. port.controller = << >> /\ \A t \in Task : task[t].pc = "idle"
  BY DEF Init, InitSubject, Event!Init, Event!InitWith, Event!NoCall
<1> QED BY <1>1 DEF EventInv, Fits

LEMMA EventStep ==
    ASSUME WaiterInv, EventInv, [Next]_vars
    PROVE  EventInv'
<1> SUFFICES ASSUME subject = "event" PROVE EventInv'
  BY DEF EventInv, Next, Synchronise, Serial, vars
<1>1. CallsSound
  BY DEF WaiterInv, Synchronisation
<1>2. subject' = subject /\ (Event!Next \/ UNCHANGED <<port, object, task>>)
  BY DEF Next, Synchronise, Serial, vars
<1>3. CASE UNCHANGED <<port, object, task>>
  BY <1>2, <1>3 DEF EventInv
<1>4. CASE Event!Next
  BY <1>1, <1>2, <1>4, TasksFit, StoresFit DEF EventInv
<1> QED BY <1>2, <1>3, <1>4

LEMMA BitsAreConsumedOnce ==
    ASSUME CallsSound, EventInv, subject = "event", Event!Next
    PROVE  Event!ConsumedByOne
<1> USE EventShares
<1>1. CASE UNCHANGED object
  BY <1>1 DEF Event!ConsumedByOne
<1>2. ASSUME NEW t \in Task, Event!Mutate(t) PROVE Event!ConsumedByOne
  <2>1. At(t, "body") /\ task[t].op.name \in {"set", "clear"}
    BY <1>2 DEF Event!Mutate
  <2>2. CASE task[t].op.name = "set"
    <3>1. object' = object \cup task[t].op.mask
      BY <1>2, <2>2 DEF Event!Mutate
    <3>2. object \subseteq object'
      BY <3>1
    <3> QED BY <3>2 DEF Event!ConsumedByOne
  <2>3. CASE task[t].op.name = "clear"
    <3>1. object' = object \ task[t].op.mask
      BY <1>2, <2>3 DEF Event!Mutate
    <3>2. object \ object' \subseteq task[t].op.mask
      BY <3>1
    <3> QED BY <2>1, <2>3, <3>2 DEF Event!ConsumedByOne
  <2> QED BY <2>1, <2>2, <2>3
<1>3. ASSUME NEW t \in Task, Event!WaitBody(t) PROVE Event!ConsumedByOne
  <2> DEFINE request == task[t].op
  <2>1. CASE Event!Matches(object, request) /\ request.clear
    <3>1. At(t, "body") /\ request.name = "wait" /\ Return(t, "OK")
      BY <1>3, <2>1 DEF Event!WaitBody
    <3>2. object' = object \ request.mask
      BY <1>3, <2>1 DEF Event!WaitBody, Event!ClearedOnExit
    <3>3. task[t].blocking
      BY <3>1 DEF EventInv, Fits, At
    <3>4. task'[t].pc = "idle" /\ task'[t].status = "OK"
      <4>1. task'[t] = Returned(task[t], "OK")
        BY <3>1 DEF Return, CallsSound
      <4> QED BY <3>3, <4>1 DEF Returned, CallsSound, Sound, IsCall
    <3>5. /\ object \ object' = object \cap request.mask
          /\ request.all => object \ object' = request.mask
      BY <2>1, <3>2 DEF Event!Matches
    <3> QED BY <2>1, <3>1, <3>4, <3>5 DEF Event!ConsumedByOne
  <2>2. CASE ~(Event!Matches(object, request) /\ request.clear)
    BY <1>1, <1>3, <2>2 DEF Event!WaitBody, Event!ClearedOnExit
  <2> QED BY <2>1, <2>2
<1>4. CASE Event!BitsStore
  <2>1. port' = [port EXCEPT !.controller = Tail(@)] /\ port.controller # << >>
    <3>1. Stored("bits")
      BY <1>4 DEF Event!BitsStore
    <3> QED BY <3>1 DEF Stored, NextStore
  <2>2. port'.controller = Tail(port.controller) /\ port.controller \in Seq(Stores)
    BY <2>1 DEF CallsSound, EventInv
  <2>3. Len(port'.controller) = Len(port.controller) - 1 /\ Len(port.controller) \in Nat
    BY <2>1, <2>2
  <2>4. port' # port
    BY <2>3
  <2> QED BY <2>4 DEF Event!ConsumedByOne
<1>5. CASE Event!Lifecycle /\ ~Event!BitsStore
  <2>1. UNCHANGED object
    BY <1>5 DEF Event!Lifecycle, Event!PortInit, Event!Start, Event!Stop, Event!Reset,
                Event!Deinit, LifecycleCall, StateStore, CancelAll
  <2> QED BY <1>1, <2>1
<1>6. ASSUME NEW t \in Task, Event!Call(t) PROVE UNCHANGED object
  BY <1>6 DEF Event!Call, Event!CallMutate, Event!CallWait, Begin
<1>7. ASSUME NEW t \in Task, Event!TaskStep(t), ~Event!Mutate(t), ~Event!WaitBody(t)
      PROVE  UNCHANGED object
  BY <1>7 DEF Event!TaskStep, Event!MutateCheck, Event!WaitCheck, Event!WaitLoop, SignalAll,
     CommonStep, CheckReady, CheckRefused, WaiterReset, Recheck, Sleep, Timeout, WakeUp
<1> QED BY <1>1, <1>2, <1>3, <1>4, <1>5, <1>6, <1>7 DEF Event!Next

(* An event that one waiter consumes is not seen by another, for any       *)
(* number of tasks and bits: bits go away by a clear or a lifecycle call,  *)
(* or with the success of one wait, which asked for all that it takes.     *)
THEOREM EventsAreConsumedOnce == Spec => EventsConsumedOnce
<1>1. Spec => [](WaiterInv /\ EventInv)
  BY WaiterInit, WaiterStep, EventInit, EventStep, PTL DEF Spec
<1>2. WaiterInv /\ [Next]_vars /\ EventInv => [subject = "event" => Event!ConsumedByOne]_vars
  <2> SUFFICES ASSUME WaiterInv, EventInv, Next, subject = "event" PROVE Event!ConsumedByOne
    OBVIOUS
  <2>1. CallsSound
    BY DEF WaiterInv, Synchronisation
  <2>2. Event!Next
    BY DEF Next, Synchronise, Serial
  <2> QED BY <2>1, <2>2, BitsAreConsumedOnce
<1> QED BY <1>1, <1>2, PTL DEF Spec, EventsConsumedOnce

-----------------------------------------------------------------------------
(* Both queues keep a window of a ring: size elements, from the head on.   *)
Places == 0 .. Capacity - 1
Wrapped(i) == IF i >= Capacity THEN i - Capacity ELSE i

Filled(ring, head, size, S) == \A k \in 0 .. size - 1 : ring[Wrapped(head + k)] \in S
Window(ring, head, size) == [i \in 1 .. size |-> ring[Wrapped(head + i - 1)]]

(* A window of a filled ring is a sequence of what fills it. *)
LEMMA WindowIsSequence ==
    ASSUME NEW S, NEW ring, NEW head \in Places, NEW size \in 0 .. Capacity,
           Filled(ring, head, size, S)
    PROVE  /\ Window(ring, head, size) \in Seq(S)
           /\ Len(Window(ring, head, size)) = size
           /\ \A i \in 1 .. size : /\ Window(ring, head, size)[i] = ring[Wrapped(head + i - 1)]
                                   /\ Window(ring, head, size)[i] \in S
<1> DEFINE w == Window(ring, head, size)
<1>1. size \in Nat
  BY CapacityAssumption
<1>2. ASSUME NEW i \in 1 .. size
      PROVE  w[i] = ring[Wrapped(head + i - 1)] /\ ring[Wrapped(head + i - 1)] \in S
  <2>1. i - 1 \in 0 .. size - 1 /\ head + (i - 1) = head + i - 1
    BY <1>1 DEF Places
  <2>2. ring[Wrapped(head + (i - 1))] \in S
    BY <2>1 DEF Filled
  <2> QED BY <2>1, <2>2 DEF Window
<1>3. w = [i \in 1 .. size |-> w[i]]
  BY DEF Window
<1> HIDE DEF w
<1>4. w \in [1 .. size -> S]
  BY <1>2, <1>3
<1>5. w \in Seq(S)
  BY <1>1, <1>4, SeqDef
<1>6. DOMAIN w = 1 .. size
  BY <1>4
<1>7. Len(w) = size
  BY <1>1, <1>5, <1>6, LenProperties
<1> QED BY <1>2, <1>5, <1>7 DEF w

(* What is written behind a window lengthens it at its end. *)
LEMMA WindowGrows ==
    ASSUME NEW S, NEW ring, NEW other, NEW head \in Places, NEW size \in 0 .. Capacity,
           NEW larger \in size + 1 .. Capacity,
           Filled(ring, head, size, S), Filled(other, head, larger, S),
           \A k \in 0 .. size - 1 : other[Wrapped(head + k)] = ring[Wrapped(head + k)]
    PROVE  LET old == Window(ring, head, size)
               new == Window(other, head, larger)
           IN  /\ Len(new) \in Len(old) + 1 .. Capacity
               /\ SubSeq(new, 1, Len(old)) = old
               /\ \A i \in 1 .. Len(new) : new[i] \in S
<1> DEFINE old == Window(ring, head, size)
           new == Window(other, head, larger)
<1>1. /\ size \in Int /\ larger \in Int /\ head \in Int /\ Capacity \in Nat /\ size >= 0
      /\ larger \in 0 .. Capacity /\ size < larger
  BY CapacityAssumption DEF Places
<1>2. /\ old \in Seq(S) /\ Len(old) = size
      /\ \A i \in 1 .. size : old[i] = ring[Wrapped(head + i - 1)] /\ old[i] \in S
  BY WindowIsSequence
<1>3. /\ new \in Seq(S) /\ Len(new) = larger
      /\ \A i \in 1 .. larger : new[i] = other[Wrapped(head + i - 1)] /\ new[i] \in S
  BY <1>1, WindowIsSequence
<1>4. ASSUME NEW i \in 1 .. size PROVE new[i] = old[i]
  <2>1. i - 1 \in 0 .. size - 1 /\ head + (i - 1) = head + i - 1 /\ i \in 1 .. larger
    BY <1>1
  <2> QED BY <1>2, <1>3, <2>1
<1> HIDE DEF old, new
<1>5. SubSeq(new, 1, size) = old
  <2>1. \A i \in 1 .. size : new[i] \in S
    BY <1>1, <1>3
  <2>2. /\ SubSeq(new, 1, size) \in Seq(S)
        /\ Len(SubSeq(new, 1, size)) = size
        /\ \A i \in 1 .. size : SubSeq(new, 1, size)[i] = new[i]
    BY <1>1, <1>3, <2>1, SubSeqProperties
  <2> QED BY <1>2, <1>4, <2>2, SeqEqual
<1>6. larger \in size + 1 .. Capacity
  OBVIOUS
<1> QED BY <1>2, <1>3, <1>5, <1>6 DEF old, new

(* n elements left the window at its head: the first n, in their order. *)
FrontLeft(ring, other, head, size, n, S) ==
    LET old == Window(ring, head, size)
    IN  /\ n \in 1 .. Len(old)
        /\ SubSeq(old, 1, n) = Window(ring, head, n)
        /\ SubSeq(old, n + 1, Len(old)) = Window(other, Wrapped(head + n), size - n)
        /\ Filled(other, Wrapped(head + n), size - n, S)
        /\ Wrapped(head + n) \in Places

(* What leaves a window at its head is its beginning. *)
LEMMA WindowShrinks ==
    ASSUME NEW S, NEW ring, NEW other, NEW head \in Places, NEW size \in 0 .. Capacity,
           NEW n \in 1 .. size, Filled(ring, head, size, S),
           \A k \in n .. size - 1 : other[Wrapped(head + k)] = ring[Wrapped(head + k)]
    PROVE  FrontLeft(ring, other, head, size, n, S)
<1> DEFINE old == Window(ring, head, size)
           first == Window(ring, head, n)
           rest == Window(other, Wrapped(head + n), size - n)
<1>1. /\ size \in Int /\ n \in Int /\ head \in Int /\ Capacity \in Nat \ {0} /\ size >= 0
      /\ n >= 1 /\ n <= size /\ size <= Capacity /\ head >= 0 /\ head < Capacity
      /\ size - n \in 0 .. Capacity /\ n \in 0 .. Capacity
  BY CapacityAssumption DEF Places
<1>2. Wrapped(head + n) \in Places
  BY <1>1 DEF Wrapped, Places
<1>3. ASSUME NEW k \in 0 .. size - n - 1
      PROVE  /\ Wrapped(Wrapped(head + n) + k) = Wrapped(head + (n + k))
             /\ n + k \in n .. size - 1 /\ n + k \in 0 .. size - 1
  BY <1>1 DEF Wrapped
<1>4. ASSUME NEW k \in 0 .. size - n - 1
      PROVE  other[Wrapped(Wrapped(head + n) + k)] = ring[Wrapped(head + (n + k))]
  BY <1>3
<1>5. Filled(other, Wrapped(head + n), size - n, S)
  <2>1. \A k \in 0 .. size - n - 1 : ring[Wrapped(head + (n + k))] \in S
    BY <1>3 DEF Filled
  <2> QED BY <1>4, <2>1 DEF Filled
<1>6. /\ old \in Seq(S) /\ Len(old) = size
      /\ \A i \in 1 .. size : old[i] = ring[Wrapped(head + i - 1)] /\ old[i] \in S
  BY WindowIsSequence
<1>7. /\ rest \in Seq(S) /\ Len(rest) = size - n
      /\ \A i \in 1 .. size - n : rest[i] = other[Wrapped(Wrapped(head + n) + i - 1)]
  <2> DEFINE start == Wrapped(head + n)
             left == size - n
  <2>1. start \in Places /\ left \in 0 .. Capacity /\ Filled(other, start, left, S)
    BY <1>1, <1>2, <1>5
  <2> HIDE DEF start, left
  <2>2. /\ Window(other, start, left) \in Seq(S)
        /\ Len(Window(other, start, left)) = left
        /\ \A i \in 1 .. left : Window(other, start, left)[i] = other[Wrapped(start + i - 1)]
    BY <2>1, WindowIsSequence
  <2> QED BY <2>2 DEF start, left
<1>8. ASSUME NEW i \in 1 .. size - n PROVE rest[i] = old[n + i]
  <2>1. /\ i - 1 \in 0 .. size - n - 1 /\ i \in Int
        /\ head + (n + (i - 1)) = head + (n + i) - 1 /\ n + i \in 1 .. size
    BY <1>1
  <2>2. Wrapped(head + n) + (i - 1) = Wrapped(head + n) + i - 1
    BY <1>2, <2>1 DEF Places
  <2>3. rest[i] = ring[Wrapped(head + (n + i) - 1)]
    BY <1>4, <1>7, <2>1, <2>2
  <2> QED BY <1>6, <2>1, <2>3
<1> HIDE DEF old, rest
<1>9. SubSeq(old, 1, n) = first
  <2>1. \A i \in 1 .. n : old[i] \in S /\ i \in 1 .. size
    BY <1>1, <1>6
  <2>2. /\ SubSeq(old, 1, n) \in Seq(S) /\ Len(SubSeq(old, 1, n)) = n
        /\ \A i \in 1 .. n : SubSeq(old, 1, n)[i] = old[i]
    BY <1>1, <2>1, <1>6, SubSeqProperties
  <2>3. SubSeq(old, 1, n) = [i \in 1 .. n |-> SubSeq(old, 1, n)[i]]
    <3>1. DOMAIN SubSeq(old, 1, n) = 1 .. n
      BY <2>2, LenProperties
    <3>2. SubSeq(old, 1, n) = [i \in DOMAIN SubSeq(old, 1, n) |-> SubSeq(old, 1, n)[i]]
      BY <2>2, LenProperties
    <3> QED BY <3>1, <3>2
  <2>4. \A i \in 1 .. n : SubSeq(old, 1, n)[i] = ring[Wrapped(head + i - 1)]
    BY <1>6, <2>1, <2>2
  <2> QED BY <2>3, <2>4 DEF Window
<1>10. SubSeq(old, n + 1, size) = rest
  <2>1. \A i \in n + 1 .. size : old[i] \in S
    BY <1>1, <1>6
  <2>2. /\ SubSeq(old, n + 1, size) \in Seq(S)
        /\ Len(SubSeq(old, n + 1, size)) = IF n + 1 <= size THEN size - (n + 1) + 1 ELSE 0
        /\ \A i \in 1 .. size - (n + 1) + 1 : SubSeq(old, n + 1, size)[i] = old[(n + 1) + i - 1]
    BY <1>1, <1>6, <2>1, SubSeqProperties
  <2>3. Len(SubSeq(old, n + 1, size)) = size - n
    BY <1>1, <2>2
  <2>4. ASSUME NEW i \in 1 .. size - n PROVE SubSeq(old, n + 1, size)[i] = rest[i]
    <3>1. i \in 1 .. size - (n + 1) + 1 /\ (n + 1) + i - 1 = n + i
      BY <1>1
    <3> QED BY <1>8, <2>2, <3>1
  <2> QED BY <1>7, <2>2, <2>3, <2>4, SeqEqual
<1>11. n \in 1 .. size
  OBVIOUS
<1> QED BY <1>2, <1>5, <1>6, <1>9, <1>10, <1>11 DEF old, rest, FrontLeft

(* Both ways of the code to go round the ring: % and fixed_queue advance. *)
LEMMA RoundTheRing ==
    ASSUME NEW head \in Places, NEW k \in 0 .. Capacity
    PROVE  /\ (head + k) % Capacity = Wrapped(head + k)
           /\ Fixed!Advance(head, k) = Wrapped(head + k)
           /\ Wrapped(head + k) \in Places
<1>1. /\ Capacity \in Nat \ {0} /\ head \in Int /\ k \in Int
      /\ 0 <= head /\ head < Capacity /\ 0 <= k /\ k <= Capacity
  BY CapacityAssumption DEF Places
<1>2. Fixed!Advance(head, k) = Wrapped(head + k) /\ Wrapped(head + k) \in Places
  BY <1>1 DEF Fixed!Advance, Wrapped, Places
<1>3. CASE head + k < Capacity
  <2>1. (head + k) % Capacity = head + k
    BY <1>1, <1>3
  <2> QED BY <1>1, <1>2, <1>3, <2>1 DEF Wrapped
<1>4. CASE ~(head + k < Capacity)
  <2>1. (head + k) % Capacity = head + k - Capacity
    BY <1>1, <1>4
  <2> QED BY <1>1, <1>2, <1>4, <2>1 DEF Wrapped
<1> QED BY <1>3, <1>4

-----------------------------------------------------------------------------
(* fixed_queue: a serial ring. *)
FixedInv ==
    subject = "fixed" =>
        /\ object = [ring |-> object.ring, head |-> object.head, size |-> object.size,
                     rejected |-> object.rejected, high_water |-> object.high_water]
        /\ object.ring = [p \in Places |-> object.ring[p]]
        /\ object.head \in Places /\ object.size \in 0 .. Capacity
        /\ Filled(object.ring, object.head, object.size, Element)

(* A queue begins empty. *)
LEMMA FixedInit == Init => FixedInv
<1> SUFFICES ASSUME Init, subject = "fixed" PROVE FixedInv
  BY DEF FixedInv
<1>1. object = [ring |-> [i \in Places |-> None], head |-> 0, size |-> 0, rejected |-> 0,
                high_water |-> 0]
  BY DEF Init, InitSubject, Fixed!Init, Fixed!NewQueue, Fixed!NoStorage, Fixed!Slots, Places
<1>2. 0 \in Places /\ 0 \in 0 .. Capacity /\ Capacity \in Nat
  BY CapacityAssumption DEF Places
<1> QED BY <1>1, <1>2 DEF FixedInv, Filled

(* What fixed_queue_peek_at shows is the window. *)
LEMMA FixedContent ==
    ASSUME FixedInv, subject = "fixed"
    PROVE  Fixed!Content = Window(object.ring, object.head, object.size)
<1>1. ASSUME NEW i \in 1 .. object.size
      PROVE  Fixed!PeekAt(i - 1) = object.ring[Wrapped(object.head + i - 1)]
  <2>1. /\ i - 1 \in 0 .. Capacity /\ object.head \in Places
        /\ object.head + (i - 1) = object.head + i - 1
    BY CapacityAssumption DEF FixedInv, Places
  <2> QED BY <2>1, RoundTheRing DEF Fixed!PeekAt
<1> QED BY <1>1 DEF Fixed!Content, Window

(* Within a ring, different distances from a slot lead to different slots. *)
LEMMA PlacesDiffer ==
    ASSUME NEW head \in Places, NEW j \in 0 .. Capacity - 1, NEW k \in 0 .. Capacity - 1,
           Wrapped(head + j) = Wrapped(head + k)
    PROVE  j = k
BY CapacityAssumption DEF Wrapped, Places

(* What a batch does to the ring. *)
LEMMA BatchWritten ==
    ASSUME FixedInv, subject = "fixed", subject' = subject, NEW batch \in Batches,
           Fixed!Push(batch)
    PROVE  /\ FixedInv' /\ UNCHANGED task
           /\ \/ Window(object'.ring, object'.head, object'.size)
                     = Window(object.ring, object.head, object.size)
              \/ LET old == Window(object.ring, object.head, object.size)
                     new == Window(object'.ring, object'.head, object'.size)
                 IN  /\ Len(new) \in Len(old) + 1 .. Capacity
                     /\ SubSeq(new, 1, Len(old)) = old
                     /\ \A i \in 1 .. Len(new) : new[i] \in Element
<1> DEFINE ring == object.ring
           head == object.head
           size == object.size
           amount == Fixed!Lesser(Capacity - size, Len(batch))
           Place(k) == Fixed!Advance(head, size + k - 1)
           other == [i \in Places |->
                       IF \E k \in 1 .. amount : i = Place(k)
                       THEN batch[CHOOSE k \in 1 .. amount : i = Place(k)]
                       ELSE ring[i]]
<1>1. /\ head \in Places /\ size \in 0 .. Capacity /\ Capacity \in Nat \ {0}
      /\ ring = [p \in Places |-> ring[p]] /\ Filled(ring, head, size, Element)
      /\ object = [ring |-> ring, head |-> head, size |-> size,
                   rejected |-> object.rejected, high_water |-> object.high_water]
  BY CapacityAssumption DEF FixedInv
<1>2. batch \in Seq(Element) /\ Len(batch) \in Nat
  BY BatchesAssumption, LenProperties
<1>3. amount \in 0 .. Capacity - size /\ amount <= Len(batch) /\ amount \in Nat
  BY <1>1, <1>2 DEF Fixed!Lesser
<1>4. /\ object' = [object EXCEPT
              !.ring = other, !.size = @ + amount,
              !.rejected = IF Len(batch) > Capacity - size /\ @ < CounterMax THEN @ + 1 ELSE @,
              !.high_water = IF size + amount > @ THEN size + amount ELSE @]
      /\ UNCHANGED task
  BY DEF Fixed!Push, Fixed!Slots, Places
<1> HIDE DEF ring, head, size, amount
<1>5. ASSUME NEW k \in 1 .. amount
      PROVE  Place(k) = Wrapped(head + (size + k - 1)) /\ Place(k) \in Places
  <2>1. size + k - 1 \in 0 .. Capacity
    BY <1>1, <1>3
  <2> QED BY <1>1, <2>1, RoundTheRing
<1>6. ASSUME NEW k \in 0 .. size - 1
      PROVE  other[Wrapped(head + k)] = ring[Wrapped(head + k)]
  <2>1. k \in 0 .. Capacity - 1 /\ k \in 0 .. Capacity
    BY <1>1
  <2>2. Wrapped(head + k) \in Places
    BY <1>1, <2>1, RoundTheRing
  <2>3. ASSUME NEW j \in 1 .. amount, Wrapped(head + k) = Place(j) PROVE FALSE
    <3>1. size + j - 1 \in 0 .. Capacity - 1 /\ size + j - 1 # k
      BY <1>1, <1>3
    <3>2. Wrapped(head + k) = Wrapped(head + (size + j - 1))
      BY <1>5, <2>3
    <3> QED BY <1>1, <2>1, <3>1, <3>2, PlacesDiffer
  <2> QED BY <2>2, <2>3
<1>7. ASSUME NEW k \in size .. size + amount - 1
      PROVE  other[Wrapped(head + k)] \in Element
  <2>1. k - size + 1 \in 1 .. amount /\ size + (k - size + 1) - 1 = k
    BY <1>1, <1>3
  <2>2. Place(k - size + 1) = Wrapped(head + k) /\ Wrapped(head + k) \in Places
    BY <1>5, <2>1
  <2> DEFINE chosen == CHOOSE j \in 1 .. amount : Wrapped(head + k) = Place(j)
  <2>3. chosen \in 1 .. amount
    BY <2>1, <2>2, Zenon
  <2>4. other[Wrapped(head + k)] = batch[chosen]
    BY <2>1, <2>2, Zenon
  <2> HIDE DEF chosen, other
  <2>5. chosen \in 1 .. Len(batch)
    BY <1>2, <1>3, <2>3
  <2> QED BY <1>2, <2>4, <2>5, ElementOfSeq
<1>8. other = [p \in Places |-> other[p]]
  OBVIOUS
<1> HIDE DEF other, Place
<1>9. /\ object'.ring = other /\ object'.head = head /\ object'.size = size + amount
      /\ object' = [ring |-> object'.ring, head |-> object'.head, size |-> object'.size,
                    rejected |-> object'.rejected, high_water |-> object'.high_water]
  BY <1>1, <1>4 DEF size, head
<1>10. size + amount \in 0 .. Capacity /\ size \in Int /\ amount \in Int /\ size >= 0
  BY <1>1, <1>3
<1>11. Filled(other, head, size + amount, Element)
  <2> DEFINE larger == size + amount
  <2>1. larger \in Int /\ larger = size + amount
    BY <1>10
  <2> HIDE DEF larger
  <2>2. ASSUME NEW k \in 0 .. larger - 1 PROVE other[Wrapped(head + k)] \in Element
    <3>1. CASE k \in 0 .. size - 1
      BY <1>1, <1>6, <3>1 DEF Filled
    <3>2. CASE k \notin 0 .. size - 1
      <4>1. k \in size .. size + amount - 1
        BY <1>10, <2>1, <3>2
      <4> QED BY <1>7, <4>1
    <3> QED BY <3>1, <3>2
  <2>3. Filled(other, head, larger, Element)
    BY <2>2 DEF Filled
  <2> QED BY <2>1, <2>3
<1>12. FixedInv'
  BY <1>1, <1>8, <1>9, <1>10, <1>11 DEF FixedInv
<1>13. CASE amount = 0
  <2>1. size + amount = size
    BY <1>10, <1>13
  <2>2. Window(other, head, size) = Window(ring, head, size)
    <3>1. ASSUME NEW i \in 1 .. size
          PROVE  other[Wrapped(head + i - 1)] = ring[Wrapped(head + i - 1)]
      <4>1. i - 1 \in 0 .. size - 1 /\ head + (i - 1) = head + i - 1
        BY <1>1, <1>10 DEF Places
      <4> QED BY <1>6, <4>1
    <3> QED BY <3>1 DEF Window
  <2> QED BY <1>4, <1>9, <1>12, <2>1, <2>2 DEF ring, head, size
<1>14. CASE amount # 0
  <2> DEFINE larger == size + amount
  <2>1. larger \in size + 1 .. Capacity /\ Filled(other, head, larger, Element)
    BY <1>1, <1>3, <1>10, <1>11, <1>14
  <2> HIDE DEF larger
  <2>2. LET old == Window(ring, head, size)
            new == Window(other, head, larger)
        IN  /\ Len(new) \in Len(old) + 1 .. Capacity
            /\ SubSeq(new, 1, Len(old)) = old
            /\ \A i \in 1 .. Len(new) : new[i] \in Element
    BY <1>1, <1>6, <2>1, WindowGrows
  <2> QED BY <1>4, <1>9, <1>12, <2>2 DEF ring, head, size, larger
<1> QED BY <1>13, <1>14

(* What a batch takes from the ring. *)
LEMMA BatchRead ==
    ASSUME FixedInv, subject = "fixed", subject' = subject, NEW count \in 1 .. Capacity + 1,
           Fixed!Pop(count)
    PROVE  /\ FixedInv'
           /\ LET old == Window(object.ring, object.head, object.size)
                  new == Window(object'.ring, object'.head, object'.size)
              IN  \E n \in 1 .. Len(old) : /\ task' = SubSeq(old, 1, n)
                                           /\ new = SubSeq(old, n + 1, Len(old))
<1> DEFINE ring == object.ring
           head == object.head
           size == object.size
           amount == Fixed!Lesser(size, count)
<1>1. /\ head \in Places /\ size \in 0 .. Capacity /\ Capacity \in Nat \ {0}
      /\ ring = [p \in Places |-> ring[p]] /\ Filled(ring, head, size, Element)
      /\ object = [ring |-> ring, head |-> head, size |-> size,
                   rejected |-> object.rejected, high_water |-> object.high_water]
  BY CapacityAssumption DEF FixedInv
<1>2. /\ task' = [i \in 1 .. amount |-> Fixed!PeekAt(i - 1)]
      /\ object' = [object EXCEPT !.head = Fixed!Advance(@, amount), !.size = @ - amount]
      /\ amount > 0
  BY DEF Fixed!Pop
<1>3. amount \in 1 .. size /\ amount \in 0 .. Capacity /\ size - amount \in 0 .. Capacity
  BY <1>1, <1>2 DEF Fixed!Lesser
<1>4. ASSUME NEW i \in 1 .. amount PROVE Fixed!PeekAt(i - 1) = ring[Wrapped(head + i - 1)]
  <2>1. i - 1 \in 0 .. Capacity /\ head + (i - 1) = head + i - 1
    BY <1>1, <1>3 DEF Places
  <2> QED BY <1>1, <2>1, RoundTheRing DEF Fixed!PeekAt
<1> HIDE DEF amount, ring, head, size
<1>5. task' = Window(ring, head, amount)
  BY <1>2, <1>4 DEF Window
<1>6. /\ object'.ring = ring /\ object'.head = Wrapped(head + amount)
      /\ object'.size = size - amount
      /\ object' = [ring |-> object'.ring, head |-> object'.head, size |-> object'.size,
                    rejected |-> object'.rejected, high_water |-> object'.high_water]
  <2>1. Fixed!Advance(head, amount) = Wrapped(head + amount)
    BY <1>1, <1>3, RoundTheRing
  <2> QED BY <1>1, <1>2, <2>1 DEF size, head, ring
<1>7. LET old == Window(ring, head, size)
      IN  /\ amount \in 1 .. Len(old)
          /\ SubSeq(old, 1, amount) = Window(ring, head, amount)
          /\ SubSeq(old, amount + 1, Len(old)) = Window(ring, Wrapped(head + amount), size - amount)
          /\ Filled(ring, Wrapped(head + amount), size - amount, Element)
          /\ Wrapped(head + amount) \in Places
  BY <1>1, <1>3, WindowShrinks DEF FrontLeft
<1>8. FixedInv'
  BY <1>1, <1>3, <1>6, <1>7 DEF FixedInv
<1> QED BY <1>5, <1>6, <1>7, <1>8 DEF ring, head, size

-----------------------------------------------------------------------------
(* queue_port: the calls of the tasks.  What a task has taken is in its    *)
(* request until it returns.                                               *)
TakenBy(op) == IF op # None /\ op.name = "pop" /\ op.value # None THEN <<op.value>> ELSE << >>

Asks(c) ==
    c.pc # "idle" => /\ c.op \in [name : {"push", "pop"}, value : Task \cup {None}]
                     /\ c.op.name = "push" => c.op.value \in Task

Continues(c, d) == d.op = c.op /\ (c.pc = "idle" => d.pc = "idle")
Untaken(d) == Asks(d) /\ TakenBy(d.op) = << >>

(* One call, or none, hands on what it has; the others go on.              *)
CallsGoOn ==
    \/ \A u \in Task : Continues(task[u], task'[u])
    \/ \E t \in Task : /\ Untaken(task'[t])
                       /\ \A u \in Task \ {t} : Continues(task[u], task'[u])

(* A step of one task in a call *)
LEMMA OneGoesOn ==
    ASSUME CallsSound, NEW t \in Task, NEW d, task' = [task EXCEPT ![t] = d],
           Continues(task[t], d) \/ Untaken(d)
    PROVE  CallsGoOn
<1>1. \A u \in Task : task'[u] = IF u = t THEN d ELSE task[u]
  BY DEF CallsSound
<1> QED BY <1>1 DEF CallsGoOn, Continues

LEMMA GotoGoesOn ==
    ASSUME CallsSound, NEW t \in Task, ~At(t, "idle"), NEW pc, Goto(t, pc)
    PROVE  CallsGoOn
<1> DEFINE d == [task[t] EXCEPT !.pc = pc]
<1>1. task' = [task EXCEPT ![t] = d]
  BY DEF Goto
<1>2. Continues(task[t], d)
  BY DEF Continues, At, CallsSound, Sound, IsCall
<1> HIDE DEF d
<1> QED BY <1>1, <1>2, OneGoesOn

LEMMA ReturnGoesOn ==
    ASSUME CallsSound, NEW t \in Task, NEW status, Return(t, status)
    PROVE  CallsGoOn
<1> DEFINE d == Returned(task[t], status)
<1>1. task' = [task EXCEPT ![t] = d]
  BY DEF Return
<1>2. d.pc = "idle" /\ d.op = None
  BY DEF Returned, CallsSound, Sound, IsCall
<1> HIDE DEF d
<1>3. Untaken(d)
  BY <1>2 DEF Untaken, Asks, TakenBy
<1> QED BY <1>1, <1>3, OneGoesOn

LEMMA WokenGoOn ==
    ASSUME CallsSound, NEW woken \in SUBSET Asleep, NEW head, NEW t \in Task
    PROVE  Continues(task[t], Woken(task, woken, head)[t])
<1>1. CASE t \notin woken
  BY <1>1 DEF Woken, Continues
<1>2. CASE t \in woken
  <2> DEFINE d == [task[t] EXCEPT !.pc = head]
  <2>1. Woken(task, woken, head)[t] = d
    BY <1>2 DEF Woken
  <2>2. task[t].pc = "asleep"
    BY <1>2 DEF Asleep, At
  <2>3. d.op = task[t].op
    BY DEF CallsSound, Sound, IsCall
  <2> HIDE DEF d
  <2> QED BY <2>1, <2>2, <2>3 DEF Continues
<1> QED BY <1>1, <1>2

LEMMA BeginGoesOn ==
    ASSUME CallsSound, NEW t \in Task, Queue!Call(t)
    PROVE  CallsGoOn
<1> USE QueueShares
<1>1. PICK op \in [name : {"push", "pop"}, value : Task \cup {None}], blocking \in BOOLEAN :
          /\ op = [name |-> "push", value |-> t] \/ op = [name |-> "pop", value |-> None]
          /\ Begin(t, op, blocking)
  <2> DEFINE push == [name |-> "push", value |-> t]
             pop == [name |-> "pop", value |-> None]
  <2>1. /\ push \in [name : {"push", "pop"}, value : Task \cup {None}]
        /\ pop \in [name : {"push", "pop"}, value : Task \cup {None}]
    OBVIOUS
  <2>2. \E blocking \in BOOLEAN : Begin(t, push, blocking) \/ Begin(t, pop, blocking)
    BY DEF Queue!Call, Queue!CallPush, Queue!CallPop
  <2> HIDE DEF push, pop
  <2>3. CASE \E blocking \in BOOLEAN : Begin(t, push, blocking)
    BY <2>1, <2>3 DEF push
  <2>4. CASE \E blocking \in BOOLEAN : Begin(t, pop, blocking)
    BY <2>1, <2>4 DEF pop
  <2> QED BY <2>2, <2>3, <2>4
<1> DEFINE d == BegunWhen(task[t], op, blocking, Stopped)
<1>2. task' = [task EXCEPT ![t] = d]
  BY <1>1 DEF Begin, Begun, BegunWhen, InState, Stopped
<1>3. d.op = op
  BY DEF BegunWhen, CallsSound, Sound, IsCall
<1> HIDE DEF d
<1>4. TakenBy(op) = << >> /\ (op.name = "push" => op.value \in Task)
  BY <1>1 DEF TakenBy
<1>5. Untaken(d)
  BY <1>1, <1>3, <1>4 DEF Untaken, Asks
<1> QED BY <1>2, <1>5, OneGoesOn

(* A pop that finds an element is the only one that takes anything.        *)
LEMMA QueueCallsGoOn ==
    ASSUME CallsSound, subject = "queue", Queue!Next,
           \A t \in Task : ~(Queue!Pop(t) /\ object.size # 0)
    PROVE  CallsGoOn
<1> USE QueueShares
<1>1. CASE UNCHANGED task
  BY <1>1 DEF CallsGoOn, Continues
<1>2. ASSUME NEW t \in Task, NEW pc, ~At(t, "idle"), Goto(t, pc) PROVE CallsGoOn
  BY <1>2, GotoGoesOn
<1>3. ASSUME NEW t \in Task, NEW status, Return(t, status) PROVE CallsGoOn
  BY <1>3, ReturnGoesOn
<1>4. ASSUME NEW t \in Task, WaiterReset(t) PROVE CallsGoOn
  <2>1. Untaken(NoCall)
    BY DEF Untaken, Asks, TakenBy, NoCall
  <2> QED BY <1>4, <2>1, OneGoesOn DEF WaiterReset
<1>5. ASSUME NEW t \in Task, SignalOne(t, "check") PROVE CallsGoOn
  <2>1. PICK woken \in SUBSET Asleep :
            task' = [Woken(task, woken, "check") EXCEPT ![t] = Returned(@, "OK")]
    BY <1>5 DEF SignalOne
  <2> DEFINE d == Returned(Woken(task, woken, "check")[t], "OK")
  <2>2. \A u \in Task : task'[u] = IF u = t THEN d ELSE Woken(task, woken, "check")[u]
    BY <2>1 DEF Woken
  <2>3. d.pc = "idle" /\ d.op = None
    <3>1. Woken(task, woken, "check")[t] = task[t]
      BY <1>5 DEF Woken, SignalOne, Asleep, At
    <3> QED BY <3>1 DEF Returned, CallsSound, Sound, IsCall
  <2> HIDE DEF d
  <2>4. Untaken(d)
    BY <2>3 DEF Untaken, Asks, TakenBy
  <2> QED BY <2>2, <2>4, WokenGoOn DEF CallsGoOn
<1>6. CASE StateStore
  <2> DEFINE state == NextStore
  <2>1. \A t \in Task : task'[t] = Noted(task[t], t, state)
    BY <1>6 DEF StateStore
  <2> HIDE DEF state
  <2>2. ASSUME NEW t \in Task PROVE Continues(task[t], Noted(task[t], t, state))
    BY DEF Noted, Continues, CallsSound, Sound, IsCall
  <2> QED BY <2>1, <2>2 DEF CallsGoOn
<1>7. CASE CancelAll("check")
  <2>1. \A t \in Task : task'[t] = Woken(task, Asleep, "check")[t]
    BY <1>7 DEF CancelAll
  <2> QED BY <2>1, WokenGoOn DEF CallsGoOn
<1>8. ASSUME NEW t \in Task, Queue!TaskStep(t) PROVE CallsGoOn
  <2>1. CASE SignalOne(t, "check")
    BY <1>5, <2>1
  <2>2. CASE CommonStep(t, "check")
    <3>1. \/ WaiterReset(t)
          \/ ~At(t, "idle") /\ \E pc : Goto(t, pc)
          \/ \E status : Return(t, status)
      BY <2>2 DEF CommonStep, Recheck, Sleep, Timeout, WakeUp, At
    <3> QED BY <1>2, <1>3, <1>4, <3>1
  <2>3. CASE CheckReady(t) \/ CheckRefused(t)
    <3>1. ~At(t, "idle") /\ ((\E pc : Goto(t, pc)) \/ (\E status : Return(t, status)))
      BY <2>3 DEF CheckReady, CheckRefused, At
    <3> QED BY <1>2, <1>3, <3>1
  <2>4. CASE Queue!Push(t) \/ Queue!Pop(t)
    <3>1. ~At(t, "idle") /\ ((\E pc : Goto(t, pc)) \/ (\E status : NotNow(t, status)))
      BY <2>4 DEF Queue!Push, Queue!Pop, At
    <3> QED BY <1>2, <1>3, <3>1 DEF NotNow
  <2> QED BY <1>8, <2>1, <2>2, <2>3, <2>4 DEF Queue!TaskStep, Queue!TryCheck
<1>9. CASE Queue!Lifecycle
  <2>1. UNCHANGED task \/ StateStore \/ CancelAll("check")
    BY <1>9 DEF Queue!Lifecycle, Queue!PortInit, Queue!Start, Queue!Stop, Queue!Reset,
                Queue!Deinit, Queue!HeadStore, Queue!SizeStore, LifecycleCall
  <2> QED BY <1>1, <1>6, <1>7, <2>1
<1> QED BY <1>8, <1>9, BeginGoesOn DEF Queue!Next

-----------------------------------------------------------------------------
(* What the controller has yet to store: the head is always followed by    *)
(* the size, and the size, where it is not first, follows the head.        *)
QueueStores == {"head", "size", "READY", "STOPPED", "cancel_all", "DEINITIALIZED"}
Paired(stores) ==
    /\ stores \in Seq(QueueStores)
    /\ \A i \in 1 .. Len(stores) :
          /\ stores[i] = "head" => i < Len(stores) /\ stores[i + 1] = "size"
          /\ i > 1 /\ stores[i] = "size" => stores[i - 1] = "head"

(* The stores that are left after one was made *)
LEMMA NextOfPaired ==
    ASSUME NEW stores, Paired(stores), stores # << >>
    PROVE  /\ Paired(Tail(stores))
           /\ Tail(stores) # << >> /\ Head(Tail(stores)) = "size" <=> Head(stores) = "head"
<1> DEFINE rest == Tail(stores)
<1>1. /\ rest \in Seq(QueueStores) /\ Len(rest) = Len(stores) - 1 /\ Len(stores) \in Nat \ {0}
      /\ \A i \in 1 .. Len(rest) : rest[i] = stores[i + 1]
      /\ Head(stores) = stores[1]
  BY DEF Paired
<1>2. rest # << >> => Len(rest) # 0 /\ Head(rest) = rest[1]
  BY <1>1
<1> HIDE DEF rest
<1>3. rest = << >> => Len(rest) = 0
  OBVIOUS
<1>4. ASSUME NEW i \in 1 .. Len(rest)
      PROVE  /\ rest[i] = "head" => i < Len(rest) /\ rest[i + 1] = "size"
             /\ i > 1 /\ rest[i] = "size" => rest[i - 1] = "head"
  <2>1. i + 1 \in 1 .. Len(stores) /\ i + 1 > 1 /\ (i + 1) - 1 = i /\ i \in Int
    BY <1>1
  <2>2. /\ stores[i + 1] = "head" => i + 1 < Len(stores) /\ stores[(i + 1) + 1] = "size"
        /\ stores[i + 1] = "size" => stores[i] = "head"
    BY <2>1 DEF Paired
  <2>3. CASE rest[i] = "head"
    <3>1. i < Len(rest) /\ i + 1 \in 1 .. Len(rest)
      BY <1>1, <2>1, <2>2, <2>3
    <3> QED BY <1>1, <2>2, <2>3, <3>1
  <2>4. CASE i > 1 /\ rest[i] = "size"
    <3>1. i - 1 \in 1 .. Len(rest) /\ (i - 1) + 1 = i
      BY <2>1, <2>4
    <3> QED BY <1>1, <2>2, <2>4, <3>1
  <2> QED BY <2>3, <2>4
<1>5. Paired(rest)
  BY <1>1, <1>4 DEF Paired
<1>6. rest # << >> /\ Head(rest) = "size" <=> Head(stores) = "head"
  <2>1. /\ stores[1] = "head" => 1 < Len(stores) /\ stores[2] = "size"
        /\ Len(stores) > 1 /\ stores[2] = "size" => stores[1] = "head"
    <3>1. 1 \in 1 .. Len(stores)
      BY <1>1
    <3>2. stores[1] = "head" => 1 < Len(stores) /\ stores[1 + 1] = "size"
      BY <3>1 DEF Paired
    <3>3. ASSUME Len(stores) > 1, stores[2] = "size" PROVE stores[1] = "head"
      <4>1. 2 \in 1 .. Len(stores) /\ 2 > 1
        BY <1>1, <3>3
      <4>2. stores[2 - 1] = "head"
        BY <3>3, <4>1 DEF Paired
      <4> QED BY <4>2
    <3> QED BY <3>2, <3>3
  <2>2. Len(stores) > 1 => rest # << >> /\ Head(rest) = stores[2]
    <3>1. Len(stores) > 1 => 1 \in 1 .. Len(rest) /\ Len(rest) # 0
      BY <1>1
    <3> QED BY <1>1, <1>2, <1>3, <3>1
  <2>3. ~(Len(stores) > 1) => rest = << >>
    <3>1. ~(Len(stores) > 1) => Len(rest) = 0
      BY <1>1
    <3> QED BY <1>1, <3>1
  <2> QED BY <1>1, <2>1, <2>2, <2>3
<1> QED BY <1>5, <1>6 DEF rest

Ordered(stores) == Paired(stores) /\ (stores # << >> => Head(stores) # "size")

(* Every lifecycle call plans its stores in this order. *)
LEMMA CallsAreOrdered ==
    /\ Ordered(Queue!Emptied \o <<"READY">>)
    /\ Ordered(<<"STOPPED">> \o Queue!Emptied \o <<"cancel_all">>)
    /\ Ordered(Queue!Emptied) /\ Ordered(<<"DEINITIALIZED">>) /\ Ordered(<< >>)
<1>1. /\ <<"STOPPED">> \in Seq(QueueStores) /\ <<"head", "size">> \in Seq(QueueStores)
      /\ <<"READY">> \in Seq(QueueStores) /\ <<"cancel_all">> \in Seq(QueueStores)
      /\ <<"head", "size", "READY">> \in Seq(QueueStores)
      /\ <<"STOPPED", "head", "size">> \in Seq(QueueStores)
      /\ <<"STOPPED", "head", "size", "cancel_all">> \in Seq(QueueStores)
  BY DEF QueueStores
<1>2. <<"head", "size">> \o <<"READY">> = <<"head", "size", "READY">>
  <2> DEFINE s == <<"head", "size">> \o <<"READY">>
  <2>1. s \in Seq(QueueStores) /\ Len(s) = 3
    BY <1>1, ConcatProperties
  <2>2. s[1] = "head" /\ s[2] = "size" /\ s[3] = "READY"
    BY <1>1, ConcatProperties
  <2> HIDE DEF s
  <2>3. \A i \in 1 .. Len(s) : s[i] = <<"head", "size", "READY">>[i]
    BY <2>1, <2>2
  <2> QED BY <1>1, <2>1, <2>3, SeqEqual DEF s
<1>3. <<"STOPPED">> \o <<"head", "size">> = <<"STOPPED", "head", "size">>
  <2> DEFINE s == <<"STOPPED">> \o <<"head", "size">>
  <2>1. s \in Seq(QueueStores) /\ Len(s) = 3
    BY <1>1, ConcatProperties
  <2>2. s[1] = "STOPPED" /\ s[2] = "head" /\ s[3] = "size"
    BY <1>1, ConcatProperties
  <2> HIDE DEF s
  <2>3. \A i \in 1 .. Len(s) : s[i] = <<"STOPPED", "head", "size">>[i]
    BY <2>1, <2>2
  <2> QED BY <1>1, <2>1, <2>3, SeqEqual DEF s
<1>4. <<"STOPPED", "head", "size">> \o <<"cancel_all">>
          = <<"STOPPED", "head", "size", "cancel_all">>
  <2> DEFINE s == <<"STOPPED", "head", "size">> \o <<"cancel_all">>
  <2>1. s \in Seq(QueueStores) /\ Len(s) = 4
    BY <1>1, ConcatProperties
  <2>2. s[1] = "STOPPED" /\ s[2] = "head" /\ s[3] = "size" /\ s[4] = "cancel_all"
    BY <1>1, ConcatProperties
  <2> HIDE DEF s
  <2>3. \A i \in 1 .. Len(s) : s[i] = <<"STOPPED", "head", "size", "cancel_all">>[i]
    BY <2>1, <2>2
  <2> QED BY <1>1, <2>1, <2>3, SeqEqual DEF s
<1>5. Ordered(<<"head", "size", "READY">>)
  BY DEF Ordered, Paired, QueueStores
<1>6. Ordered(<<"STOPPED", "head", "size", "cancel_all">>)
  BY DEF Ordered, Paired, QueueStores
<1>7. Ordered(<<"head", "size">>) /\ Ordered(<<"DEINITIALIZED">>) /\ Ordered(<< >>)
  BY DEF Ordered, Paired, QueueStores
<1> QED BY <1>2, <1>3, <1>4, <1>5, <1>6, <1>7 DEF Queue!Emptied

-----------------------------------------------------------------------------
(* queue_port: its ring, which is in order except between the two stores   *)
(* that empty it.                                                          *)
QueueInv ==
    subject = "queue" =>
        /\ object = [ring |-> object.ring, head |-> object.head, size |-> object.size]
        /\ object.ring = [p \in Places |-> object.ring[p]]
        /\ object.head \in Places /\ object.size \in 0 .. Capacity
        /\ ~Queue!StoringSize => Filled(object.ring, object.head, object.size, Task)
        /\ Paired(port.controller)
        /\ \A t \in Task : Asks(task[t])

(* A queue begins empty, with nothing planned and nobody calling. *)
LEMMA QueueInit == Init => QueueInv
<1> SUFFICES ASSUME Init, subject = "queue" PROVE QueueInv
  BY DEF QueueInv
<1>1. /\ object = [ring |-> [i \in Places |-> None], head |-> 0, size |-> 0]
      /\ port.controller = << >> /\ \A t \in Task : task[t].pc = "idle"
  BY DEF Init, InitSubject, Queue!Init, Queue!InitWith, Queue!EmptyQueue, Queue!Slots, Places,
         Queue!NoCall
<1>2. 0 \in Places /\ 0 \in 0 .. Capacity /\ Capacity \in Nat
  BY CapacityAssumption DEF Places
<1> QED BY <1>1, <1>2, CallsAreOrdered DEF QueueInv, Filled, Asks, Ordered

(* Which store comes next *)
LEMMA StoreIsNext ==
    ASSUME Paired(port.controller), NextStore # "none",
           port'.controller = Tail(port.controller)
    PROVE  /\ Paired(port'.controller)
           /\ Queue!StoringSize <=> NextStore = "size"
           /\ Queue!StoringSize' <=> NextStore = "head"
<1>1. port.controller # << >> /\ NextStore = Head(port.controller)
  BY DEF NextStore
<1>2. /\ Paired(port'.controller)
      /\ port'.controller # << >> /\ Head(port'.controller) = "size"
             <=> Head(port.controller) = "head"
  BY <1>1, NextOfPaired
<1> QED BY <1>1, <1>2 DEF Queue!StoringSize, Queue!NextStore

(* Only the store of the head leads between the two stores. *)
LEMMA StoresGoOn ==
    ASSUME CallsSound, QueueInv, subject = "queue", Queue!Next
    PROVE  /\ Paired(port'.controller)
           /\ Queue!HeadStore => Queue!StoringSize'
           /\ Queue!SizeStore => Queue!StoringSize /\ ~Queue!StoringSize'
           /\ ~Queue!HeadStore /\ ~Queue!SizeStore => (Queue!StoringSize' <=> Queue!StoringSize)
<1> USE QueueShares
<1>0. /\ Queue!HeadStore => Stored("head") /\ NextStore = "head"
      /\ Queue!SizeStore => Stored("size") /\ NextStore = "size"
  <2>1. /\ Queue!HeadStore => Stored("head")
        /\ Queue!SizeStore => Stored("size")
    BY DEF Queue!HeadStore, Queue!SizeStore
  <2> QED BY <2>1 DEF Stored
<1>1. CASE UNCHANGED port /\ ~Queue!HeadStore /\ ~Queue!SizeStore
  BY <1>1 DEF QueueInv, Queue!StoringSize, Queue!NextStore
<1>2. ASSUME NEW states, NEW stores, Ordered(stores), LifecycleCall(states, stores)
      PROVE  /\ Paired(port'.controller) /\ ~Queue!HeadStore /\ ~Queue!SizeStore
             /\ ~Queue!StoringSize /\ ~Queue!StoringSize'
  <2>1. NextStore = "none" /\ port'.controller = stores
    BY <1>2 DEF LifecycleCall, CallsSound
  <2>2. ~Queue!HeadStore /\ ~Queue!SizeStore
    BY <1>0, <2>1
  <2> QED BY <1>2, <2>1, <2>2 DEF Ordered, Queue!StoringSize, Queue!NextStore, NextStore
<1>3. ASSUME NEW field, field \in {"head", "size", "cancel_all"}, Stored(field)
      PROVE  /\ Paired(port'.controller) /\ NextStore = field
             /\ Queue!StoringSize <=> field = "size"
             /\ Queue!StoringSize' <=> field = "head"
  <2>1. NextStore = field /\ port'.controller = Tail(port.controller)
    BY <1>3 DEF Stored, CallsSound
  <2> QED BY <1>3, <2>1, StoreIsNext DEF QueueInv
<1>4. CASE Queue!HeadStore
  BY <1>0, <1>3, <1>4
<1>5. CASE Queue!SizeStore
  BY <1>0, <1>3, <1>5
<1>6. CASE StateStore /\ ~Queue!HeadStore /\ ~Queue!SizeStore
  <2>1. NextStore \in {"READY", "STOPPED", "DEINITIALIZED"}
        /\ port'.controller = Tail(port.controller)
    BY <1>6 DEF StateStore
  <2> QED BY <1>6, <2>1, StoreIsNext DEF QueueInv
<1>7. CASE CancelAll("check") /\ ~Queue!HeadStore /\ ~Queue!SizeStore
  <2>1. Stored("cancel_all")
    BY <1>7 DEF CancelAll
  <2> QED BY <1>3, <1>7, <2>1
<1>8. CASE \/ Queue!PortInit \/ Queue!Start \/ Queue!Stop \/ Queue!Reset \/ Queue!Deinit
  BY <1>2, <1>8, CallsAreOrdered
  DEF Queue!PortInit, Queue!Start, Queue!Stop, Queue!Reset, Queue!Deinit
<1>9. CASE ~Queue!Lifecycle
  <2>1. ~Queue!HeadStore /\ ~Queue!SizeStore
    BY <1>9 DEF Queue!Lifecycle
  <2>2. PICK t \in Task : Queue!Call(t) \/ Queue!TaskStep(t)
    BY <1>9 DEF Queue!Next
  <2>3. CASE Queue!Call(t)
    BY <1>1, <2>1, <2>3 DEF Queue!Call, Queue!CallPush, Queue!CallPop, Begin
  <2>4. CASE Queue!TaskStep(t)
    BY <1>1, <2>1, <2>4 DEF Queue!TaskStep, Queue!TryCheck, Queue!Push, Queue!Pop, SignalOne,
       CommonStep, CheckReady, CheckRefused, WaiterReset, Recheck, Sleep, Timeout, WakeUp
  <2> QED BY <2>2, <2>3, <2>4
<1> QED BY <1>4, <1>5, <1>6, <1>7, <1>8, <1>9 DEF Queue!Lifecycle

-----------------------------------------------------------------------------
(* The abstract channel, of either queue *)
LEMMA ContentIsWindow ==
    FixedInv /\ QueueInv =>
        ChannelContent = IF subject = "fixed" \/ (subject = "queue" /\ ~Queue!StoringSize)
                         THEN Window(object.ring, object.head, object.size) ELSE << >>
<1> SUFFICES ASSUME FixedInv, QueueInv
             PROVE  ChannelContent =
                        IF subject = "fixed" \/ (subject = "queue" /\ ~Queue!StoringSize)
                        THEN Window(object.ring, object.head, object.size) ELSE << >>
  OBVIOUS
<1>1. CASE subject = "fixed"
  BY <1>1, FixedContent DEF ChannelContent
<1>2. CASE subject = "queue"
  <2>1. ASSUME NEW i \in 1 .. object.size
        PROVE  object.ring[(object.head + i - 1) % Capacity]
                   = object.ring[Wrapped(object.head + i - 1)]
    <3>1. /\ i - 1 \in 0 .. Capacity /\ object.head \in Places
          /\ object.head + (i - 1) = object.head + i - 1
      BY <1>2, CapacityAssumption DEF QueueInv, Places
    <3> QED BY <3>1, RoundTheRing
  <2>2. Queue!Content = IF Queue!StoringSize THEN << >>
                        ELSE Window(object.ring, object.head, object.size)
    BY <2>1 DEF Queue!Content, Window
  <2> QED BY <1>2, <2>2 DEF ChannelContent
<1>3. CASE subject # "fixed" /\ subject # "queue"
  BY <1>3 DEF ChannelContent
<1> QED BY <1>1, <1>2, <1>3

Received ==
    [user \in Task \cup {"caller"} |->
        IF subject = "queue" /\ user \in Task THEN TakenBy(task[user].op)
        ELSE IF subject = "fixed" /\ user = "caller" THEN task ELSE << >>]

(* What the takers have, by task *)
LEMMA TakenIsReceived == ChannelTaken = Received
BY DEF ChannelTaken, TakenBy, Queue!Taken, Received

(* A call that goes on still asks for the same. *)
LEMMA CallsStillAsk ==
    ASSUME CallsGoOn, \A t \in Task : Asks(task[t])
    PROVE  \A t \in Task : Asks(task'[t])
BY DEF CallsGoOn, Continues, Asks, Untaken

(* Calls that take nothing hand on what one had, or leave all as it was.   *)
LEMMA CallsHandOn ==
    ASSUME CallsGoOn, \A t \in Task : Asks(task[t]), subject = "queue", subject' = subject,
           UNCHANGED ChannelContent
    PROVE  ChannelAbstract!Next \/ UNCHANGED <<ChannelContent, ChannelTaken>>
<1>1. ASSUME NEW t \in Task, Continues(task[t], task'[t])
      PROVE  TakenBy(task'[t].op) = TakenBy(task[t].op)
  BY <1>1 DEF Continues
<1> DEFINE Users == Task \cup {"caller"}
           before == [t \in Users |-> IF t \in Task THEN TakenBy(task[t].op) ELSE << >>]
           after == [t \in Users |-> IF t \in Task THEN TakenBy(task'[t].op) ELSE << >>]
<1>2. ChannelTaken = before
  BY TakenIsReceived DEF Received
<1>3. ChannelTaken' = after
  <2>1. (ChannelTaken = Received)'
    BY TakenIsReceived, PTL
  <2> QED BY <2>1 DEF Received
<1>4. CASE \A t \in Task : Continues(task[t], task'[t])
  <2>1. before = after
    BY <1>1, <1>4
  <2> QED BY <1>2, <1>3, <2>1
<1>5. ASSUME NEW t \in Task, Untaken(task'[t]),
             \A u \in Task \ {t} : Continues(task[u], task'[u])
      PROVE  ChannelAbstract!HandOn(t)
  <2>1. TakenBy(task'[t].op) = << >>
    BY <1>5 DEF Untaken
  <2>2. after = [before EXCEPT ![t] = << >>]
    BY <1>1, <1>5, <2>1
  <2> QED BY <1>2, <1>3, <2>2 DEF ChannelAbstract!HandOn
<1>6. ASSUME NEW t \in Task, ChannelAbstract!HandOn(t) PROVE ChannelAbstract!Next
  BY <1>6 DEF ChannelAbstract!Next
<1> QED BY <1>4, <1>5, <1>6 DEF CallsGoOn

(* The channel after a step that keeps the invariant *)
LEMMA NextContent ==
    ASSUME QueueInv, QueueInv', subject = "queue", subject' = subject
    PROVE  /\ ChannelContent = IF Queue!StoringSize THEN << >>
                               ELSE Window(object.ring, object.head, object.size)
           /\ ChannelContent' = IF Queue!StoringSize' THEN << >>
                                ELSE Window(object'.ring, object'.head, object'.size)
<1>1. FixedInv /\ FixedInv'
  BY DEF FixedInv
<1>2. (FixedInv /\ QueueInv =>
        ChannelContent = IF subject = "fixed" \/ (subject = "queue" /\ ~Queue!StoringSize)
                         THEN Window(object.ring, object.head, object.size) ELSE << >>)'
  BY ContentIsWindow, PTL
<1> QED BY <1>1, <1>2, ContentIsWindow DEF Window

(* A window of no elements is empty. *)
LEMMA EmptyWindow ==
    ASSUME NEW ring, NEW head
    PROVE  Window(ring, head, 0) = << >>
BY DEF Window

(* Steps that leave the ring alone *)
LEMMA QueueUndisturbed ==
    ASSUME CallsSound, QueueInv, subject = "queue", subject' = subject, Queue!Next,
           UNCHANGED object, ~Queue!HeadStore, ~Queue!SizeStore, CallsGoOn
    PROVE  QueueInv' /\ UNCHANGED ChannelContent
<1>1. /\ Paired(port'.controller) /\ (Queue!StoringSize' <=> Queue!StoringSize)
      /\ \A t \in Task : Asks(task'[t])
  BY StoresGoOn, CallsStillAsk DEF QueueInv
<1>2. QueueInv'
  BY <1>1 DEF QueueInv
<1> QED BY <1>1, <1>2, NextContent

(* A push into a queue with room *)
LEMMA QueuePushes ==
    ASSUME CallsSound, QueueInv, subject = "queue", subject' = subject, Queue!Next,
           NEW t \in Task, Queue!Push(t), object.size # Capacity, CallsGoOn,
           ~Queue!HeadStore, ~Queue!SizeStore
    PROVE  /\ QueueInv'
           /\ UNCHANGED ChannelContent
              \/ /\ Len(ChannelContent') \in Len(ChannelContent) + 1 .. Capacity
                 /\ SubSeq(ChannelContent', 1, Len(ChannelContent)) = ChannelContent
                 /\ \A i \in 1 .. Len(ChannelContent') : ChannelContent'[i] \in Task
<1> DEFINE ring == object.ring
           head == object.head
           size == object.size
           place == (head + size) % Capacity
           element == task[t].op.value
           other == [ring EXCEPT ![place] = element]
           larger == size + 1
<1>1. /\ Paired(port'.controller) /\ (Queue!StoringSize' <=> Queue!StoringSize)
      /\ \A u \in Task : Asks(task'[u])
  BY StoresGoOn, CallsStillAsk DEF QueueInv
<1>2. element \in Task
  BY QueueShares DEF Queue!Push, At, QueueInv, Asks
<1>3. /\ head \in Places /\ size \in 0 .. Capacity /\ size # Capacity
      /\ ring = [p \in Places |-> ring[p]]
      /\ ~Queue!StoringSize => Filled(ring, head, size, Task)
      /\ object = [ring |-> ring, head |-> head, size |-> size]
  BY DEF QueueInv
<1>4. /\ size \in Int /\ size >= 0 /\ Capacity \in Nat \ {0} /\ larger \in size + 1 .. Capacity
      /\ larger \in 0 .. Capacity /\ size \in 0 .. Capacity - 1
  BY <1>3, CapacityAssumption
<1>5. object' = [object EXCEPT !.ring[place] = element, !.size = @ + 1]
  BY DEF Queue!Push, Queue!PushLocked
<1>6. place = Wrapped(head + size) /\ place \in Places
  BY <1>3, RoundTheRing
<1>7. object' = [ring |-> other, head |-> head, size |-> larger]
  BY <1>3, <1>5
<1> HIDE DEF ring, head, size, place, element, larger
<1>8. \A p \in Places : other[p] = IF p = place THEN element ELSE ring[p]
  BY <1>3
<1>9. other = [p \in Places |-> other[p]]
  BY <1>3
<1> HIDE DEF other
<1>10. ASSUME NEW k \in 0 .. size - 1
       PROVE  other[Wrapped(head + k)] = ring[Wrapped(head + k)]
  <2>1. k \in 0 .. Capacity - 1 /\ k \in 0 .. Capacity /\ k # size
    BY <1>4
  <2>2. Wrapped(head + k) \in Places
    BY <1>3, <2>1, RoundTheRing
  <2>3. Wrapped(head + k) # place
    BY <1>3, <1>4, <1>6, <2>1, PlacesDiffer
  <2> QED BY <1>8, <2>2, <2>3
<1>11. ASSUME ~Queue!StoringSize PROVE Filled(other, head, larger, Task)
  <2>1. ASSUME NEW k \in 0 .. larger - 1 PROVE other[Wrapped(head + k)] \in Task
    <3>1. CASE k \in 0 .. size - 1
      BY <1>3, <1>10, <1>11, <3>1 DEF Filled
    <3>2. CASE k \notin 0 .. size - 1
      <4>1. k = size
        BY <1>4, <3>2 DEF larger
      <4> QED BY <1>2, <1>6, <1>8, <4>1
    <3> QED BY <3>1, <3>2
  <2> QED BY <2>1 DEF Filled
<1>12. /\ object'.ring = other /\ object'.head = head /\ object'.size = larger
       /\ object' = [ring |-> object'.ring, head |-> object'.head, size |-> object'.size]
  BY <1>7
<1>13. QueueInv'
  BY <1>1, <1>3, <1>4, <1>9, <1>11, <1>12 DEF QueueInv
<1>14. CASE Queue!StoringSize
  BY <1>1, <1>13, <1>14, NextContent
<1>15. CASE ~Queue!StoringSize
  <2>1. /\ ChannelContent = Window(ring, head, size)
        /\ ChannelContent' = Window(other, head, larger)
    BY <1>1, <1>12, <1>13, <1>15, NextContent DEF ring, head, size
  <2>2. LET old == Window(ring, head, size)
            new == Window(other, head, larger)
        IN  /\ Len(new) \in Len(old) + 1 .. Capacity
            /\ SubSeq(new, 1, Len(old)) = old
            /\ \A i \in 1 .. Len(new) : new[i] \in Task
    BY <1>3, <1>4, <1>10, <1>11, <1>15, WindowGrows
  <2> QED BY <1>13, <2>1, <2>2
<1> QED BY <1>14, <1>15

(* What a pop leaves of its call *)
LEMMA PoppedCall ==
    ASSUME CallsSound, QueueInv, subject = "queue", NEW t \in Task, Queue!Pop(t), object.size # 0
    PROVE  LET value == IF Queue!StoringSize THEN None ELSE object.ring[object.head]
           IN  /\ task'[t].op = [name |-> "pop", value |-> value]
               /\ task'[t].pc = "signal"
               /\ \A u \in Task \ {t} : task'[u] = task[u]
<1> DEFINE value == IF Queue!StoringSize THEN None ELSE object.ring[object.head]
           op == task[t].op
<1>1. task' = [task EXCEPT ![t].pc = "signal", ![t].op.value = value]
  BY Zenon DEF Queue!Pop
<1>2. /\ op \in [name : {"push", "pop"}, value : Task \cup {None}] /\ op.name = "pop"
  <2>1. At(t, "body") /\ op.name = "pop"
    BY QueueShares DEF Queue!Pop
  <2>2. Asks(task[t])
    BY DEF QueueInv
  <2> QED BY <2>1, <2>2 DEF Asks, At
<1> HIDE DEF value
<1>3. task = [u \in Task |-> task[u]] /\ IsCall(task[t])
  BY DEF CallsSound, Sound
<1>4. task'[t].pc = "signal" /\ task'[t].op = [op EXCEPT !.value = value]
  BY <1>1, <1>3 DEF IsCall
<1>5. \A u \in Task \ {t} : task'[u] = task[u]
  BY <1>1, <1>3
<1>6. [op EXCEPT !.value = value] = [name |-> "pop", value |-> value]
  <2> HIDE DEF op
  <2> QED BY <1>2
<1> QED BY <1>4, <1>5, <1>6 DEF value

(* A pop from a queue that is not empty *)
LEMMA QueuePops ==
    ASSUME CallsSound, QueueInv, subject = "queue", subject' = subject, Queue!Next,
           NEW t \in Task, Queue!Pop(t), object.size # 0, ~Queue!HeadStore, ~Queue!SizeStore
    PROVE  QueueInv' /\ ChannelAbstract!Next
<1> DEFINE ring == object.ring
           head == object.head
           size == object.size
           other == [ring EXCEPT ![head] = None]
           value == IF Queue!StoringSize THEN None ELSE ring[head]
           next == Wrapped(head + 1)
<1>1. /\ Paired(port'.controller) /\ (Queue!StoringSize' <=> Queue!StoringSize)
  BY StoresGoOn
<1>2. /\ head \in Places /\ size \in 0 .. Capacity /\ size # 0
      /\ ring = [p \in Places |-> ring[p]]
      /\ ~Queue!StoringSize => Filled(ring, head, size, Task)
      /\ object = [ring |-> ring, head |-> head, size |-> size]
  BY DEF QueueInv
<1>3. /\ size \in Int /\ head \in Int /\ Capacity \in Nat \ {0} /\ 1 \in 1 .. size
      /\ size - 1 \in 0 .. Capacity
      /\ 1 \in 0 .. Capacity /\ 0 \in 0 .. size - 1 /\ 0 \in 0 .. Capacity - 1 /\ size <= Capacity
  BY <1>2, CapacityAssumption DEF Places
<1>4. /\ task'[t].op = [name |-> "pop", value |-> value] /\ task'[t].pc = "signal"
      /\ \A u \in Task \ {t} : task'[u] = task[u]
  BY PoppedCall
<1>5. object' = [object EXCEPT !.ring[head] = None, !.head = (@ + 1) % Capacity, !.size = @ - 1]
  BY DEF Queue!Pop, Queue!PopLocked
<1>6. (head + 1) % Capacity = next /\ next \in Places
  BY <1>2, <1>3, RoundTheRing
<1> HIDE DEF next
<1>7. object' = [ring |-> other, head |-> next, size |-> size - 1]
  BY <1>2, <1>5, <1>6
<1> HIDE DEF ring, head, size
<1>8. /\ \A p \in Places : p # head => other[p] = ring[p]
      /\ other = [p \in Places |-> other[p]]
  BY <1>2
<1> HIDE DEF other
<1>9. /\ object'.ring = other /\ object'.head = next /\ object'.size = size - 1
      /\ object' = [ring |-> object'.ring, head |-> object'.head, size |-> object'.size]
  BY <1>7
<1>10. Wrapped(head + 0) = head
  BY <1>2, <1>3 DEF Wrapped, Places
<1>11. ASSUME NEW k \in 1 .. size - 1
       PROVE  other[Wrapped(head + k)] = ring[Wrapped(head + k)]
  <2>1. k \in 0 .. Capacity - 1 /\ k \in 0 .. Capacity /\ k # 0
    BY <1>2, <1>3
  <2>2. Wrapped(head + k) \in Places
    BY <1>2, <2>1, RoundTheRing
  <2>3. Wrapped(head + k) # head
    BY <1>2, <1>3, <1>10, <2>1, PlacesDiffer
  <2> QED BY <1>8, <2>2, <2>3
<1>12. ASSUME ~Queue!StoringSize PROVE FrontLeft(ring, other, head, size, 1, Task)
  <2>1. Filled(ring, head, size, Task) /\ head \in Places /\ size \in 0 .. Capacity
    BY <1>2, <1>12
  <2> QED BY <1>3, <1>11, <2>1, WindowShrinks
<1>13. ~Queue!StoringSize => value \in Task
  BY <1>2, <1>3, <1>10 DEF Filled, value
<1>14. /\ value \in Task \cup {None}
       /\ Queue!StoringSize => value = None
  BY <1>13 DEF value
<1> HIDE DEF value
<1>15. \A u \in Task : Asks(task'[u])
  <2>1. Asks(task'[t])
    BY <1>4, <1>14 DEF Asks
  <2> QED BY <1>4, <2>1 DEF QueueInv
<1>16. QueueInv'
  BY <1>1, <1>3, <1>6, <1>8, <1>9, <1>12, <1>15 DEF QueueInv, next, FrontLeft
<1>17. CASE Queue!StoringSize
  <2>1. UNCHANGED ChannelContent
    BY <1>1, <1>16, <1>17, NextContent
  <2>2. ChannelTaken' = [ChannelTaken EXCEPT ![t] = << >>]
    <3>1. TakenBy(task'[t].op) = << >>
      BY <1>4, <1>14, <1>17 DEF TakenBy
    <3>2. (ChannelTaken = Received)'
      BY TakenIsReceived, PTL
    <3> QED BY <1>4, <3>1, <3>2, TakenIsReceived DEF Received
  <2> QED BY <1>16, <2>1, <2>2 DEF ChannelAbstract!Next, ChannelAbstract!HandOn
<1>18. CASE ~Queue!StoringSize
  <2> DEFINE old == Window(ring, head, size)
  <2>1. ChannelContent = old /\ ChannelContent' = SubSeq(old, 1 + 1, Len(old))
    BY <1>1, <1>9, <1>12, <1>16, <1>18, NextContent DEF ring, head, size, next, FrontLeft
  <2>2. SubSeq(old, 1, 1) = <<value>>
    <3>1. head + 1 - 1 = head + 0
      BY <1>3
    <3>2. ring[Wrapped(head + 1 - 1)] = value
      BY <1>10, <1>18, <3>1 DEF value
    <3>3. Window(ring, head, 1) = [i \in 1 .. 1 |-> value]
      BY <3>2 DEF Window
    <3>4. SubSeq(old, 1, 1) = Window(ring, head, 1)
      BY <1>12, <1>18 DEF FrontLeft
    <3>5. [i \in 1 .. 1 |-> value] = <<value>>
      OBVIOUS
    <3> HIDE DEF old
    <3> QED BY <3>3, <3>4, <3>5
  <2>3. TakenBy(task'[t].op) = <<value>>
    <3>1. value # None /\ [name |-> "pop", value |-> value] # None
      <4>1. [name |-> "pop", value |-> value] \in [name : {"pop"}, value : Task]
        BY <1>13, <1>18
      <4> QED BY <1>13, <1>18, <4>1, NoneAssumption, RequestAssumption
    <3> QED BY <1>4, <3>1 DEF TakenBy
  <2>4. ChannelTaken' = [ChannelTaken EXCEPT ![t] = SubSeq(old, 1, 1)]
    <3>1. (ChannelTaken = Received)'
      BY TakenIsReceived, PTL
    <3> QED BY <1>4, <2>2, <2>3, <3>1, TakenIsReceived DEF Received
  <2>5. ChannelAbstract!Take(t)
    BY <1>12, <1>18, <2>1, <2>4 DEF ChannelAbstract!Take, FrontLeft
  <2> QED BY <1>16, <2>5 DEF ChannelAbstract!Next
<1> QED BY <1>17, <1>18

(* The two stores that empty the queue *)
LEMMA QueueEmptied ==
    ASSUME CallsSound, QueueInv, subject = "queue", subject' = subject, Queue!Next,
           Queue!HeadStore \/ Queue!SizeStore, CallsGoOn
    PROVE  /\ QueueInv' /\ ChannelContent' = << >>
           /\ Queue!HeadStore => UNCHANGED ChannelTaken
           /\ Queue!SizeStore => UNCHANGED ChannelContent
<1>1. /\ Paired(port'.controller)
      /\ Queue!HeadStore => Queue!StoringSize'
      /\ Queue!SizeStore => Queue!StoringSize /\ ~Queue!StoringSize'
      /\ \A t \in Task : Asks(task'[t])
  BY StoresGoOn, CallsStillAsk DEF QueueInv
<1>2. 0 \in Places /\ 0 \in 0 .. Capacity /\ Capacity \in Nat
  BY CapacityAssumption DEF Places
<1>3. /\ object = [ring |-> object.ring, head |-> object.head, size |-> object.size]
      /\ object.ring = [p \in Places |-> object.ring[p]]
      /\ object.head \in Places /\ object.size \in 0 .. Capacity
  BY DEF QueueInv
<1>4. CASE Queue!HeadStore
  <2>1. object' = [object EXCEPT !.head = 0] /\ UNCHANGED task
    BY <1>4 DEF Queue!HeadStore
  <2>2. /\ object' = [ring |-> object.ring, head |-> 0, size |-> object.size]
    BY <1>3, <2>1
  <2>3. QueueInv'
    BY <1>1, <1>2, <1>3, <1>4, <2>2 DEF QueueInv
  <2>4. UNCHANGED ChannelTaken
    <3>1. (ChannelTaken = Received)'
      BY TakenIsReceived, PTL
    <3> QED BY <2>1, <3>1, TakenIsReceived DEF Received
  <2>5. ChannelContent' = << >> /\ ~Queue!SizeStore
    BY <1>1, <1>4, <2>3, NextContent
  <2> QED BY <2>3, <2>4, <2>5
<1>5. CASE Queue!SizeStore
  <2>1. object' = [ring |-> [p \in Places |-> None], head |-> object.head, size |-> 0]
    BY <1>5 DEF Queue!SizeStore, Queue!EmptyQueue, Queue!Slots, Places
  <2>2. Filled(object'.ring, object'.head, object'.size, Task)
    BY <2>1 DEF Filled
  <2>3. QueueInv'
    BY <1>1, <1>2, <1>3, <2>1, <2>2 DEF QueueInv
  <2>4. ChannelContent = << >>
    BY <1>1, <1>5, <2>3, NextContent
  <2>5. ChannelContent' = << >>
    BY <1>1, <1>5, <2>1, <2>3, NextContent, EmptyWindow
  <2>6. ~Queue!HeadStore
    BY <1>1, <1>5
  <2> QED BY <2>3, <2>4, <2>5, <2>6
<1> QED BY <1>4, <1>5

(* Whatever a task or the controller does to a queue is a step of a channel. *)
LEMMA QueueStep ==
    ASSUME CallsSound, QueueInv, subject = "queue", subject' = subject, Queue!Next
    PROVE  QueueInv' /\ (ChannelAbstract!Next \/ UNCHANGED <<ChannelContent, ChannelTaken>>)
<1>1. \A t \in Task : Asks(task[t])
  BY DEF QueueInv
<1>2. CASE Queue!HeadStore \/ Queue!SizeStore
  <2>1. CallsGoOn
    BY <1>2 DEF CallsGoOn, Continues, Queue!HeadStore, Queue!SizeStore
  <2>2. /\ QueueInv' /\ ChannelContent' = << >>
        /\ Queue!HeadStore => UNCHANGED ChannelTaken
        /\ Queue!SizeStore => UNCHANGED ChannelContent
    BY <1>2, <2>1, QueueEmptied
  <2>3. CASE Queue!HeadStore
    BY <2>2, <2>3 DEF ChannelAbstract!Next, ChannelAbstract!Clear
  <2>4. CASE Queue!SizeStore
    BY <1>1, <2>1, <2>2, <2>4, CallsHandOn
  <2> QED BY <1>2, <2>2, <2>3, <2>4
<1>3. CASE ~Queue!HeadStore /\ ~Queue!SizeStore /\ \E t \in Task : Queue!Pop(t) /\ object.size # 0
  BY <1>3, QueuePops
<1>4. CASE ~Queue!HeadStore /\ ~Queue!SizeStore /\ ~\E t \in Task : Queue!Pop(t) /\ object.size # 0
  <2>1. CallsGoOn
    BY <1>4, QueueCallsGoOn
  <2>2. CASE UNCHANGED object
    BY <1>1, <1>4, <2>1, <2>2, QueueUndisturbed, CallsHandOn
  <2>3. CASE \E t \in Task : Queue!Push(t) /\ object.size # Capacity
    <3>1. PICK t \in Task : Queue!Push(t) /\ object.size # Capacity
      BY <2>3
    <3>2. /\ QueueInv'
          /\ UNCHANGED ChannelContent
             \/ /\ Len(ChannelContent') \in Len(ChannelContent) + 1 .. Capacity
                /\ SubSeq(ChannelContent', 1, Len(ChannelContent)) = ChannelContent
                /\ \A i \in 1 .. Len(ChannelContent') : ChannelContent'[i] \in Task
      BY <1>4, <2>1, <3>1, QueuePushes
    <3>3. CASE UNCHANGED ChannelContent
      BY <1>1, <2>1, <3>2, <3>3, CallsHandOn
    <3>4. CASE ~UNCHANGED ChannelContent
      <4>1. UNCHANGED ChannelTaken
        <5>1. (ChannelTaken = Received)'
          BY TakenIsReceived, PTL
        <5>2. task' = [task EXCEPT ![t].pc = "signal"]
          BY <3>1, QueueShares DEF Queue!Push, Goto
        <5>3. \A u \in Task : task'[u].op = task[u].op
          BY <5>2 DEF CallsSound, Sound, IsCall
        <5> QED BY <5>1, <5>3, TakenIsReceived DEF Received
      <4> QED BY <3>2, <3>4, <4>1 DEF ChannelAbstract!Next, ChannelAbstract!Put
    <3> QED BY <3>2, <3>3, <3>4
  <2>4. UNCHANGED object \/ \E t \in Task : Queue!Push(t) /\ object.size # Capacity
    <3>1. CASE Queue!Lifecycle
      BY <1>4, <3>1, QueueShares DEF Queue!Lifecycle, Queue!PortInit, Queue!Start, Queue!Stop,
         Queue!Reset, Queue!Deinit, LifecycleCall, StateStore, CancelAll
    <3>2. ASSUME NEW t \in Task, Queue!Call(t) PROVE UNCHANGED object
      BY <3>2, QueueShares DEF Queue!Call, Queue!CallPush, Queue!CallPop, Begin
    <3>3. ASSUME NEW t \in Task, Queue!TaskStep(t), ~Queue!Push(t), ~Queue!Pop(t)
          PROVE  UNCHANGED object
      BY <3>3, QueueShares DEF Queue!TaskStep, Queue!TryCheck, SignalOne, CommonStep, CheckReady,
         CheckRefused, WaiterReset, Recheck, Sleep, Timeout, WakeUp
    <3>4. ASSUME NEW t \in Task, Queue!Push(t), object.size = Capacity PROVE UNCHANGED object
      BY <3>4 DEF Queue!Push
    <3>5. ASSUME NEW t \in Task, Queue!Pop(t), object.size = 0 PROVE UNCHANGED object
      BY <3>5 DEF Queue!Pop
    <3> QED BY <1>4, <3>1, <3>2, <3>3, <3>4, <3>5 DEF Queue!Next
  <2> QED BY <2>2, <2>3, <2>4
<1> QED BY <1>2, <1>3, <1>4

(* A batch goes in at the end, or comes out at the head. *)
LEMMA FixedStep ==
    ASSUME FixedInv, QueueInv, QueueInv', subject = "fixed", subject' = subject, Fixed!Next
    PROVE  FixedInv' /\ (ChannelAbstract!Next \/ UNCHANGED <<ChannelContent, ChannelTaken>>)
<1> DEFINE old == Window(object.ring, object.head, object.size)
           new == Window(object'.ring, object'.head, object'.size)
<1>1. ChannelContent = old
  BY ContentIsWindow
<1>2. ASSUME FixedInv' PROVE ChannelContent' = new
  <2>1. (FixedInv /\ QueueInv =>
            ChannelContent = IF subject = "fixed" \/ (subject = "queue" /\ ~Queue!StoringSize)
                             THEN Window(object.ring, object.head, object.size) ELSE << >>)'
    BY ContentIsWindow, PTL
  <2> QED BY <1>2, <2>1 DEF Window
<1>3. ChannelTaken = [user \in Task \cup {"caller"} |-> IF user = "caller" THEN task ELSE << >>]
  BY TakenIsReceived DEF Received
<1>4. ChannelTaken' = [user \in Task \cup {"caller"} |-> IF user = "caller" THEN task' ELSE << >>]
  <2>1. (ChannelTaken = Received)'
    BY TakenIsReceived, PTL
  <2> QED BY <2>1 DEF Received
<1> HIDE DEF old, new
<1>5. ASSUME NEW batch \in Batches, Fixed!Push(batch)
      PROVE  FixedInv' /\ (ChannelAbstract!Next \/ UNCHANGED <<ChannelContent, ChannelTaken>>)
  <2>1. /\ FixedInv' /\ UNCHANGED task
        /\ \/ new = old
           \/ /\ Len(new) \in Len(old) + 1 .. Capacity
              /\ SubSeq(new, 1, Len(old)) = old
              /\ \A i \in 1 .. Len(new) : new[i] \in Element
    BY <1>5, BatchWritten DEF old, new
  <2>2. ChannelContent' = new /\ UNCHANGED ChannelTaken
    BY <1>2, <1>3, <1>4, <2>1
  <2> QED BY <1>1, <2>1, <2>2 DEF ChannelAbstract!Next, ChannelAbstract!Put
<1>6. ASSUME NEW count \in 1 .. Capacity + 1, Fixed!Pop(count)
      PROVE  FixedInv' /\ ChannelAbstract!Next
  <2>1. /\ FixedInv'
        /\ \E n \in 1 .. Len(old) : task' = SubSeq(old, 1, n) /\ new = SubSeq(old, n + 1, Len(old))
    BY <1>6, BatchRead DEF old, new
  <2>2. PICK n \in 1 .. Len(old) : task' = SubSeq(old, 1, n) /\ new = SubSeq(old, n + 1, Len(old))
    BY <2>1
  <2>3. ChannelContent' = SubSeq(ChannelContent, n + 1, Len(ChannelContent))
    BY <1>1, <1>2, <2>1, <2>2
  <2>4. ChannelTaken' = [ChannelTaken EXCEPT !["caller"] = SubSeq(ChannelContent, 1, n)]
    BY <1>1, <1>3, <1>4, <2>2
  <2>5. ChannelAbstract!Take("caller")
    BY <1>1, <2>3, <2>4 DEF ChannelAbstract!Take
  <2> QED BY <2>1, <2>5 DEF ChannelAbstract!Next
<1>7. CASE Fixed!QueueInit
  <2>1. /\ object' = [ring |-> object.ring, head |-> 0, size |-> 0, rejected |-> 0,
                       high_water |-> 0]
        /\ UNCHANGED task
    BY <1>7 DEF Fixed!QueueInit, Fixed!NewQueue
  <2>2. /\ 0 \in Places /\ 0 \in 0 .. Capacity /\ Capacity \in Nat
        /\ object.ring = [p \in Places |-> object.ring[p]]
    BY CapacityAssumption DEF Places, FixedInv
  <2>3. FixedInv'
    BY <2>1, <2>2 DEF FixedInv, Filled
  <2>4. ChannelContent' = << >>
    BY <1>2, <2>1, <2>3, EmptyWindow DEF new
  <2>5. UNCHANGED ChannelTaken
    BY <1>3, <1>4, <2>1
  <2> QED BY <2>3, <2>4, <2>5 DEF ChannelAbstract!Next, ChannelAbstract!Clear
<1> QED BY <1>5, <1>6, <1>7 DEF Fixed!Next

(* A channel begins empty. *)
LEMMA ChannelInitiation == Init => ChannelAbstract!Init
<1> SUFFICES ASSUME Init
             PROVE  /\ ChannelContent = << >>
                    /\ ChannelTaken = [t \in Task \cup {"caller"} |-> << >>]
  BY DEF ChannelAbstract!Init
<1>1. FixedInv /\ QueueInv
  BY FixedInit, QueueInit
<1>2. CASE subject = "fixed"
  <2>1. object.size = 0 /\ task = << >>
    BY <1>2 DEF Init, InitSubject, Fixed!Init, Fixed!NewQueue
  <2>2. ChannelContent = << >>
    BY <1>1, <1>2, <2>1, ContentIsWindow, EmptyWindow
  <2> QED BY <1>2, <2>1, <2>2, TakenIsReceived DEF Received
<1>3. CASE subject = "queue"
  <2>1. object.size = 0 /\ \A t \in Task : task[t].op = None
    BY <1>3 DEF Init, InitSubject, Queue!Init, Queue!InitWith, Queue!EmptyQueue, Queue!NoCall
  <2>2. ChannelContent = << >>
    BY <1>1, <1>3, <2>1, ContentIsWindow, EmptyWindow
  <2>3. \A t \in Task : TakenBy(task[t].op) = << >>
    BY <2>1 DEF TakenBy
  <2> QED BY <1>3, <2>2, <2>3, TakenIsReceived DEF Received
<1>4. CASE subject # "fixed" /\ subject # "queue"
  BY <1>4, TakenIsReceived DEF ChannelContent, Received
<1> QED BY <1>2, <1>3, <1>4

(* The invariants of both queues are kept, with the refinement. *)
LEMMA ChannelStep ==
    ASSUME WaiterInv, FixedInv, QueueInv, [Next]_vars
    PROVE  FixedInv' /\ QueueInv' /\ [ChannelAbstract!Next]_<<ChannelContent, ChannelTaken>>
<1>1. subject' = subject
  BY OneObject
<1>2. CASE UNCHANGED vars
  BY <1>2 DEF vars, FixedInv, QueueInv, Queue!StoringSize, Queue!NextStore, ChannelContent,
     ChannelTaken, Queue!Content, Queue!Taken, Fixed!Content, Fixed!PeekAt
<1>3. CASE Next /\ subject = "fixed"
  <2>1. Fixed!Next
    BY <1>3 DEF Next, Synchronise, Serial
  <2>2. QueueInv'
    BY <1>1, <1>3 DEF QueueInv
  <2> QED BY <1>1, <1>3, <2>1, <2>2, FixedStep
<1>4. CASE Next /\ subject = "queue"
  <2>1. Queue!Next
    BY <1>4 DEF Next, Synchronise, Serial
  <2>2. CallsSound
    BY <1>4 DEF WaiterInv, Synchronisation
  <2>3. FixedInv'
    BY <1>1, <1>4 DEF FixedInv
  <2> QED BY <1>1, <1>4, <2>1, <2>2, <2>3, QueueStep
<1>5. CASE subject # "fixed" /\ subject # "queue"
  <2>1. ChannelContent = << >> /\ ChannelContent' = << >>
    BY <1>1, <1>5 DEF ChannelContent
  <2>2. (ChannelTaken = Received)'
    BY TakenIsReceived, PTL
  <2>3. UNCHANGED ChannelTaken
    BY <1>1, <1>5, <2>2, TakenIsReceived DEF Received
  <2> QED BY <1>1, <1>5, <2>1, <2>3 DEF FixedInv, QueueInv
<1> QED BY <1>2, <1>3, <1>4, <1>5

(* Both queues are channels, for every capacity, any number of tasks and   *)
(* any batches: no interleaving of tries, expiries and lifecycle calls     *)
(* loses, repeats, reorders or invents an element, if nobody uses what a   *)
(* pop gets between the two stores with which a queue is emptied.          *)
THEOREM QueuesAreChannels == Spec => ImplementsChannel
<1>1. WaiterInv /\ FixedInv /\ QueueInv /\ [Next]_vars
          => FixedInv' /\ QueueInv' /\ [ChannelAbstract!Next]_<<ChannelContent, ChannelTaken>>
  BY ChannelStep
<1> QED BY <1>1, WaiterInit, WaiterStep, FixedInit, QueueInit, ChannelInitiation, PTL
    DEF Spec, ImplementsChannel, ChannelAbstract!Spec, ChannelAbstract!vars

-----------------------------------------------------------------------------
(* The arithmetic that the parameter service uses is that of ParameterValue. *)
LEMMA SameArithmetic ==
    /\ \A d, value : Parameter!InRange(d, value) <=> InRange(d, value)
    /\ \A d : Parameter!DescriptorStatus(d) = DescriptorStatus(d)
    /\ \A d, value, step : Parameter!AdjustStatus(d, value, step) = AdjustStatus(d, value, step)
    /\ \A d, value, step, count :
          Parameter!AdjustValue(d, value, step, count) = AdjustValue(d, value, step, count)
<1>1. Parameter!Power = Power
  BY Zenon DEF Parameter!Power, Power
<1>2. \A m : Parameter!UlpExponent(m) = UlpExponent(m)
  BY <1>1 DEF Parameter!UlpExponent, UlpExponent
<1>3. \A m : Parameter!RoundMagnitude(m) = RoundMagnitude(m)
  BY <1>1, <1>2 DEF Parameter!RoundMagnitude, RoundMagnitude
<1>4. \A x : Parameter!ToFloat(x) = ToFloat(x)
  BY <1>3 DEF Parameter!ToFloat, ToFloat
<1>5. \A d, value : Parameter!InRange(d, value) <=> InRange(d, value)
  BY DEF Parameter!InRange, InRange
<1>6. \A d : Parameter!Span(d) = Span(d)
  BY DEF Parameter!Span, Span
<1>7. \A d : Parameter!DescriptorStatus(d) = DescriptorStatus(d)
  BY <1>4, <1>6 DEF Parameter!DescriptorStatus, DescriptorStatus
<1>8. \A d, value, step : Parameter!AdjustStatus(d, value, step) = AdjustStatus(d, value, step)
  BY <1>5, <1>7 DEF Parameter!AdjustStatus, AdjustStatus
<1>9. \A x, low, high : Parameter!Clamp(x, low, high) = Clamp(x, low, high)
  BY DEF Parameter!Clamp, Clamp
<1>10. \A d, value, step, count :
          Parameter!AdjustFloat(d, value, step, count) = AdjustFloat(d, value, step, count)
  BY <1>4, <1>5, <1>9 DEF Parameter!AdjustFloat, AdjustFloat
<1>11. \A d, value, step, count :
          Parameter!AdjustInt32(d, value, step, count) = AdjustInt32(d, value, step, count)
  BY <1>9 DEF Parameter!AdjustInt32, AdjustInt32
<1>12. \A x : Parameter!Magnitude(x) = Magnitude(x)
  BY DEF Parameter!Magnitude, Magnitude
<1>13. \A d, value, step, count :
          Parameter!AdjustUint32(d, value, step, count) = AdjustUint32(d, value, step, count)
  BY <1>12 DEF Parameter!AdjustUint32, AdjustUint32
<1>14. \A d, value, step, count :
          Parameter!AdjustBool(d, value, step, count) = AdjustBool(d, value, step, count)
  BY DEF Parameter!AdjustBool, AdjustBool
<1>15. \A d, value, step, count :
          Parameter!Adjusted(d, value, step, count) = Adjusted(d, value, step, count)
  BY <1>10, <1>11, <1>13, <1>14 DEF Parameter!Adjusted, Adjusted
<1>16. \A d, value, step, count :
          Parameter!AdjustValue(d, value, step, count) = AdjustValue(d, value, step, count)
  BY <1>8, <1>15 DEF Parameter!AdjustValue, AdjustValue
<1> QED BY <1>5, <1>7, <1>8, <1>16

(* A bound registry is sound, no ID in it is taken twice, and the owners   *)
(* hold values of their types.                                             *)
ParameterInv ==
    subject = "parameter" =>
        /\ task \in [Contexts -> Int]
        /\ object = << >> => \A context \in Contexts : task[context] \in Held[context]
        /\ object # << >> => object \in Registries
        /\ \A g \in DOMAIN object : \A p \in DOMAIN object[g].parameters :
              ~Parameter!IdExists(object, g, p)
        /\ \A d \in ParametersOf(object) : d.type = "FLOAT" => IsFloat(task[d.context])

LEMMA RegistrySound ==
    ASSUME NEW registry \in Registries
    PROVE  /\ Len(registry) \in Nat /\ DOMAIN registry = 1 .. Len(registry)
           /\ \A g \in DOMAIN registry :
                 /\ Len(registry[g].parameters) \in Nat
                 /\ DOMAIN registry[g].parameters = 1 .. Len(registry[g].parameters)
                 /\ \A p \in DOMAIN registry[g].parameters :
                       registry[g].parameters[p] \in ParametersOf(registry)
           /\ \A d \in ParametersOf(registry) :
                 /\ Typed(d) /\ d.context \in Contexts
                 /\ d.type = "FLOAT" => \A value \in Held[d.context] : IsFloat(value)
                 /\ \A e \in ParametersOf(registry) : e.context = d.context => e.type = d.type
<1>1. Len(registry) \in Nat /\ DOMAIN registry = 1 .. Len(registry)
  BY ParameterAssumption
<1>2. ASSUME NEW g \in DOMAIN registry
      PROVE  /\ Len(registry[g].parameters) \in Nat
             /\ DOMAIN registry[g].parameters = 1 .. Len(registry[g].parameters)
             /\ \A p \in DOMAIN registry[g].parameters :
                   registry[g].parameters[p] \in ParametersOf(registry)
  <2>1. registry[g] \in Entries(registry)
    BY DEF Entries
  <2>2. registry[g].parameters \in Seq(Entries(registry[g].parameters))
    BY <2>1, ParameterAssumption
  <2>3. \A p \in DOMAIN registry[g].parameters :
            registry[g].parameters[p] \in Entries(registry[g].parameters)
    BY DEF Entries
  <2> QED BY <2>1, <2>2, <2>3 DEF ParametersOf
<1>3. \A d \in ParametersOf(registry) :
         /\ Typed(d) /\ d.context \in Contexts
         /\ d.type = "FLOAT" => \A value \in Held[d.context] : IsFloat(value)
         /\ \A e \in ParametersOf(registry) : e.context = d.context => e.type = d.type
  BY ParameterAssumption
<1> QED BY <1>1, <1>2, <1>3

(* The search by ID finds the parameter, as there is one only. *)
LEMMA EarlierIdIsFound ==
    ASSUME NEW registry \in Registries,
           NEW g \in DOMAIN registry, NEW p \in DOMAIN registry[g].parameters,
           NEW h \in DOMAIN registry, NEW q \in DOMAIN registry[h].parameters,
           h < g \/ (h = g /\ q < p),
           registry[h].parameters[q].id = registry[g].parameters[p].id
    PROVE  Parameter!IdExists(registry, g, p)
<1>1. /\ h \in 1 .. g /\ g \in Int /\ q \in Int /\ p \in Int
      /\ q \in 1 .. Len(registry[h].parameters)
  BY RegistrySound
<1>2. q \in 1 .. (IF h = g THEN p - 1 ELSE Len(registry[h].parameters))
  <2>1. CASE h = g
    <3>1. q < p /\ q >= 1
      BY <1>1, <2>1
    <3> QED BY <1>1, <2>1, <3>1
  <2>2. CASE h # g
    BY <1>1, <2>2
  <2> QED BY <2>1, <2>2
<1> QED BY <1>1, <1>2 DEF Parameter!IdExists

LEMMA FindFinds ==
    ASSUME ParameterInv, subject = "parameter",
           NEW g \in DOMAIN object, NEW p \in DOMAIN object[g].parameters
    PROVE  Parameter!Find(object[g].parameters[p].id) = object[g].parameters[p]
<1> DEFINE id == object[g].parameters[p].id
           Earlier(a, b) == a[1] < b[1] \/ (a[1] = b[1] /\ a[2] <= b[2])
<1>1. object \in Registries
  BY DEF ParameterInv
<1>2. ASSUME NEW h \in DOMAIN object, NEW q \in DOMAIN object[h].parameters,
             object[h].parameters[q].id = id
      PROVE  h = g /\ q = p
  <2>1. g \in Int /\ h \in Int /\ p \in Int /\ q \in Int
    BY <1>1, RegistrySound
  <2>2. CASE h < g \/ (h = g /\ q < p)
    BY <1>1, <1>2, <2>2, EarlierIdIsFound DEF ParameterInv
  <2>3. CASE g < h \/ (g = h /\ p < q)
    BY <1>1, <1>2, <2>3, EarlierIdIsFound DEF ParameterInv
  <2> QED BY <2>1, <2>2, <2>3
<1>3. Parameter!Positions(id) = {<<g, p>>}
  BY <1>2 DEF Parameter!Positions
<1>4. p \in Int
  BY <1>1, RegistrySound
<1> DEFINE first == CHOOSE a \in Parameter!Positions(id) :
                        \A b \in Parameter!Positions(id) : Earlier(a, b)
<1>5. first = <<g, p>>
  <2>1. Earlier(<<g, p>>, <<g, p>>)
    BY <1>4
  <2> HIDE DEF id, Earlier
  <2> QED BY <1>3, <2>1
<1>6. Parameter!Find(id) = object[first[1]].parameters[first[2]]
  BY DEF Parameter!Find
<1> HIDE DEF first
<1> QED BY <1>5, <1>6

(* What a call by ID finds is registered. *)
LEMMA FoundIsRegistered ==
    ASSUME ParameterInv, subject = "parameter", NEW id, Parameter!Positions(id) # {}
    PROVE  Parameter!Find(id) \in ParametersOf(object) /\ object \in Registries
<1>1. PICK g \in DOMAIN object : \E p \in DOMAIN object[g].parameters :
                object[g].parameters[p].id = id
  BY DEF Parameter!Positions
<1>2. PICK p \in DOMAIN object[g].parameters : object[g].parameters[p].id = id
  BY <1>1
<1>3. Parameter!Find(id) = object[g].parameters[p]
  BY <1>2, FindFinds
<1>4. object \in Registries
  BY <1>1 DEF ParameterInv
<1> QED BY <1>3, <1>4, RegistrySound

(* What the request of a step asks of the owner that it changes. *)
OwnerServed(d, value, count) ==
    /\ Parameter!MaySet(d, value)
    /\ count # 0 => /\ InRange(d, task[d.context])
                    /\ value # task[d.context] =>
                          (value > task[d.context] <=> count > 0)

LEMMA SetKeepsTypes ==
    ASSUME ParameterInv, subject = "parameter", subject' = "parameter", object' = object,
           NEW d \in ParametersOf(object), object \in Registries, NEW value \in Int,
           d.type = "FLOAT" => IsFloat(value),
           task' = [task EXCEPT ![d.context] = value]
    PROVE  ParameterInv'
<1>1. task \in [Contexts -> Int] /\ task' \in [Contexts -> Int]
  BY DEF ParameterInv
<1>2. object # << >>
  BY DEF ParametersOf, Entries
<1>3. ASSUME NEW e \in ParametersOf(object), e.type = "FLOAT" PROVE IsFloat(task'[e.context])
  <2>1. e.context \in Contexts /\ d.context \in Contexts
    BY RegistrySound
  <2>2. CASE e.context = d.context
    BY <1>1, <1>3, <2>1, <2>2, RegistrySound
  <2>3. CASE e.context # d.context
    BY <1>1, <1>3, <2>1, <2>3 DEF ParameterInv
  <2> QED BY <2>2, <2>3
<1>4. \A g \in DOMAIN object : \A p \in DOMAIN object[g].parameters :
         ~Parameter!IdExists(object, g, p)
  BY DEF ParameterInv
<1> QED BY <1>1, <1>2, <1>3, <1>4 DEF ParameterInv

LEMMA SetServes ==
    ASSUME ParameterInv, subject = "parameter", NEW id,
           NEW value \in Held[Parameter!Find(id).context], Parameter!SetById(id, value)
    PROVE  LET d == Parameter!Find(id)
           IN  /\ d \in ParametersOf(object) /\ object \in Registries
               /\ d.type = "FLOAT" => IsFloat(value)
               /\ value \in Int /\ OwnerServed(d, value, 0)
<1>1. Parameter!Find(id) \in ParametersOf(object) /\ object \in Registries
  BY FoundIsRegistered DEF Parameter!SetById
<1> QED BY <1>1, RegistrySound, ParameterAssumption DEF Parameter!SetById, OwnerServed

LEMMA AdjustServes ==
    ASSUME ParameterInv, subject = "parameter", NEW id, NEW count \in StepCounts,
           Parameter!AdjustById(id, count)
    PROVE  LET d == Parameter!Find(id)
               adjusted == AdjustValue(d, task[d.context], d.step, count)
           IN  /\ d \in ParametersOf(object) /\ object \in Registries
               /\ d.type = "FLOAT" => IsFloat(adjusted)
               /\ adjusted \in Int /\ OwnerServed(d, adjusted, count)
               /\ Parameter!Requested("adjust", id, count, adjusted)
<1> DEFINE d == Parameter!Find(id)
           value == task[d.context]
           adjusted == AdjustValue(d, value, d.step, count)
<1>1. d \in ParametersOf(object) /\ object \in Registries
  BY FoundIsRegistered DEF Parameter!AdjustById
<1>2. /\ count # 0 /\ Parameter!GetById(id) = "OK"
      /\ AdjustStatus(d, value, d.step) = "OK" /\ Parameter!MaySet(d, adjusted)
      /\ Parameter!Requested("adjust", id, count, adjusted)
  BY SameArithmetic DEF Parameter!AdjustById
<1>3. InRange(d, value)
  BY <1>2, SameArithmetic DEF Parameter!GetById, Parameter!CurrentValid
<1> HIDE DEF d
<1>4. /\ Typed(d) /\ d.step \in Int /\ count \in Int \ {0} /\ value \in Int
      /\ d.type = "FLOAT" => IsFloat(value)
  BY <1>1, <1>2, RegistrySound, ParameterAssumption DEF ParameterInv, Typed
<1>5. adjusted \in Int /\ (d.type = "FLOAT" => IsFloat(adjusted))
  BY <1>2, <1>4, AdjustmentStays
<1>6. adjusted # value => (adjusted > value <=> count > 0)
  BY <1>2, <1>4, AdjustmentMoves
<1> HIDE DEF value, adjusted
<1>7. OwnerServed(d, adjusted, count)
  BY <1>2, <1>3, <1>6 DEF OwnerServed, value
<1> QED BY <1>1, <1>2, <1>5, <1>7 DEF d, value, adjusted

LEMMA ParameterInitiation == Init => ParameterInv
<1> SUFFICES ASSUME Init, subject = "parameter" PROVE ParameterInv
  BY DEF ParameterInv
<1>1. /\ object = << >> /\ DOMAIN task = Contexts
      /\ \A context \in Contexts : task[context] \in Held[context]
      /\ task = [context \in Contexts |-> task[context]]
  BY DEF Init, InitSubject, Parameter!Init
<1>2. ParametersOf(object) = {}
  BY <1>1 DEF ParametersOf, Entries
<1>3. task \in [Contexts -> Int]
  BY <1>1, ParameterAssumption
<1>4. DOMAIN object = {}
  BY <1>1
<1> QED BY <1>1, <1>2, <1>3, <1>4 DEF ParameterInv

LEMMA ParameterStep ==
    ASSUME ParameterInv, [Next]_vars
    PROVE  ParameterInv'
<1> SUFFICES ASSUME subject = "parameter" PROVE ParameterInv'
  BY OneObject DEF ParameterInv
<1>1. subject' = "parameter" /\ (Parameter!Next \/ UNCHANGED <<object, task, memory>>)
  BY OneObject
<1>2. CASE UNCHANGED <<object, task, memory>>
  BY <1>1, <1>2 DEF ParameterInv
<1>3. ASSUME NEW registry \in Registries, Parameter!ServiceInit(registry) PROVE ParameterInv'
  <2>1. object = << >> /\ object' = registry /\ task' = task
        /\ \A context \in Contexts : task[context] \in Held[context]
    BY <1>3 DEF Parameter!ServiceInit, ParameterInv
  <2>2. \A g \in DOMAIN registry : \A p \in DOMAIN registry[g].parameters :
           ~Parameter!IdExists(registry, g, p)
    BY <1>3 DEF Parameter!ServiceInit, Parameter!GroupSound
  <2>3. \A d \in ParametersOf(registry) : d.type = "FLOAT" => IsFloat(task[d.context])
    BY <2>1, RegistrySound
  <2>4. object' # << >>
    BY <1>3, <2>1 DEF Parameter!ServiceInit
  <2> QED BY <1>1, <2>1, <2>2, <2>3, <2>4 DEF ParameterInv
<1>4. ASSUME NEW id, NEW value \in Held[Parameter!Find(id).context],
             Parameter!SetById(id, value)
      PROVE  ParameterInv'
  <2> DEFINE d == Parameter!Find(id)
  <2>1. object' = object /\ task' = [task EXCEPT ![d.context] = value]
    BY <1>4 DEF Parameter!SetById, Parameter!Requested
  <2>2. /\ d \in ParametersOf(object) /\ object \in Registries /\ value \in Int
        /\ d.type = "FLOAT" => IsFloat(value)
    BY <1>4, SetServes
  <2> HIDE DEF d
  <2> QED BY <1>1, <2>1, <2>2, SetKeepsTypes
<1>5. ASSUME NEW id, NEW count \in StepCounts, Parameter!AdjustById(id, count)
      PROVE  ParameterInv'
  <2> DEFINE d == Parameter!Find(id)
             adjusted == AdjustValue(d, task[d.context], d.step, count)
  <2>1. /\ d \in ParametersOf(object) /\ object \in Registries /\ adjusted \in Int
        /\ d.type = "FLOAT" => IsFloat(adjusted)
        /\ Parameter!Requested("adjust", id, count, adjusted)
    BY <1>5, AdjustServes
  <2>2. object' = object /\ task' = [task EXCEPT ![d.context] = adjusted]
    BY <2>1 DEF Parameter!Requested
  <2> HIDE DEF d, adjusted
  <2> QED BY <1>1, <2>1, <2>2, SetKeepsTypes
<1>6. ASSUME NEW context \in Contexts, NEW value \in Held[context],
             Parameter!OwnerChanges(context, value)
      PROVE  ParameterInv'
  <2>1. object' = object /\ task' = [task EXCEPT ![context] = value]
    BY <1>6 DEF Parameter!OwnerChanges
  <2>2. /\ task' \in [Contexts -> Int]
        /\ object = << >> => \A other \in Contexts : task'[other] \in Held[other]
    BY <2>1, ParameterAssumption DEF ParameterInv
  <2>3. ASSUME NEW d \in ParametersOf(object), d.type = "FLOAT"
        PROVE  IsFloat(task'[d.context])
    <3>1. object \in Registries
      BY DEF ParameterInv, ParametersOf, Entries
    <3>2. d.context \in Contexts /\ (d.context = context => IsFloat(value))
      BY <2>3, <3>1, RegistrySound
    <3> QED BY <2>1, <2>3, <3>2 DEF ParameterInv
  <2>4. /\ object # << >> => object \in Registries
        /\ \A g \in DOMAIN object : \A p \in DOMAIN object[g].parameters :
              ~Parameter!IdExists(object, g, p)
    BY DEF ParameterInv
  <2> QED BY <1>1, <2>1, <2>2, <2>3, <2>4 DEF ParameterInv
<1> QED BY <1>1, <1>2, <1>3, <1>4, <1>5, <1>6 DEF Parameter!Next

(* No step but the owner's changes what another owner holds. *)
LEMMA RequestServes ==
    ASSUME ParameterInv, subject = "parameter", NEW op \in {"set", "adjust"}, NEW id,
           NEW count \in Int, NEW value \in Int, NEW context \in Contexts,
           Parameter!Requested(op, id, count, value),
           Parameter!Find(id).context \in Contexts,
           OwnerServed(Parameter!Find(id), value, count),
           op = "adjust" => count # 0,
           task'[context] # task[context]
    PROVE  LET d == Parameter!Find(memory'.id)
           IN  /\ d.context = context /\ Parameter!MaySet(d, task'[context])
               /\ memory'.op = "adjust" =>
                     /\ Parameter!InRange(d, task[context])
                     /\ task'[context] > task[context] <=> memory'.step_count > 0
<1> DEFINE d == Parameter!Find(id)
<1>1. memory'.id = id /\ memory'.op = op /\ memory'.step_count = count
  BY DEF Parameter!Requested
<1>2. task' = [task EXCEPT ![d.context] = value] /\ task \in [Contexts -> Int]
  BY DEF Parameter!Requested, ParameterInv
<1> HIDE DEF d
<1>3. d.context = context /\ task'[context] = value
  BY <1>2
<1>4. OwnerServed(d, value, count)
  BY DEF d
<1>5. /\ Parameter!MaySet(d, value)
      /\ op = "adjust" => /\ Parameter!InRange(d, task[context])
                          /\ value > task[context] <=> count > 0
  BY <1>3, <1>4, SameArithmetic DEF OwnerServed
<1> QED BY <1>1, <1>3, <1>5 DEF d

LEMMA OwnerStepServed ==
    ASSUME ParameterInv, [Next]_vars, subject = "parameter", vars' # vars,
           NEW context \in Contexts, task'[context] # task[context], memory'.op # "owner"
    PROVE  LET d == Parameter!Find(memory'.id)
           IN  /\ d.context = context /\ Parameter!MaySet(d, task'[context])
               /\ memory'.op = "adjust" =>
                     /\ Parameter!InRange(d, task[context])
                     /\ task'[context] > task[context] <=> memory'.step_count > 0
<1>1. Parameter!Next
  BY OneObject
<1>2. ASSUME NEW registry \in Registries, Parameter!ServiceInit(registry) PROVE FALSE
  BY <1>2 DEF Parameter!ServiceInit
<1>3. ASSUME NEW other \in Contexts, NEW value \in Held[other],
             Parameter!OwnerChanges(other, value)
      PROVE  FALSE
  BY <1>3 DEF Parameter!OwnerChanges, Parameter!NoRequest
<1>4. CASE \E id : \E value \in Held[Parameter!Find(id).context] : Parameter!SetById(id, value)
  <2>1. PICK id : \E value \in Held[Parameter!Find(id).context] : Parameter!SetById(id, value)
    BY <1>4
  <2>2. PICK value \in Held[Parameter!Find(id).context] : Parameter!SetById(id, value)
    BY <2>1
  <2>3. /\ Parameter!Find(id).context \in Contexts /\ value \in Int
        /\ OwnerServed(Parameter!Find(id), value, 0)
    BY <2>2, SetServes, RegistrySound
  <2>4. Parameter!Requested("set", id, 0, value)
    BY <2>2 DEF Parameter!SetById
  <2> QED BY <2>3, <2>4, RequestServes
<1>5. CASE \E id : \E count \in StepCounts : Parameter!AdjustById(id, count)
  <2>1. PICK id : \E count \in StepCounts : Parameter!AdjustById(id, count)
    BY <1>5
  <2>2. PICK count \in StepCounts : Parameter!AdjustById(id, count)
    BY <2>1
  <2> DEFINE d == Parameter!Find(id)
             adjusted == AdjustValue(d, task[d.context], d.step, count)
  <2>3. /\ d \in ParametersOf(object) /\ object \in Registries
        /\ adjusted \in Int /\ OwnerServed(d, adjusted, count)
        /\ Parameter!Requested("adjust", id, count, adjusted)
    BY <2>2, AdjustServes
  <2>4. d.context \in Contexts
    BY <2>3, RegistrySound
  <2>5. count \in Int /\ count # 0
    BY <2>2, ParameterAssumption DEF Parameter!AdjustById
  <2> HIDE DEF adjusted
  <2> QED BY <2>3, <2>4, <2>5, RequestServes
<1> QED BY <1>1, <1>2, <1>3, <1>4, <1>5 DEF Parameter!Next

(* A call by ID reaches the parameter with that ID, of every registry that *)
(* init accepts, and changes the value of its owner only, to one within    *)
(* the limits and, when it adjusts, in the direction that was asked for.   *)
THEOREM OwnersAreServed == Spec => OwnersServed
<1>1. Spec => []ParameterInv
  BY ParameterInitiation, ParameterStep, PTL DEF Spec
<1>2. ParameterInv /\ [Next]_vars => [subject = "parameter" => Parameter!ServesOwner]_vars
  <2> SUFFICES ASSUME ParameterInv, [Next]_vars, vars' # vars, subject = "parameter"
               PROVE  Parameter!ServesOwner
    OBVIOUS
  <2>1. \A g \in DOMAIN object : \A p \in DOMAIN object[g].parameters :
           Parameter!Find(object[g].parameters[p].id) = object[g].parameters[p]
    BY FindFinds
  <2>2. \A context \in Contexts :
           task'[context] # task[context] /\ memory'.op # "owner" =>
              LET d == Parameter!Find(memory'.id)
              IN  /\ d.context = context /\ Parameter!MaySet(d, task'[context])
                  /\ memory'.op = "adjust" =>
                        /\ Parameter!InRange(d, task[context])
                        /\ task'[context] > task[context] <=> memory'.step_count > 0
    BY OwnerStepServed
  <2> QED BY <2>1, <2>2 DEF Parameter!ServesOwner
<1> QED BY <1>1, <1>2, PTL DEF Spec, OwnersServed
=============================================================================
