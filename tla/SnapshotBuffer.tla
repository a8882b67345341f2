--------------------------- MODULE SnapshotBuffer ---------------------------
(***************************************************************************)
(* libraries/snapshot_buffer of the archive: the latest frame in one of    *)
(* two slots.  A writer fills the other slot and publishes it; readers     *)
(* borrow a frame, at most one per slot, and read it for as long as they   *)
(* like.  Calls are serial, but filling and reading happen between calls,  *)
(* at any pace.  A call that fails changes nothing.                        *)
(***************************************************************************)
EXTENDS Naturals

CONSTANTS
    User,           \* who writes and reads
    NoUser,
    MaxSequence     \* UINT32_MAX

VARIABLES
    buffer,     \* snapshot_buffer_t, with the sequence of each slot's info
    memory,     \* what the slots hold: 0, or the sequence of a complete frame
    leases      \* of each user: the lease it holds, with the frame it is for

Slot == {0, 1}
NoLease == [slot |-> 0, sequence |-> 0]
NewBuffer ==
    [published |-> FALSE, active |-> 0, writing |-> 0, writer |-> NoUser,
     readers |-> [s \in Slot |-> NoUser], info |-> [s \in Slot |-> 0]]

-----------------------------------------------------------------------------
(* A plausible slip; nothing uses it. *)
BeginSlotAny == IF buffer.published /\ buffer.readers[1 - buffer.active] = NoUser
                THEN 1 - buffer.active ELSE 0

-----------------------------------------------------------------------------
(* snapshot_buffer_begin *)
BeginSlot == IF buffer.published THEN 1 - buffer.active ELSE 0
Sequence == IF buffer.published THEN buffer.info[buffer.active] ELSE 0

Begin(u) ==
    /\ buffer.writer = NoUser
    /\ buffer.readers[BeginSlot] = NoUser
    /\ buffer' = [buffer EXCEPT !.writing = BeginSlot, !.writer = u]
    /\ UNCHANGED <<memory, leases>>

(* The writer fills its slot; until it is done, the slot holds no frame.   *)
Fill ==
    /\ buffer.writer # NoUser
    /\ \E content \in {0, Sequence + 1} : memory' = [memory EXCEPT ![buffer.writing] = content]
    /\ UNCHANGED <<buffer, leases>>

(* snapshot_buffer_publish, by a writer that has filled its slot; at the   *)
(* last sequence it returns OVERFLOW, and the transaction stays open.      *)
Publish ==
    /\ buffer.writer # NoUser /\ memory[buffer.writing] = Sequence + 1
    /\ Sequence < MaxSequence
    /\ buffer' = [buffer EXCEPT !.info[buffer.writing] = Sequence + 1,
                                !.active = buffer.writing, !.published = TRUE,
                                !.writer = NoUser]
    /\ UNCHANGED <<memory, leases>>

Cancel ==
    /\ buffer.writer # NoUser
    /\ buffer' = [buffer EXCEPT !.writer = NoUser]
    /\ UNCHANGED <<memory, leases>>

(* snapshot_buffer_acquire; a lease that is still registered is refused.   *)
Acquire(u) ==
    /\ buffer.published /\ buffer.readers[buffer.active] = NoUser
    /\ \A s \in Slot : buffer.readers[s] # u
    /\ buffer' = [buffer EXCEPT !.readers[buffer.active] = u]
    /\ leases' = [leases EXCEPT ![u] = [slot |-> buffer.active, sequence |-> Sequence]]
    /\ UNCHANGED memory

(* snapshot_buffer_release, of a lease that still describes its slot.      *)
Release(u) ==
    \E s \in Slot :
        /\ buffer.readers[s] = u
        /\ leases[u] = [slot |-> s, sequence |-> buffer.info[s]]
        /\ buffer' = [buffer EXCEPT !.readers[s] = NoUser]
        /\ leases' = [leases EXCEPT ![u] = NoLease]
        /\ UNCHANGED memory

(* snapshot_buffer_init again, perhaps over other slots: BUSY while in use. *)
BufferInit ==
    /\ buffer.writer = NoUser /\ \A s \in Slot : buffer.readers[s] = NoUser
    /\ buffer' = NewBuffer
    /\ memory' = [s \in Slot |-> 0]
    /\ UNCHANGED leases

Init ==
    /\ buffer = NewBuffer
    /\ memory = [s \in Slot |-> 0]
    /\ leases = [u \in User |-> NoLease]

Next ==
    \/ \E u \in User : Begin(u) \/ Acquire(u) \/ Release(u)
    \/ Fill \/ Publish \/ Cancel \/ BufferInit

Spec == Init /\ [][Next]_<<buffer, memory, leases>>

-----------------------------------------------------------------------------
(* Whoever reads, reads a complete frame that stays as it was published:   *)
(* a borrowed frame until its lease is returned, however often others      *)
(* publish meanwhile, and the active frame for those that copy it.  Every  *)
(* lease can be returned.                                                  *)
FramesStayWhole ==
    /\ buffer.published => memory[buffer.active] = buffer.info[buffer.active]
    /\ \A u \in User :
          leases[u] # NoLease =>
              /\ memory[leases[u].slot] = leases[u].sequence
              /\ buffer.readers[leases[u].slot] = u
              /\ leases[u].sequence = buffer.info[leases[u].slot]
=============================================================================
