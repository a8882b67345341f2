-------------------------------- MODULE Fifo --------------------------------
(***************************************************************************)
(* libraries/mizu_fifo: a byte ring over caller-owned storage, used by one *)
(* producer context and one consumer context at the same time.  One slot   *)
(* stays empty, so that read_index = write_index means "empty".            *)
(*                                                                         *)
(* The component has no atomics, no barrier and no critical section.  A    *)
(* call is therefore a sequence of steps, and the other context may run    *)
(* between any two of them: the two loads of the peer's index in           *)
(* mizu_fifo_used, every byte of the copy loops, and the final store of    *)
(* the own index.  ReloadIndex says what the compiled code does with the   *)
(* two loads: TRUE when both go to memory, FALSE when one value serves     *)
(* both.  The fields are plain size_t members, so a build may do either.   *)
(***************************************************************************)
EXTENDS Integers, Sequences

CONSTANTS
    Byte,           \* uint8_t
    StorageSize,    \* storage_size
    SizeModulus,    \* 2^w for a size_t of w bits
    WriteSizes,     \* the data_size values the producer passes
    ReadSizes,      \* the data_size values the consumer passes
    ReloadIndex     \* does mizu_fifo_used load the peer's index twice?

ASSUME StorageSizeAssumption == StorageSize \in Nat /\ StorageSize >= 2
ASSUME SizeModulusAssumption ==
    SizeModulus \in Nat /\ SizeModulus > 2 * StorageSize
ASSUME TransferAssumption ==
    /\ WriteSizes \subseteq 0 .. StorageSize
    /\ ReadSizes \subseteq 0 .. StorageSize
ASSUME ReloadIndexAssumption == ReloadIndex \in BOOLEAN

VARIABLES
    initialized, storage, read_index, write_index,  \* mizu_fifo_t
    writer,     \* the producer's call: pc, data, the loaded read_index, bytes copied
    reader,     \* the consumer's call: pc, size, the loaded write_index, output
    received    \* what the last successful read handed to the consumer

fifo == <<initialized, storage, read_index, write_index>>
vars == <<fifo, writer, reader, received>>

Slot == 0 .. StorageSize - 1
Status == {"NONE", "OK", "FULL", "EMPTY", "INVALID_ARGUMENT", "NOT_INITIALIZED"}
Batch(n) == [1 .. n -> Byte]

-----------------------------------------------------------------------------
(* Plausible slips in the helpers below; no action uses them.              *)

AdvanceLateWrap(index, count) ==
    LET tail == StorageSize - index
    IN  IF count > tail THEN count - tail ELSE index + count
FreeNoSpareSlot(used) == (StorageSize - used) % SizeModulus
FreeIgnoringUsed(used) == StorageSize - 1
UsedNoWrap(w1, r1, w2, r2) == (w2 - r2) % SizeModulus
FreeTwoSpareSlots(used) == (StorageSize - 2 - used) % SizeModulus

-----------------------------------------------------------------------------
(* mizu_fifo_advance *)
Advance(index, count) ==
    LET tail == StorageSize - index
    IN  IF count >= tail THEN count - tail ELSE index + count

(* mizu_fifo_used: the comparison sees (w1, r1), the subtraction (w2, r2). *)
Used(w1, r1, w2, r2) ==
    IF w1 >= r1 THEN (w2 - r2) % SizeModulus
                ELSE (StorageSize - r2 + w2) % SizeModulus

(* mizu_fifo_free: size_t arithmetic wraps when used exceeds the capacity. *)
Free(used) == (StorageSize - 1 - used) % SizeModulus

(* The slot of byte i of a transfer of the given size that starts at base: *)
(* the first loop of a copy runs to the end of storage, the second from 0. *)
Position(base, size, i) ==
    LET tail == StorageSize - base
        first == IF tail > size THEN size ELSE tail
    IN  IF i < first THEN base + i ELSE i - first

(* The early returns of mizu_fifo_write and mizu_fifo_read, in their order; *)
(* "NONE" when the call goes on.                                           *)
EntryStatus(size, isNull) ==
    CASE ~initialized           -> "NOT_INITIALIZED"
      [] initialized /\ size = 0 -> "OK"
      [] initialized /\ size # 0 /\ isNull -> "INVALID_ARGUMENT"
      [] OTHER                  -> "NONE"

-----------------------------------------------------------------------------
(* A context between two calls, with what its last call returned. *)
IdleWriter(status) ==
    [pc |-> "idle", data |-> << >>, seen |-> 0, copied |-> 0, status |-> status]
IdleReader(status) ==
    [pc |-> "idle", size |-> 0, seen |-> 0, output |-> << >>, status |-> status]

Init ==
    /\ initialized = FALSE
    /\ storage \in [Slot -> Byte]
    /\ read_index = 0
    /\ write_index = 0
    /\ writer = IdleWriter("NONE")
    /\ reader = IdleReader("NONE")
    /\ received = << >>

(* mizu_fifo_init on a zeroed object; a second call returns INVALID_STATE  *)
(* and changes nothing.                                                    *)
FifoInit ==
    /\ ~initialized
    /\ initialized' = TRUE
    /\ read_index' = 0
    /\ write_index' = 0
    /\ UNCHANGED <<storage, writer, reader, received>>

-----------------------------------------------------------------------------
(* mizu_fifo_write, in the producer's context *)

WriteReturnsEarly ==
    /\ writer.pc = "idle"
    /\ \E size \in WriteSizes, isNull \in BOOLEAN :
          /\ EntryStatus(size, isNull) # "NONE"
          /\ writer' = IdleWriter(EntryStatus(size, isNull))
    /\ UNCHANGED <<fifo, reader, received>>

\* The call gets as far as the comparison in mizu_fifo_used.
WriteEnter ==
    /\ writer.pc = "idle"
    /\ \E size \in WriteSizes :
          /\ EntryStatus(size, FALSE) = "NONE"
          /\ \E data \in Batch(size) :
                writer' = [pc |-> "check", data |-> data, seen |-> read_index,
                           copied |-> 0, status |-> "NONE"]
    /\ UNCHANGED <<fifo, reader, received>>

\* The free space the producer computes, from the second load of read_index.
WriterFree ==
    LET r == IF ReloadIndex THEN read_index ELSE writer.seen
    IN  Free(Used(write_index, writer.seen, write_index, r))

WriteAdmit ==
    /\ writer.pc = "check"
    /\ Len(writer.data) <= WriterFree
    /\ writer' = [writer EXCEPT !.pc = "copy", !.seen = 0]
    /\ UNCHANGED <<fifo, reader, received>>

WriteFull ==
    /\ writer.pc = "check"
    /\ Len(writer.data) > WriterFree
    /\ writer' = IdleWriter("FULL")
    /\ UNCHANGED <<fifo, reader, received>>

WriteCopy ==
    /\ writer.pc = "copy"
    /\ writer.copied < Len(writer.data)
    /\ storage' = [storage EXCEPT
          ![Position(write_index, Len(writer.data), writer.copied)] =
              writer.data[writer.copied + 1]]
    /\ writer' = [writer EXCEPT !.copied = @ + 1]
    /\ UNCHANGED <<initialized, read_index, write_index, reader, received>>

WritePublish ==
    /\ writer.pc = "copy"
    /\ writer.copied = Len(writer.data)
    /\ write_index' = Advance(write_index, Len(writer.data))
    /\ writer' = IdleWriter("OK")
    /\ UNCHANGED <<initialized, storage, read_index, reader, received>>

-----------------------------------------------------------------------------
(* mizu_fifo_read, in the consumer's context *)

ReadReturnsEarly ==
    /\ reader.pc = "idle"
    /\ \E size \in ReadSizes, isNull \in BOOLEAN :
          /\ EntryStatus(size, isNull) # "NONE"
          /\ reader' = IdleReader(EntryStatus(size, isNull))
    /\ UNCHANGED <<fifo, writer, received>>

ReadEnter ==
    /\ reader.pc = "idle"
    /\ \E size \in ReadSizes :
          /\ EntryStatus(size, FALSE) = "NONE"
          /\ reader' = [pc |-> "check", size |-> size, seen |-> write_index,
                        output |-> << >>, status |-> "NONE"]
    /\ UNCHANGED <<fifo, writer, received>>

\* The fill level the consumer computes, from the second load of write_index.
ReaderUsed ==
    LET w == IF ReloadIndex THEN write_index ELSE reader.seen
    IN  Used(reader.seen, read_index, w, read_index)

ReadAdmit ==
    /\ reader.pc = "check"
    /\ reader.size <= ReaderUsed
    /\ reader' = [reader EXCEPT !.pc = "copy", !.seen = 0]
    /\ UNCHANGED <<fifo, writer, received>>

ReadEmpty ==
    /\ reader.pc = "check"
    /\ reader.size > ReaderUsed
    /\ reader' = IdleReader("EMPTY")
    /\ UNCHANGED <<fifo, writer, received>>

ReadCopy ==
    /\ reader.pc = "copy"
    /\ Len(reader.output) < reader.size
    /\ reader' = [reader EXCEPT !.output =
          Append(@, storage[Position(read_index, reader.size, Len(@))])]
    /\ UNCHANGED <<fifo, writer, received>>

ReadPublish ==
    /\ reader.pc = "copy"
    /\ Len(reader.output) = reader.size
    /\ read_index' = Advance(read_index, reader.size)
    /\ received' = reader.output
    /\ reader' = IdleReader("OK")
    /\ UNCHANGED <<initialized, storage, write_index, writer>>

-----------------------------------------------------------------------------
WriterWork == WriteEnter \/ WriteAdmit \/ WriteFull \/ WriteCopy \/ WritePublish
ReaderWork == ReadEnter \/ ReadAdmit \/ ReadEmpty \/ ReadCopy \/ ReadPublish

Next == \/ FifoInit
        \/ WriteReturnsEarly \/ WriterWork
        \/ ReadReturnsEarly \/ ReaderWork

Spec == Init /\ [][Next]_vars

(* The object gets initialized, and both contexts keep calling and return  *)
(* from their calls: "the functions do not block".                         *)
FairSpec == Spec /\ WF_vars(FifoInit) /\ WF_vars(WriterWork) /\ WF_vars(ReaderWork)

-----------------------------------------------------------------------------
(* Properties *)

\* The stored bytes, oldest first, and the slots they occupy.
Unread == (write_index - read_index) % StorageSize
UnreadSlot(i) == (read_index + i) % StorageSize
UnreadSlots == {UnreadSlot(i) : i \in 0 .. Unread - 1}
Content == [i \in 1 .. Unread |-> storage[UnreadSlot(i - 1)]]

\* The slots an admitted call writes, or reads, until it publishes its index.
WriterSlots ==
    IF writer.pc = "copy"
    THEN {Position(write_index, Len(writer.data), i) : i \in 0 .. Len(writer.data) - 1}
    ELSE {}
ReaderSlots ==
    IF reader.pc = "copy"
    THEN {Position(read_index, reader.size, i) : i \in 0 .. reader.size - 1}
    ELSE {}

(* Every field stays in its type; the indices stay below storage_size, so  *)
(* mizu_fifo_check never finds an INVALID_STATE in an initialized object.  *)
TypeOK ==
    /\ initialized \in BOOLEAN
    /\ storage \in [Slot -> Byte]
    /\ read_index \in Slot
    /\ write_index \in Slot
    /\ writer \in [pc : {"idle", "check", "copy"}, data : Seq(Byte), seen : Slot,
                   copied : 0 .. StorageSize, status : Status]
    /\ reader \in [pc : {"idle", "check", "copy"}, size : 0 .. StorageSize,
                   seen : Slot, output : Seq(Byte), status : Status]
    /\ received \in Seq(Byte)

(* A write never touches a byte the consumer has not read, whatever the    *)
(* consumer does during the call.                                          *)
WriteNeverOverwritesUnread == WriterSlots \cap UnreadSlots = {}

(* A read only ever looks at bytes that a finished write has published.    *)
ReadOnlyPublished == ReaderSlots \subseteq UnreadSlots

(* The ring implements the bounded byte queue of ByteQueue: bytes come out *)
(* once, whole batch by whole batch, in the order they went in.            *)
Queue == INSTANCE ByteQueue WITH
    Capacity <- StorageSize - 1,
    queue <- Content,
    offer <- writer.data
ImplementsByteQueue == Queue!Spec

(* All-or-nothing calls do not starve each other: when no write size and   *)
(* read size add up to more than storage_size, a producer and a consumer   *)
(* that keep retrying both keep succeeding.                                *)
BothKeepSucceeding == /\ []<><<WritePublish>>_vars
                      /\ []<><<ReadPublish>>_vars
=============================================================================
