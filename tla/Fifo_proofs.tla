----------------------------- MODULE Fifo_proofs -----------------------------
(***************************************************************************)
(* The ring keeps its promises for every storage size, every batch and     *)
(* every interleaving of one producer and one consumer, provided the       *)
(* compiled mizu_fifo_used loads the peer's index once (~ReloadIndex).     *)
(***************************************************************************)
EXTENDS Fifo, SequenceTheorems, TLAPS

(* Going round the ring from slot a, Distance slots further is slot b.     *)
Distance(a, b) == IF b >= a THEN b - a ELSE b - a + StorageSize

(***************************************************************************)
(* The inductive invariant.  What each context knows while it is inside a  *)
(* call is stable under the steps of the other one: the index the producer *)
(* loaded may be out of date, but the consumer has only moved from it      *)
(* towards write_index, so there is at least as much room as computed; and *)
(* dually for the consumer.                                                *)
(***************************************************************************)
CallsFit ==
    /\ Len(writer.data) <= StorageSize
    /\ writer.copied <= Len(writer.data)
    /\ Len(reader.output) <= reader.size
WriterKnows ==
    /\ writer.pc = "check" =>
          Distance(writer.seen, read_index) <= Distance(writer.seen, write_index)
    /\ writer.pc = "copy" =>
          Len(writer.data) + Distance(read_index, write_index) < StorageSize
ReaderKnows ==
    /\ reader.pc = "check" =>
          Distance(read_index, reader.seen) <= Distance(read_index, write_index)
    /\ reader.pc = "copy" => reader.size <= Distance(read_index, write_index)
NoCallBeforeInit == ~initialized => writer.pc = "idle" /\ reader.pc = "idle"

IInv == TypeOK /\ CallsFit /\ WriterKnows /\ ReaderKnows /\ NoCallBeforeInit

-----------------------------------------------------------------------------
(* Remainders by StorageSize of numbers at most one turn away.             *)
LEMMA Remainder ==
    ASSUME NEW x \in Int, NEW n \in Nat \ {0}
    PROVE  /\ x \in 0 .. n - 1 => x % n = x
           /\ x \in n .. 2 * n - 1 => x % n = x - n
           /\ x \in -n .. -1 => x % n = x + n
<1>1. x \in 0 .. n - 1 => x % n = x
  OBVIOUS
<1>2. x \in n .. 2 * n - 1 => x % n = x - n
  OBVIOUS
<1>3. x \in -n .. -1 => x % n = x + n
  OBVIOUS
<1> QED BY <1>1, <1>2, <1>3

(* Unread is the distance from read_index to write_index.                  *)
LEMMA UnreadIsDistance ==
    ASSUME read_index \in Slot, write_index \in Slot
    PROVE  /\ Unread = Distance(read_index, write_index)
           /\ Unread \in Slot
<1>1. /\ write_index - read_index \in Int /\ StorageSize \in Nat \ {0}
      /\ read_index \in Int /\ write_index \in Int
  BY StorageSizeAssumption DEF Slot
<1>2. CASE write_index >= read_index
  <2>1. write_index - read_index \in 0 .. StorageSize - 1
    BY <1>1, <1>2 DEF Slot
  <2>2. Unread = write_index - read_index
    BY <1>1, <2>1, Remainder DEF Unread
  <2> QED BY <1>2, <2>1, <2>2 DEF Distance, Slot
<1>3. CASE ~(write_index >= read_index)
  <2>1. write_index - read_index \in -StorageSize .. -1
    BY <1>1, <1>3 DEF Slot
  <2>2. Unread = write_index - read_index + StorageSize
    BY <1>1, <2>1, Remainder DEF Unread
  <2> QED BY <1>1, <1>3, <2>2 DEF Distance, Slot
<1> QED BY <1>2, <1>3

(* What mizu_fifo_used and mizu_fifo_free compute from one value of each   *)
(* index: a distance, and the room it leaves.                              *)
LEMMA UsedIsDistance ==
    ASSUME NEW r \in Slot, NEW w \in Slot
    PROVE  /\ Used(w, r, w, r) = Distance(r, w)
           /\ Used(w, r, w, r) \in Slot
<1>1. Distance(r, w) \in Slot
  BY StorageSizeAssumption DEF Distance, Slot
<1>2. Distance(r, w) \in 0 .. SizeModulus - 1 /\ SizeModulus \in Nat \ {0}
  BY <1>1, StorageSizeAssumption, SizeModulusAssumption DEF Slot
<1>3. Distance(r, w) % SizeModulus = Distance(r, w)
  BY <1>2, Remainder
<1>4. Used(w, r, w, r) = Distance(r, w) % SizeModulus
  <2>1. w \in Int /\ r \in Int /\ StorageSize \in Int
    BY StorageSizeAssumption DEF Slot
  <2>2. StorageSize - r + w = w - r + StorageSize
    BY <2>1
  <2> QED BY <2>2 DEF Used, Distance
<1> QED BY <1>1, <1>3, <1>4

LEMMA FreeIsRoom ==
    ASSUME NEW used \in Slot
    PROVE  Free(used) = StorageSize - 1 - used
BY Remainder, StorageSizeAssumption, SizeModulusAssumption DEF Free, Slot

(* A publication moves the index round the ring by the size of the batch.  *)
LEMMA AdvanceStaysInRing ==
    ASSUME NEW index \in Slot, NEW count \in 0 .. StorageSize
    PROVE  /\ Advance(index, count) \in Slot
           /\ count < StorageSize => Distance(index, Advance(index, count)) = count
BY StorageSizeAssumption DEF Advance, Slot, Distance

-----------------------------------------------------------------------------
LEMMA Initiation == Init => IInv
<1> SUFFICES ASSUME Init PROVE IInv
  OBVIOUS
<1>1. 0 \in Slot /\ 0 \in 0 .. StorageSize
  BY StorageSizeAssumption DEF Slot
<1>2. << >> \in Seq(Byte) /\ Len(<< >>) = 0
  OBVIOUS
<1>3. TypeOK
  BY <1>1, <1>2 DEF Init, TypeOK, IdleWriter, IdleReader, Status
<1>4. CallsFit
  BY <1>2, StorageSizeAssumption DEF Init, CallsFit, IdleWriter, IdleReader
<1>5. WriterKnows /\ ReaderKnows /\ NoCallBeforeInit
  BY DEF Init, WriterKnows, ReaderKnows, NoCallBeforeInit, IdleWriter, IdleReader
<1> QED BY <1>3, <1>4, <1>5 DEF IInv

LEMMA WriterSteps ==
    ASSUME IInv, ~ReloadIndex, WriterWork
    PROVE  IInv'
<1> USE StorageSizeAssumption, TransferAssumption
<1>1. CASE WriteEnter
  <2>1. PICK size \in WriteSizes : \E data \in Batch(size) :
           /\ EntryStatus(size, FALSE) = "NONE"
           /\ writer' = [pc |-> "check", data |-> data, seen |-> read_index,
                         copied |-> 0, status |-> "NONE"]
    BY <1>1 DEF WriteEnter
  <2>2. PICK data \in Batch(size) :
           /\ EntryStatus(size, FALSE) = "NONE"
           /\ writer' = [pc |-> "check", data |-> data, seen |-> read_index,
                         copied |-> 0, status |-> "NONE"]
    BY <2>1
  <2>3. data \in Seq(Byte) /\ Len(data) = size /\ size \in 0 .. StorageSize
    BY DEF Batch
  <2>4. initialized
    BY <2>2 DEF EntryStatus
  <2>5. UNCHANGED <<fifo, reader, received>> /\ writer.pc = "idle"
    BY <1>1 DEF WriteEnter
  <2> QED
    BY <2>2, <2>3, <2>4, <2>5
    DEF IInv, TypeOK, CallsFit, WriterKnows, ReaderKnows, NoCallBeforeInit, fifo, Slot,
        Status, Distance
<1>2. CASE WriteAdmit
  <2>1. Distance(writer.seen, write_index) \in Slot
    BY DEF IInv, TypeOK, Distance, Slot
  <2>2. Len(writer.data) <= StorageSize - 1 - Distance(writer.seen, write_index)
    BY <1>2, <2>1, UsedIsDistance, FreeIsRoom DEF WriteAdmit, WriterFree, IInv, TypeOK
  <2>3. Distance(read_index, write_index) <= Distance(writer.seen, write_index)
    BY <1>2 DEF IInv, TypeOK, WriterKnows, WriteAdmit, Distance, Slot
  <2>4. /\ writer'.pc = "copy" /\ writer'.data = writer.data /\ writer'.copied = writer.copied
        /\ UNCHANGED <<fifo, reader, received>> /\ writer.pc = "check"
    BY <1>2 DEF WriteAdmit, IInv, TypeOK
  <2>5. TypeOK'
    <3>1. 0 \in Slot
      BY DEF Slot
    <3> QED BY <1>2, <2>4, <3>1 DEF WriteAdmit, IInv, TypeOK, fifo
  <2>6. WriterKnows'
    <3>1. Distance(read_index, write_index) \in Slot /\ Len(writer.data) \in Nat
      BY DEF Distance, Slot, IInv, TypeOK
    <3>2. Len(writer.data) + Distance(read_index, write_index) < StorageSize
      BY <2>1, <2>2, <2>3, <3>1 DEF Slot
    <3> QED BY <2>4, <3>2 DEF WriterKnows, Distance, fifo
  <2>7. CallsFit' /\ ReaderKnows' /\ NoCallBeforeInit'
    BY <2>4 DEF IInv, CallsFit, ReaderKnows, NoCallBeforeInit, Distance, fifo
  <2> QED BY <2>5, <2>6, <2>7 DEF IInv
<1>3. CASE WriteFull
  BY <1>3
  DEF WriteFull, IdleWriter, IInv, TypeOK, CallsFit, WriterKnows, ReaderKnows,
      NoCallBeforeInit, fifo, Status, Slot
<1>4. CASE WriteCopy
  <2>1. writer.data[writer.copied + 1] \in Byte
    BY <1>4 DEF WriteCopy, IInv, TypeOK
  <2>2. storage' \in [Slot -> Byte]
    BY <1>4, <2>1 DEF WriteCopy, IInv, TypeOK
  <2>3. writer.copied + 1 \in 0 .. StorageSize
    BY <1>4 DEF WriteCopy, IInv, TypeOK, CallsFit
  <2> QED
    BY <1>4, <2>2, <2>3
    DEF WriteCopy, IInv, TypeOK, CallsFit, WriterKnows, ReaderKnows, NoCallBeforeInit, Distance
<1>5. CASE WritePublish
  <2> DEFINE n == Len(writer.data)
  <2>1. n \in 0 .. StorageSize
    BY DEF IInv, TypeOK, CallsFit
  <2>2. n + Distance(read_index, write_index) < StorageSize
    BY <1>5 DEF WritePublish, IInv, WriterKnows
  <2>3. write_index' \in Slot
    BY <1>5, <2>1, AdvanceStaysInRing DEF WritePublish, IInv, TypeOK
  <2>4. Distance(read_index, write_index') = n + Distance(read_index, write_index)
    BY <1>5, <2>1, <2>2 DEF WritePublish, Advance, Distance, Slot, IInv, TypeOK
  <2>5. UNCHANGED <<initialized, storage, read_index, reader, received>>
        /\ writer' = IdleWriter("OK") /\ writer.pc = "copy"
    BY <1>5 DEF WritePublish
  <2>6. TypeOK' /\ CallsFit' /\ WriterKnows' /\ NoCallBeforeInit'
    BY <2>3, <2>5
    DEF IInv, TypeOK, CallsFit, WriterKnows, NoCallBeforeInit, IdleWriter, Status, Slot
  <2>7. ReaderKnows'
    <3>1. read_index' = read_index /\ reader' = reader
      BY <2>5
    <3>2. Distance(read_index, write_index') >= Distance(read_index, write_index)
      BY <2>1, <2>4 DEF Distance, IInv, TypeOK, Slot
    <3>3. CASE reader.pc = "check"
      <4>1. Distance(read_index, reader.seen) <= Distance(read_index, write_index)
        BY <3>3 DEF IInv, ReaderKnows
      <4>2. Distance(read_index, reader.seen) \in Int
        BY DEF IInv, TypeOK, Distance, Slot
      <4>3. Distance(read_index, write_index) \in Int
            /\ Distance(read_index, write_index') \in Int
        BY <2>3 DEF IInv, TypeOK, Distance, Slot
      <4>4. Distance(read_index, reader.seen) <= Distance(read_index, write_index')
        BY <3>2, <4>1, <4>2, <4>3
      <4> QED BY <3>1, <3>3, <4>4 DEF ReaderKnows, Distance
    <3>4. CASE reader.pc = "copy"
      <4>1. reader.size <= Distance(read_index, write_index)
        BY <3>4 DEF IInv, ReaderKnows
      <4>2. reader.size \in Int /\ Distance(read_index, write_index) \in Int
            /\ Distance(read_index, write_index') \in Int
        BY <2>3 DEF IInv, TypeOK, Distance, Slot
      <4>3. reader.size <= Distance(read_index, write_index')
        BY <3>2, <4>1, <4>2
      <4> QED BY <3>1, <3>4, <4>3 DEF ReaderKnows, Distance
    <3>5. CASE reader.pc \notin {"check", "copy"}
      BY <3>1, <3>5 DEF ReaderKnows
    <3> QED BY <3>3, <3>4, <3>5
  <2> QED BY <2>6, <2>7 DEF IInv
<1> QED BY <1>1, <1>2, <1>3, <1>4, <1>5 DEF WriterWork

LEMMA ReaderSteps ==
    ASSUME IInv, ~ReloadIndex, ReaderWork
    PROVE  IInv'
<1> USE StorageSizeAssumption, TransferAssumption
<1>1. CASE ReadEnter
  <2>1. PICK size \in ReadSizes :
           /\ EntryStatus(size, FALSE) = "NONE"
           /\ reader' = [pc |-> "check", size |-> size, seen |-> write_index,
                         output |-> << >>, status |-> "NONE"]
    BY <1>1 DEF ReadEnter
  <2>2. size \in 0 .. StorageSize
    OBVIOUS
  <2>3. initialized
    BY <2>1 DEF EntryStatus
  <2>4. UNCHANGED <<fifo, writer, received>> /\ reader.pc = "idle"
    BY <1>1 DEF ReadEnter
  <2>5. << >> \in Seq(Byte) /\ Len(<< >>) = 0
    OBVIOUS
  <2>6. TypeOK'
    BY <2>1, <2>2, <2>4, <2>5 DEF IInv, TypeOK, fifo, Status
  <2>7. CallsFit'
    BY <2>1, <2>2, <2>4, <2>5 DEF IInv, CallsFit
  <2>8. WriterKnows'
    BY <2>4 DEF IInv, WriterKnows, fifo, Distance
  <2>9. ReaderKnows'
    <3>1. Distance(read_index, write_index) <= Distance(read_index, write_index)
      BY DEF Distance, IInv, TypeOK, Slot
    <3> QED BY <2>1, <2>4, <3>1 DEF ReaderKnows, fifo, Distance
  <2>10. NoCallBeforeInit'
    BY <2>3, <2>4 DEF NoCallBeforeInit, fifo
  <2> QED BY <2>6, <2>7, <2>8, <2>9, <2>10 DEF IInv
<1>2. CASE ReadAdmit
  <2>1. Distance(read_index, reader.seen) \in Slot
    BY DEF IInv, TypeOK, Distance, Slot
  <2>2. reader.size <= Distance(read_index, reader.seen)
    BY <1>2, UsedIsDistance DEF ReadAdmit, ReaderUsed, IInv, TypeOK
  <2>3. Distance(read_index, reader.seen) <= Distance(read_index, write_index)
    BY <1>2 DEF ReadAdmit, IInv, ReaderKnows
  <2>4. /\ reader'.pc = "copy" /\ reader'.size = reader.size /\ reader'.output = reader.output
        /\ UNCHANGED <<fifo, writer, received>> /\ reader.pc = "check"
    BY <1>2 DEF ReadAdmit, IInv, TypeOK
  <2>5. TypeOK'
    <3>1. 0 \in Slot
      BY DEF Slot
    <3> QED BY <1>2, <2>4, <3>1 DEF ReadAdmit, IInv, TypeOK, fifo
  <2>6. ReaderKnows'
    <3>1. Distance(read_index, write_index) \in Int /\ reader.size \in Int
      BY DEF Distance, Slot, IInv, TypeOK
    <3>2. reader.size <= Distance(read_index, write_index)
      BY <2>1, <2>2, <2>3, <3>1 DEF Slot
    <3> QED BY <2>4, <3>2 DEF ReaderKnows, Distance, fifo
  <2>7. CallsFit' /\ WriterKnows' /\ NoCallBeforeInit'
    BY <2>4 DEF IInv, CallsFit, WriterKnows, NoCallBeforeInit, Distance, fifo
  <2> QED BY <2>5, <2>6, <2>7 DEF IInv
<1>3. CASE ReadEmpty
  <2>1. << >> \in Seq(Byte) /\ Len(<< >>) = 0
    OBVIOUS
  <2>2. reader' = IdleReader("EMPTY") /\ UNCHANGED <<fifo, writer, received>>
    BY <1>3 DEF ReadEmpty
  <2> QED
    BY <2>1, <2>2
    DEF IdleReader, IInv, TypeOK, CallsFit, WriterKnows, ReaderKnows, NoCallBeforeInit, fifo,
        Status, Slot, Distance
<1>4. CASE ReadCopy
  <2> DEFINE i == Len(reader.output)
             byte == storage[Position(read_index, reader.size, i)]
  <2>1. i \in 0 .. reader.size - 1 /\ reader.size \in 0 .. StorageSize /\ reader.pc = "copy"
    BY <1>4 DEF ReadCopy, IInv, TypeOK
  <2>2. Position(read_index, reader.size, i) \in Slot
    BY <2>1 DEF Position, Slot, IInv, TypeOK
  <2>3. byte \in Byte
    BY <2>2 DEF IInv, TypeOK
  <2>4. Append(reader.output, byte) \in Seq(Byte) /\ Len(Append(reader.output, byte)) = i + 1
    BY <2>3 DEF IInv, TypeOK
  <2>5. /\ reader'.output = Append(reader.output, byte) /\ reader'.size = reader.size
        /\ reader'.pc = "copy" /\ reader'.seen = reader.seen
        /\ UNCHANGED <<fifo, writer, received>>
    BY <1>4, <2>1 DEF ReadCopy, IInv, TypeOK
  <2>6. TypeOK'
    BY <1>4, <2>4, <2>5 DEF ReadCopy, IInv, TypeOK, fifo
  <2>7. CallsFit'
    <3>1. i + 1 <= reader.size
      BY <2>1
    <3>2. Len(reader'.output) <= reader'.size
      BY <2>4, <2>5, <3>1
    <3> QED BY <2>5, <3>2 DEF IInv, CallsFit
  <2>8. WriterKnows' /\ ReaderKnows' /\ NoCallBeforeInit'
    BY <2>1, <2>5 DEF IInv, WriterKnows, ReaderKnows, NoCallBeforeInit, Distance, fifo
  <2> QED BY <2>6, <2>7, <2>8 DEF IInv
<1>5. CASE ReadPublish
  <2>1. /\ reader.pc = "copy" /\ reader' = IdleReader("OK") /\ received' = reader.output
        /\ read_index' = Advance(read_index, reader.size)
        /\ UNCHANGED <<initialized, storage, write_index, writer>>
    BY <1>5 DEF ReadPublish
  <2>2. reader.size \in 0 .. StorageSize /\ reader.size <= Distance(read_index, write_index)
    BY <2>1 DEF IInv, TypeOK, ReaderKnows
  <2>3. read_index' \in Slot
    BY <2>1, <2>2, AdvanceStaysInRing DEF IInv, TypeOK
  <2>4. Distance(read_index', write_index) = Distance(read_index, write_index) - reader.size
    BY <2>1, <2>2 DEF Advance, Distance, Slot, IInv, TypeOK
  <2>5. << >> \in Seq(Byte) /\ Len(<< >>) = 0
    OBVIOUS
  <2>6. TypeOK'
    BY <2>1, <2>3, <2>5 DEF IInv, TypeOK, IdleReader, Status, Slot
  <2>7. CallsFit' /\ ReaderKnows' /\ NoCallBeforeInit'
    BY <2>1, <2>5 DEF IInv, CallsFit, ReaderKnows, NoCallBeforeInit, IdleReader
  <2>8. WriterKnows'
    <3>1. CASE writer.pc = "check"
      <4>1. Distance(writer.seen, read_index) <= Distance(writer.seen, write_index)
        BY <3>1 DEF IInv, WriterKnows
      <4>2. writer.seen \in Slot /\ read_index \in Slot /\ write_index \in Slot
        BY DEF IInv, TypeOK
      <4>3. Distance(writer.seen, read_index') <= Distance(writer.seen, write_index)
        BY <2>1, <2>2, <4>1, <4>2 DEF Advance, Distance, Slot
      <4> QED BY <2>1, <3>1, <4>3 DEF WriterKnows, Distance
    <3>2. CASE writer.pc = "copy"
      <4>1. Len(writer.data) + Distance(read_index, write_index) < StorageSize
        BY <3>2 DEF IInv, WriterKnows
      <4>2. Len(writer.data) \in Int /\ Distance(read_index, write_index) \in Int
        BY DEF IInv, TypeOK, Distance, Slot
      <4>3. Len(writer.data) + Distance(read_index', write_index) < StorageSize
        BY <2>2, <2>4, <4>1, <4>2
      <4> QED BY <2>1, <3>2, <4>3 DEF WriterKnows, Distance
    <3>3. CASE writer.pc \notin {"check", "copy"}
      BY <2>1, <3>3 DEF WriterKnows
    <3> QED BY <3>1, <3>2, <3>3
  <2> QED BY <2>6, <2>7, <2>8 DEF IInv
<1> QED BY <1>1, <1>2, <1>3, <1>4, <1>5 DEF ReaderWork

LEMMA OtherSteps ==
    ASSUME IInv, FifoInit \/ WriteReturnsEarly \/ ReadReturnsEarly \/ UNCHANGED vars
    PROVE  IInv'
<1>1. 0 \in Slot /\ 0 \in 0 .. StorageSize
  BY StorageSizeAssumption DEF Slot
<1>2. << >> \in Seq(Byte) /\ Len(<< >>) = 0
  OBVIOUS
<1>3. \A size, isNull : EntryStatus(size, isNull) \in Status
  BY DEF EntryStatus, Status
<1>4. CASE FifoInit
  <2>1. writer.pc = "idle" /\ reader.pc = "idle"
    BY <1>4 DEF FifoInit, IInv, NoCallBeforeInit
  <2> QED
    BY <1>1, <1>4, <2>1
    DEF FifoInit, IInv, TypeOK, CallsFit, WriterKnows, ReaderKnows, NoCallBeforeInit
<1>5. CASE WriteReturnsEarly
  <2>1. PICK status \in Status : writer' = IdleWriter(status)
    BY <1>3, <1>5 DEF WriteReturnsEarly
  <2>2. UNCHANGED <<fifo, reader, received>>
    BY <1>5 DEF WriteReturnsEarly
  <2>3. TypeOK'
    BY <1>1, <1>2, <2>1, <2>2 DEF IInv, TypeOK, IdleWriter, fifo
  <2>4. CallsFit'
    BY <1>2, <2>1, <2>2, StorageSizeAssumption DEF IInv, CallsFit, IdleWriter
  <2>5. WriterKnows' /\ ReaderKnows' /\ NoCallBeforeInit'
    BY <2>1, <2>2
    DEF IInv, WriterKnows, ReaderKnows, NoCallBeforeInit, IdleWriter, fifo, Distance
  <2> QED BY <2>3, <2>4, <2>5 DEF IInv
<1>6. CASE ReadReturnsEarly
  <2>1. PICK status \in Status : reader' = IdleReader(status)
    BY <1>3, <1>6 DEF ReadReturnsEarly
  <2>2. UNCHANGED <<fifo, writer, received>>
    BY <1>6 DEF ReadReturnsEarly
  <2>3. TypeOK'
    BY <1>1, <1>2, <2>1, <2>2 DEF IInv, TypeOK, IdleReader, fifo
  <2>4. CallsFit'
    BY <1>2, <2>1, <2>2 DEF IInv, CallsFit, IdleReader
  <2>5. WriterKnows' /\ ReaderKnows' /\ NoCallBeforeInit'
    BY <2>1, <2>2
    DEF IInv, WriterKnows, ReaderKnows, NoCallBeforeInit, IdleReader, fifo, Distance
  <2> QED BY <2>3, <2>4, <2>5 DEF IInv
<1>7. CASE UNCHANGED vars
  BY <1>7
  DEF vars, fifo, IInv, TypeOK, CallsFit, WriterKnows, ReaderKnows, NoCallBeforeInit, Distance
<1> QED BY <1>4, <1>5, <1>6, <1>7

LEMMA Consecution ==
    ASSUME ~ReloadIndex
    PROVE  IInv /\ [Next]_vars => IInv'
BY WriterSteps, ReaderSteps, OtherSteps DEF Next

LEMMA Invariance == ASSUME ~ReloadIndex PROVE Spec => []IInv
<1>1. IInv /\ [Next]_vars => IInv'
  BY Consecution
<1> QED BY <1>1, Initiation, PTL DEF Spec

-----------------------------------------------------------------------------
(* Every field keeps its type and both indices stay below storage_size, so *)
(* mizu_fifo_check never returns INVALID_STATE for an initialized object.  *)
THEOREM TypeCorrect == ASSUME ~ReloadIndex PROVE Spec => []TypeOK
<1>1. IInv => TypeOK
  BY DEF IInv
<1> QED BY <1>1, Invariance, PTL

LEMMA SumRemainder ==
    ASSUME NEW a \in Slot, NEW b \in 0 .. StorageSize
    PROVE  (a + b) % StorageSize = IF a + b < StorageSize THEN a + b ELSE a + b - StorageSize
<1>1. StorageSize \in Nat \ {0} /\ a \in Int /\ b \in Int
  BY StorageSizeAssumption DEF Slot
<1>2. CASE a + b < StorageSize
  BY <1>1, <1>2 DEF Slot
<1>3. CASE ~(a + b < StorageSize)
  <2>1. a + b < 2 * StorageSize
    BY <1>1 DEF Slot
  <2> QED BY <1>1, <1>3, <2>1
<1> QED BY <1>2, <1>3

(* A transfer of at most storage_size bytes that starts at base occupies   *)
(* the slots from base on.                                                 *)
LEMMA PositionIsOffset ==
    ASSUME NEW base \in Slot, NEW size \in 0 .. StorageSize, NEW i \in 0 .. size - 1
    PROVE  Position(base, size, i) = (base + i) % StorageSize
<1>1. Position(base, size, i) = IF base + i < StorageSize THEN base + i
                                                          ELSE base + i - StorageSize
  BY StorageSizeAssumption DEF Position, Slot
<1>2. i \in 0 .. StorageSize
  BY StorageSizeAssumption
<1> QED BY <1>1, <1>2, SumRemainder, Zenon

(* The slots that a write in progress touches are never those of bytes the *)
(* consumer has not read: mizu_fifo_write does not overwrite unread data,  *)
(* for every storage size, every batch and every interleaving.             *)
THEOREM NothingOverwritten ==
    ASSUME ~ReloadIndex PROVE Spec => []WriteNeverOverwritesUnread
<1>1. ASSUME IInv PROVE WriteNeverOverwritesUnread
  <2>1. read_index \in Slot /\ write_index \in Slot /\ Unread \in Slot
        /\ Unread = Distance(read_index, write_index)
    BY <1>1, UnreadIsDistance DEF IInv, TypeOK
  <2>2. SUFFICES ASSUME writer.pc = "copy",
                        NEW i \in 0 .. Len(writer.data) - 1, NEW j \in 0 .. Unread - 1
                 PROVE  Position(write_index, Len(writer.data), i) # UnreadSlot(j)
    BY DEF WriteNeverOverwritesUnread, WriterSlots, UnreadSlots
  <2>3. PICK n \in 0 .. StorageSize : n = Len(writer.data)
    BY <1>1, <2>2 DEF IInv, TypeOK, CallsFit
  <2>4. PICK u \in Slot : u = Unread /\ u = Distance(read_index, write_index)
    BY <2>1
  <2>5. n + u < StorageSize
    BY <1>1, <2>2, <2>3, <2>4 DEF IInv, WriterKnows
  <2>6. i \in 0 .. n - 1 /\ j \in 0 .. u - 1
    BY <2>3, <2>4
  <2>7. Position(write_index, n, i) = IF write_index + i < StorageSize
              THEN write_index + i ELSE write_index + i - StorageSize
    BY <2>1, <2>3, <2>6, StorageSizeAssumption DEF Position, Slot
  <2>8. UnreadSlot(j) = IF read_index + j < StorageSize
              THEN read_index + j ELSE read_index + j - StorageSize
    <3>1. j \in 0 .. StorageSize
      BY <2>4, <2>6, StorageSizeAssumption DEF Slot
    <3> QED BY <2>1, <3>1, SumRemainder, Zenon DEF UnreadSlot
  <2>9. Position(write_index, n, i) # UnreadSlot(j)
    BY <2>1, <2>4, <2>5, <2>6, <2>7, <2>8, StorageSizeAssumption DEF Distance, Slot
  <2> QED BY <2>3, <2>9
<1> QED BY <1>1, Invariance, PTL

(* The slots that a read in progress looks at all hold bytes a finished    *)
(* write has published: mizu_fifo_read never hands out a byte too early.   *)
THEOREM NothingReadEarly == ASSUME ~ReloadIndex PROVE Spec => []ReadOnlyPublished
<1>1. ASSUME IInv PROVE ReadOnlyPublished
  <2>1. SUFFICES ASSUME reader.pc = "copy", NEW i \in 0 .. reader.size - 1
                 PROVE  Position(read_index, reader.size, i) \in UnreadSlots
    BY DEF ReadOnlyPublished, ReaderSlots
  <2>2. /\ read_index \in Slot /\ reader.size \in 0 .. StorageSize
        /\ Unread \in Slot /\ reader.size <= Unread
    BY <1>1, <2>1, UnreadIsDistance DEF IInv, TypeOK, ReaderKnows
  <2>3. Position(read_index, reader.size, i) = UnreadSlot(i)
    BY <2>2, PositionIsOffset DEF UnreadSlot
  <2>4. i \in 0 .. Unread - 1
    BY <2>2 DEF Slot
  <2> QED BY <2>3, <2>4 DEF UnreadSlots
<1> QED BY <1>1, Invariance, PTL
-----------------------------------------------------------------------------
(***************************************************************************)
(* The refinement needs to know, besides, what the calls have done so far: *)
(* the bytes copied are those of the batch, the bytes handed out are those *)
(* of the queue.                                                           *)
(***************************************************************************)
CallsCarry ==
    /\ writer.pc = "idle" <=> writer.data = << >>
    /\ writer.pc = "check" => writer.copied = 0
    /\ reader.pc # "idle" => reader.size >= 1
    /\ reader.pc = "check" => Len(reader.output) = 0
    /\ ~initialized => read_index = 0 /\ write_index = 0
CopiedSoFar ==
    writer.pc = "copy" =>
        \A i \in 0 .. writer.copied - 1 :
            storage[(write_index + i) % StorageSize] = writer.data[i + 1]
ReadSoFar ==
    reader.pc = "copy" =>
        \A i \in 0 .. Len(reader.output) - 1 :
            reader.output[i + 1] = storage[(read_index + i) % StorageSize]

QueueInv == IInv /\ CallsCarry /\ CopiedSoFar /\ ReadSoFar

(* The n bytes from slot first on.                                         *)
Bytes(bytes, first, n) == [i \in 1 .. n |-> bytes[(first + (i - 1)) % StorageSize]]

LEMMA BytesAreASequence ==
    ASSUME NEW bytes \in [Slot -> Byte], NEW first \in Slot, NEW n \in 0 .. StorageSize
    PROVE  /\ Bytes(bytes, first, n) \in Seq(Byte)
           /\ Len(Bytes(bytes, first, n)) = n
           /\ \A i \in 1 .. n :
                 Bytes(bytes, first, n)[i] = bytes[(first + (i - 1)) % StorageSize]
<1>1. n \in Nat
  BY StorageSizeAssumption
<1>2. ASSUME NEW i \in 1 .. n PROVE bytes[(first + (i - 1)) % StorageSize] \in Byte
  <2>1. i - 1 \in 0 .. StorageSize
    BY StorageSizeAssumption
  <2>2. (first + (i - 1)) % StorageSize \in Slot
    BY <2>1, SumRemainder, StorageSizeAssumption DEF Slot
  <2> QED BY <2>2
<1>3. Bytes(bytes, first, n) \in [1 .. n -> Byte]
  BY <1>2 DEF Bytes
<1>4. Bytes(bytes, first, n) \in Seq(Byte) /\ Len(Bytes(bytes, first, n)) = n
  <2>1. Bytes(bytes, first, n) \in Seq(Byte)
    BY <1>1, <1>3, SeqDef
  <2>2. DOMAIN Bytes(bytes, first, n) = 1 .. n
    BY <1>3
  <2>3. Len(Bytes(bytes, first, n)) = n
    BY <1>1, <2>1, <2>2, LenProperties
  <2> QED BY <2>1, <2>3
<1> QED BY <1>4 DEF Bytes

LEMMA ContentIsBytes == Content = Bytes(storage, read_index, Unread)
BY DEF Content, Bytes, UnreadSlot

(* A read takes the first bytes and leaves the rest.                       *)
LEMMA BytesTaken ==
    ASSUME NEW bytes \in [Slot -> Byte], NEW first \in Slot, NEW n \in Slot,
           NEW count \in 1 .. n, NEW output \in Seq(Byte), Len(output) = count,
           \A i \in 0 .. count - 1 : output[i + 1] = bytes[(first + i) % StorageSize]
    PROVE  /\ output = SubSeq(Bytes(bytes, first, n), 1, count)
           /\ Bytes(bytes, Advance(first, count), n - count)
                  = SubSeq(Bytes(bytes, first, n), count + 1, n)
<1> DEFINE all == Bytes(bytes, first, n)
           rest == Bytes(bytes, Advance(first, count), n - count)
<1>1. /\ n \in 0 .. StorageSize /\ n - count \in 0 .. StorageSize
      /\ count \in 0 .. StorageSize /\ n \in Int /\ count \in Int /\ first \in Int
      /\ StorageSize \in Int /\ n < StorageSize
  BY StorageSizeAssumption DEF Slot
<1>2. Advance(first, count) \in Slot
  BY <1>1, AdvanceStaysInRing
<1>3. /\ all \in Seq(Byte) /\ Len(all) = n
      /\ \A i \in 1 .. n : all[i] = bytes[(first + (i - 1)) % StorageSize]
  BY <1>1, BytesAreASequence
<1>4. /\ rest \in Seq(Byte) /\ Len(rest) = n - count
      /\ \A i \in 1 .. n - count :
            rest[i] = bytes[(Advance(first, count) + (i - 1)) % StorageSize]
  BY <1>1, <1>2, BytesAreASequence
<1>5. \A i \in 1 .. n : all[i] \in Byte
  BY <1>3, ElementOfSeq
<1> HIDE DEF all, rest
<1>6. output = SubSeq(all, 1, count)
  <2>1. /\ SubSeq(all, 1, count) \in Seq(Byte) /\ Len(SubSeq(all, 1, count)) = count
        /\ \A i \in 1 .. count : SubSeq(all, 1, count)[i] = all[i]
    <3>1. \A i \in 1 .. count : all[i] \in Byte
      BY <1>1, <1>5
    <3> QED BY <1>1, <3>1, SubSeqProperties
  <2>2. ASSUME NEW i \in 1 .. count PROVE output[i] = all[i]
    <3>1. i - 1 \in 0 .. count - 1 /\ (i - 1) + 1 = i /\ i \in 1 .. n
      BY <1>1
    <3> QED BY <1>3, <3>1
  <2> QED BY <2>1, <2>2, SeqEqual
<1>7. rest = SubSeq(all, count + 1, n)
  <2>1. /\ SubSeq(all, count + 1, n) \in Seq(Byte)
        /\ Len(SubSeq(all, count + 1, n)) = n - count
        /\ \A i \in 1 .. n - count : SubSeq(all, count + 1, n)[i] = all[count + i]
    <3>1. \A i \in count + 1 .. n : all[i] \in Byte
      BY <1>1, <1>5
    <3>2. \A i \in 1 .. n - (count + 1) + 1 :
              SubSeq(all, count + 1, n)[i] = all[(count + 1) + i - 1]
      BY <1>1, <3>1, SubSeqProperties
    <3>3. Len(SubSeq(all, count + 1, n)) = IF count + 1 <= n THEN n - (count + 1) + 1 ELSE 0
      BY <1>1, <3>1, SubSeqProperties
    <3>4. SubSeq(all, count + 1, n) \in Seq(Byte)
      BY <1>1, <3>1, SubSeqProperties
    <3>5. Len(SubSeq(all, count + 1, n)) = n - count
      BY <1>1, <3>3
    <3>6. ASSUME NEW i \in 1 .. n - count PROVE SubSeq(all, count + 1, n)[i] = all[count + i]
      <4>1. i \in 1 .. n - (count + 1) + 1 /\ (count + 1) + i - 1 = count + i
        BY <1>1
      <4> QED BY <3>2, <4>1
    <3> QED BY <3>4, <3>5, <3>6
  <2>2. ASSUME NEW i \in 1 .. n - count PROVE rest[i] = all[count + i]
    <3>1. (Advance(first, count) + (i - 1)) % StorageSize
              = IF Advance(first, count) + (i - 1) < StorageSize
                THEN Advance(first, count) + (i - 1)
                ELSE Advance(first, count) + (i - 1) - StorageSize
      <4>1. i - 1 \in 0 .. StorageSize
        BY <1>1
      <4> QED BY <1>2, <4>1, SumRemainder, Zenon
    <3>2. (first + (count + i - 1)) % StorageSize
              = IF first + (count + i - 1) < StorageSize
                THEN first + (count + i - 1)
                ELSE first + (count + i - 1) - StorageSize
      <4>1. count + i - 1 \in 0 .. StorageSize
        BY <1>1
      <4> QED BY <4>1, SumRemainder, Zenon
    <3>3. (Advance(first, count) + (i - 1)) % StorageSize
              = (first + (count + i - 1)) % StorageSize
      BY <1>1, <3>1, <3>2 DEF Advance, Slot
    <3>4. count + i \in 1 .. n
      BY <1>1
    <3> QED BY <1>3, <1>4, <3>3, <3>4
  <2>3. Len(rest) = Len(SubSeq(all, count + 1, n))
    BY <1>4, <2>1
  <2>4. \A i \in 1 .. Len(rest) : rest[i] = SubSeq(all, count + 1, n)[i]
    BY <1>4, <2>1, <2>2
  <2> QED BY <1>4, <2>1, <2>3, <2>4, SeqEqual
<1> QED BY <1>6, <1>7 DEF all, rest

(* A write appends its batch.                                              *)
LEMMA BytesAppended ==
    ASSUME NEW bytes \in [Slot -> Byte], NEW first \in Slot, NEW last \in Slot,
           NEW data \in Seq(Byte), Len(data) + Distance(first, last) < StorageSize,
           \A i \in 0 .. Len(data) - 1 :
               bytes[(last + i) % StorageSize] = data[i + 1]
    PROVE  Bytes(bytes, first, Distance(first, last) + Len(data))
               = Bytes(bytes, first, Distance(first, last)) \o data
<1> DEFINE n == Distance(first, last)
           m == Len(data)
           old == Bytes(bytes, first, n)
           new == Bytes(bytes, first, n + m)
<1>1. /\ n \in 0 .. StorageSize /\ m \in Nat /\ n \in Nat /\ n + m < StorageSize
      /\ n + m \in 0 .. StorageSize /\ StorageSize \in Int
  BY LenProperties, StorageSizeAssumption DEF Distance, Slot
<1>2. /\ old \in Seq(Byte) /\ Len(old) = n
      /\ \A i \in 1 .. n : old[i] = bytes[(first + (i - 1)) % StorageSize]
  BY <1>1, BytesAreASequence
<1>3. /\ new \in Seq(Byte) /\ Len(new) = n + m
      /\ \A i \in 1 .. n + m : new[i] = bytes[(first + (i - 1)) % StorageSize]
  BY <1>1, BytesAreASequence
<1>4. /\ old \o data \in Seq(Byte) /\ Len(old \o data) = n + m
      /\ \A i \in 1 .. n + m :
            (old \o data)[i] = IF i <= n THEN old[i] ELSE data[i - n]
  BY <1>2, ConcatProperties
<1>5. ASSUME NEW i \in 1 .. n + m, ~(i <= n)
      PROVE  bytes[(first + (i - 1)) % StorageSize] = data[i - n]
  <2>1. i - n - 1 \in 0 .. m - 1 /\ i - n - 1 + 1 = i - n /\ i \in Int
    BY <1>1, <1>5
  <2>2. (last + (i - n - 1)) % StorageSize
            = IF last + (i - n - 1) < StorageSize
              THEN last + (i - n - 1) ELSE last + (i - n - 1) - StorageSize
    <3>1. i - n - 1 \in 0 .. StorageSize
      BY <1>1, <2>1
    <3> QED BY <3>1, SumRemainder, Zenon
  <2>3. (first + (i - 1)) % StorageSize
            = IF first + (i - 1) < StorageSize
              THEN first + (i - 1) ELSE first + (i - 1) - StorageSize
    <3>1. i - 1 \in 0 .. StorageSize
      BY <1>1, <2>1
    <3> QED BY <3>1, SumRemainder, Zenon
  <2>4. (first + (i - 1)) % StorageSize = (last + (i - n - 1)) % StorageSize
    BY <1>1, <2>1, <2>2, <2>3 DEF Distance, Slot
  <2>5. bytes[(last + (i - n - 1)) % StorageSize] = data[(i - n - 1) + 1]
    BY <2>1
  <2> QED BY <2>1, <2>4, <2>5
<1> HIDE DEF n, m, old, new
<1>6. ASSUME NEW i \in 1 .. n + m PROVE new[i] = (old \o data)[i]
  <2>1. CASE i <= n
    <3>1. i \in 1 .. n
      BY <1>1, <2>1
    <3> QED BY <1>2, <1>3, <1>4, <2>1, <3>1
  <2>2. CASE ~(i <= n)
    BY <1>3, <1>4, <1>5, <2>2
  <2> QED BY <2>1, <2>2
<1>7. new = old \o data
  BY <1>3, <1>4, <1>6, SeqEqual
<1> QED BY <1>7 DEF n, m, old, new

-----------------------------------------------------------------------------
LEMMA QueueInit == Init => QueueInv
<1> SUFFICES ASSUME Init PROVE QueueInv
  OBVIOUS
<1>1. IInv
  BY Initiation
<1>2. writer.pc = "idle" /\ writer.data = << >> /\ reader.pc = "idle"
      /\ read_index = 0 /\ write_index = 0
  BY DEF Init, IdleWriter, IdleReader
<1> QED BY <1>1, <1>2 DEF QueueInv, CallsCarry, CopiedSoFar, ReadSoFar

(* Different offsets within one turn are different slots, and an offset    *)
(* from write_index is an offset from read_index.                          *)
LEMMA OffsetsDiffer ==
    ASSUME NEW a \in Slot, NEW i \in Nat, NEW j \in Nat, i < j, j < StorageSize
    PROVE  (a + i) % StorageSize \in Slot /\ (a + i) % StorageSize # (a + j) % StorageSize
<1>1. i \in 0 .. StorageSize /\ j \in 0 .. StorageSize
  BY StorageSizeAssumption
<1>2. (a + i) % StorageSize = IF a + i < StorageSize THEN a + i ELSE a + i - StorageSize
  BY <1>1, SumRemainder, Zenon
<1>3. (a + j) % StorageSize = IF a + j < StorageSize THEN a + j ELSE a + j - StorageSize
  BY <1>1, SumRemainder, Zenon
<1> QED BY <1>1, <1>2, <1>3, StorageSizeAssumption DEF Slot

LEMMA OffsetFromLast ==
    ASSUME NEW first \in Slot, NEW last \in Slot, NEW k \in Nat,
           Distance(first, last) + k < StorageSize
    PROVE  (last + k) % StorageSize = (first + (Distance(first, last) + k)) % StorageSize
<1> DEFINE j == Distance(first, last) + k
<1>1. k \in 0 .. StorageSize /\ j \in 0 .. StorageSize
  BY StorageSizeAssumption DEF Distance, Slot
<1>2. (last + k) % StorageSize
          = IF last + k < StorageSize THEN last + k ELSE last + k - StorageSize
  BY <1>1, SumRemainder, Zenon
<1>3. (first + j) % StorageSize
          = IF first + j < StorageSize THEN first + j ELSE first + j - StorageSize
  <2> HIDE DEF j
  <2> QED BY <1>1, SumRemainder, Zenon
<1> QED BY <1>1, <1>2, <1>3, StorageSizeAssumption DEF Distance, Slot

LEMMA WriterStepsQueue ==
    ASSUME QueueInv, IInv', ~ReloadIndex, WriterWork
    PROVE  QueueInv' /\ [Queue!Next]_(Queue!vars)
<1> USE StorageSizeAssumption, TransferAssumption
<1>1. IInv /\ TypeOK /\ CallsFit /\ CallsCarry /\ CopiedSoFar /\ ReadSoFar
  BY DEF QueueInv, IInv
<1>2. ASSUME UNCHANGED <<fifo, received>> PROVE Content' = Content /\ received' = received
  BY <1>2 DEF fifo, Content, Unread, UnreadSlot
<1>3. ASSUME UNCHANGED <<fifo, reader>> PROVE ReadSoFar'
  BY <1>1, <1>3 DEF fifo, ReadSoFar
<1>4. CASE WriteEnter
  <2>1. PICK size \in WriteSizes : \E data \in Batch(size) :
           /\ EntryStatus(size, FALSE) = "NONE"
           /\ writer' = [pc |-> "check", data |-> data, seen |-> read_index,
                         copied |-> 0, status |-> "NONE"]
    BY <1>4 DEF WriteEnter
  <2>2. PICK data \in Batch(size) :
           writer' = [pc |-> "check", data |-> data, seen |-> read_index,
                      copied |-> 0, status |-> "NONE"]
    BY <2>1
  <2>3. data \in Seq(Byte) /\ Len(data) = size
    BY DEF Batch
  <2>4. initialized /\ size # 0
    BY <2>1 DEF EntryStatus
  <2>5. data # << >>
    BY <2>3, <2>4
  <2>6. UNCHANGED <<fifo, reader, received>> /\ writer.pc = "idle"
    BY <1>4 DEF WriteEnter
  <2>7. QueueInv'
    BY <1>1, <1>3, <2>2, <2>4, <2>5, <2>6 DEF QueueInv, CallsCarry, CopiedSoFar, fifo
  <2>8. Queue!Offer
    BY <1>1, <1>2, <2>2, <2>3, <2>5, <2>6 DEF Queue!Offer, CallsCarry, fifo
  <2> QED BY <2>7, <2>8 DEF Queue!Next
<1>5. CASE WriteAdmit
  <2>1. /\ writer'.pc = "copy" /\ writer'.data = writer.data /\ writer'.copied = writer.copied
        /\ UNCHANGED <<fifo, reader, received>> /\ writer.pc = "check"
    BY <1>1, <1>5 DEF WriteAdmit, TypeOK
  <2>2. writer'.copied = 0
    BY <1>1, <2>1 DEF CallsCarry
  <2>3. CopiedSoFar'
    BY <2>2 DEF CopiedSoFar
  <2>4. CallsCarry'
    BY <1>1, <2>1 DEF CallsCarry, fifo
  <2>5. QueueInv'
    BY <1>3, <2>1, <2>3, <2>4 DEF QueueInv
  <2> QED BY <1>2, <2>1, <2>5 DEF Queue!vars
<1>6. CASE WriteFull
  <2>1. /\ writer'.pc = "idle" /\ writer'.data = << >>
        /\ UNCHANGED <<fifo, reader, received>> /\ writer.pc = "check"
    BY <1>6 DEF WriteFull, IdleWriter
  <2>2. QueueInv'
    BY <1>1, <1>3, <2>1 DEF QueueInv, CallsCarry, CopiedSoFar, fifo
  <2>3. Queue!Refuse
    BY <1>1, <1>2, <2>1 DEF Queue!Refuse, CallsCarry
  <2> QED BY <2>2, <2>3 DEF Queue!Next
<1>7. CASE WriteCopy
  <2> DEFINE n == Len(writer.data)
             k == writer.copied
             u == Distance(read_index, write_index)
             slot == (write_index + k) % StorageSize
  <2>1. /\ n \in Nat /\ k \in 0 .. n - 1 /\ u \in Slot /\ n + u < StorageSize
        /\ write_index \in Slot /\ read_index \in Slot
        /\ Unread = u /\ n \in 0 .. StorageSize
    <3>1. write_index \in Slot /\ read_index \in Slot /\ n \in Nat /\ k \in Nat /\ k < n
      BY <1>1, <1>7 DEF WriteCopy, TypeOK
    <3>2. u \in Slot
      BY <3>1 DEF Distance, Slot
    <3>3. n + u < StorageSize
      BY <1>1, <1>7 DEF WriteCopy, IInv, WriterKnows
    <3>4. Unread = u
      BY <3>1, UnreadIsDistance
    <3> HIDE DEF n, k, u
    <3> QED BY <3>1, <3>2, <3>3, <3>4 DEF Slot
  <2>2. /\ storage' = [storage EXCEPT ![slot] = writer.data[k + 1]]
        /\ writer.pc = "copy"
        /\ writer'.pc = "copy" /\ writer'.data = writer.data /\ writer'.copied = k + 1
        /\ UNCHANGED <<initialized, read_index, write_index, reader, received>>
    <3>1. Position(write_index, n, k) = slot
      BY <2>1, PositionIsOffset
    <3> QED BY <1>1, <1>7, <3>1 DEF WriteCopy, TypeOK
  <2>3. slot = IF write_index + k < StorageSize
               THEN write_index + k ELSE write_index + k - StorageSize
    <3>1. k \in 0 .. StorageSize /\ write_index \in Slot
      BY <2>1
    <3> HIDE DEF k
    <3> QED BY <3>1, SumRemainder, Zenon
  <2>4. slot \in Slot /\ storage \in [Slot -> Byte]
    BY <1>1, <2>1, <2>3 DEF Slot, TypeOK
  <2>5. ASSUME NEW i \in 0 .. u - 1
        PROVE  /\ (read_index + i) % StorageSize \in Slot
               /\ (read_index + i) % StorageSize # slot
    <3>1. slot = (read_index + (u + k)) % StorageSize
      <4>1. k \in Nat /\ Distance(read_index, write_index) + k < StorageSize
            /\ read_index \in Slot /\ write_index \in Slot
        BY <2>1 DEF Slot
      <4> HIDE DEF k
      <4> QED BY <4>1, OffsetFromLast
    <3>2. i \in Nat /\ u + k \in Nat /\ i < u + k /\ u + k < StorageSize /\ read_index \in Slot
      BY <2>1 DEF Slot
    <3> HIDE DEF u, k, slot
    <3> QED BY <3>1, <3>2, OffsetsDiffer
  <2>6. ASSUME NEW i \in 0 .. k - 1
        PROVE  /\ (write_index + i) % StorageSize \in Slot
               /\ (write_index + i) % StorageSize # slot
    <3>1. i \in Nat /\ k \in Nat /\ i < k /\ k < StorageSize /\ write_index \in Slot
      BY <2>1 DEF Slot
    <3> QED BY <3>1, OffsetsDiffer
  <2> HIDE DEF slot
  <2>7. storage'[slot] = writer.data[k + 1]
        /\ \A s \in Slot : s # slot => storage'[s] = storage[s]
    BY <2>2, <2>4
  <2>8. Content' = Content
    <3>1. Unread' = Unread /\ Unread \in Nat
      BY <2>1, <2>2 DEF Unread, Slot
    <3>2. ASSUME NEW i \in 1 .. Unread PROVE storage'[UnreadSlot(i - 1)] = storage[UnreadSlot(i - 1)]
      <4>1. i - 1 \in 0 .. u - 1
        BY <2>1 DEF Slot
      <4> QED BY <2>5, <2>7, <4>1 DEF UnreadSlot
    <3>3. Content' = [i \in 1 .. Unread |-> storage'[UnreadSlot(i - 1)]]
      BY <2>2, <3>1 DEF Content, UnreadSlot
    <3> QED BY <3>2, <3>3 DEF Content
  <2>9. CopiedSoFar'
    <3>1. ASSUME NEW i \in 0 .. (k + 1) - 1
          PROVE  storage'[(write_index + i) % StorageSize] = writer.data[i + 1]
      <4>1. CASE i = k
        BY <2>7, <4>1 DEF slot
      <4>2. CASE i # k
        <5>1. i \in 0 .. k - 1
          BY <2>1, <4>2
        <5>2. storage[(write_index + i) % StorageSize] = writer.data[i + 1]
          BY <1>1, <2>2, <5>1 DEF CopiedSoFar
        <5> QED BY <2>6, <2>7, <5>1, <5>2
      <4> QED BY <4>1, <4>2
    <3> QED BY <2>2, <3>1 DEF CopiedSoFar
  <2>10. ReadSoFar'
    <3>1. ASSUME reader.pc = "copy", NEW i \in 0 .. Len(reader.output) - 1
          PROVE  reader.output[i + 1] = storage'[(read_index + i) % StorageSize]
      <4>1. Len(reader.output) <= reader.size /\ reader.size <= u
            /\ Len(reader.output) \in Nat /\ reader.size \in Nat
        BY <1>1, <3>1 DEF IInv, TypeOK, CallsFit, ReaderKnows
      <4>2. i \in 0 .. u - 1
        BY <2>1, <4>1 DEF Slot
      <4> QED BY <1>1, <2>5, <2>7, <3>1, <4>2 DEF ReadSoFar
    <3> QED BY <2>2, <3>1 DEF ReadSoFar
  <2>11. CallsCarry'
    BY <1>1, <2>2 DEF CallsCarry
  <2> QED BY <2>2, <2>8, <2>9, <2>10, <2>11 DEF QueueInv, Queue!vars
<1>8. CASE WritePublish
  <2> DEFINE n == Len(writer.data)
             u == Distance(read_index, write_index)
  <2>1. /\ writer.pc = "copy" /\ writer.copied = n
        /\ write_index' = Advance(write_index, n)
        /\ writer'.pc = "idle" /\ writer'.data = << >>
        /\ UNCHANGED <<initialized, storage, read_index, reader, received>>
    BY <1>8 DEF WritePublish, IdleWriter
  <2>2. /\ n \in Nat /\ u \in Slot /\ n + u < StorageSize /\ Unread = u
        /\ write_index \in Slot /\ read_index \in Slot
        /\ n \in 0 .. StorageSize /\ storage \in [Slot -> Byte]
        /\ writer.data \in Seq(Byte)
    BY <1>1, <2>1, UnreadIsDistance DEF IInv, TypeOK, WriterKnows, Distance, Slot
  <2>3. write_index' \in Slot /\ read_index' \in Slot
    BY <2>1, <2>2, AdvanceStaysInRing
  <2>4. Distance(read_index, write_index') = u + n
    BY <2>1, <2>2 DEF Advance, Distance, Slot
  <2>5. Unread' = u + n
    <3>1. Unread' = Distance(read_index, write_index)'
      BY <2>3, UnreadIsDistance DEF TypeOK, Slot, Unread, Distance
    <3> QED BY <2>1, <2>4, <3>1 DEF Distance
  <2>6. Content' = Bytes(storage, read_index, u + n)
    BY <2>1, <2>5 DEF Content, Bytes, UnreadSlot
  <2>7. Content = Bytes(storage, read_index, u)
    BY <2>2, ContentIsBytes
  <2>8. \A i \in 0 .. n - 1 : storage[(write_index + i) % StorageSize] = writer.data[i + 1]
    BY <1>1, <2>1 DEF CopiedSoFar
  <2>9. Content' = Content \o writer.data
    BY <2>2, <2>6, <2>7, <2>8, BytesAppended
  <2>10. Len(Content) = u
    <3>1. u \in 0 .. StorageSize
      BY <2>2 DEF Slot
    <3> QED BY <2>2, <2>7, <3>1, BytesAreASequence
  <2>11. Len(Content) + Len(writer.data) <= StorageSize - 1
    BY <2>2, <2>10 DEF Slot
  <2>12. Queue!Accept
    BY <1>1, <2>1, <2>9, <2>11 DEF Queue!Accept, CallsCarry
  <2>13. initialized
    BY <1>1, <2>1 DEF IInv, NoCallBeforeInit
  <2>14. CallsCarry' /\ CopiedSoFar' /\ ReadSoFar'
    BY <1>1, <2>1, <2>13 DEF CallsCarry, CopiedSoFar, ReadSoFar
  <2> QED BY <2>12, <2>14 DEF QueueInv, Queue!Next
<1> QED BY <1>4, <1>5, <1>6, <1>7, <1>8 DEF WriterWork

LEMMA ReaderStepsQueue ==
    ASSUME QueueInv, IInv', ~ReloadIndex, ReaderWork
    PROVE  QueueInv' /\ [Queue!Next]_(Queue!vars)
<1> USE StorageSizeAssumption, TransferAssumption
<1>1. IInv /\ TypeOK /\ CallsFit /\ CallsCarry /\ CopiedSoFar /\ ReadSoFar
  BY DEF QueueInv, IInv
<1>2. ASSUME UNCHANGED <<fifo, writer, received>>
      PROVE  CopiedSoFar' /\ UNCHANGED Queue!vars
  BY <1>1, <1>2 DEF fifo, Content, Unread, UnreadSlot, Queue!vars, CopiedSoFar
<1>3. CASE ReadEnter
  <2>1. PICK size \in ReadSizes :
           /\ EntryStatus(size, FALSE) = "NONE"
           /\ reader' = [pc |-> "check", size |-> size, seen |-> write_index,
                         output |-> << >>, status |-> "NONE"]
    BY <1>3 DEF ReadEnter
  <2>2. initialized /\ size >= 1
    BY <2>1 DEF EntryStatus
  <2>3. UNCHANGED <<fifo, writer, received>>
    BY <1>3 DEF ReadEnter
  <2>4. reader'.pc = "check" /\ reader'.size >= 1 /\ Len(reader'.output) = 0
    BY <2>1, <2>2
  <2>5. CallsCarry' /\ ReadSoFar'
    BY <1>1, <2>3, <2>4 DEF CallsCarry, ReadSoFar, fifo
  <2> QED BY <1>2, <2>3, <2>5 DEF QueueInv
<1>4. CASE ReadAdmit
  <2>1. /\ reader'.pc = "copy" /\ reader'.size = reader.size /\ reader'.output = reader.output
        /\ UNCHANGED <<fifo, writer, received>> /\ reader.pc = "check"
    BY <1>1, <1>4 DEF ReadAdmit, TypeOK
  <2>2. Len(reader'.output) = 0
    BY <1>1, <2>1 DEF CallsCarry
  <2>3. CallsCarry' /\ ReadSoFar'
    BY <1>1, <2>1, <2>2 DEF CallsCarry, ReadSoFar, fifo
  <2> QED BY <1>2, <2>1, <2>3 DEF QueueInv
<1>5. CASE ReadEmpty
  <2>1. reader'.pc = "idle" /\ UNCHANGED <<fifo, writer, received>>
    BY <1>5 DEF ReadEmpty, IdleReader
  <2>2. CallsCarry' /\ ReadSoFar'
    BY <1>1, <2>1 DEF CallsCarry, ReadSoFar, fifo
  <2> QED BY <1>2, <2>1, <2>2 DEF QueueInv
<1>6. CASE ReadCopy
  <2> DEFINE i == Len(reader.output)
             byte == storage[(read_index + i) % StorageSize]
  <2>1. /\ i \in 0 .. reader.size - 1 /\ reader.size \in 0 .. StorageSize
        /\ reader.pc = "copy" /\ reader.output \in Seq(Byte) /\ read_index \in Slot
    BY <1>1, <1>6 DEF ReadCopy, TypeOK
  <2>2. Position(read_index, reader.size, i) = (read_index + i) % StorageSize
    BY <2>1, PositionIsOffset
  <2>3. /\ reader'.pc = "copy" /\ reader'.size = reader.size
        /\ reader'.output = Append(reader.output, byte)
        /\ UNCHANGED <<fifo, writer, received>>
    BY <1>1, <1>6, <2>1, <2>2 DEF ReadCopy, TypeOK
  <2>4. byte \in Byte
    <3>1. (read_index + i) % StorageSize \in Slot
      <4>1. i \in 0 .. StorageSize /\ read_index \in Slot
        BY <2>1
      <4> HIDE DEF i
      <4>2. (read_index + i) % StorageSize = IF read_index + i < StorageSize
                THEN read_index + i ELSE read_index + i - StorageSize
        BY <4>1, SumRemainder, Zenon
      <4> QED BY <4>1, <4>2 DEF Slot
    <3> QED BY <1>1, <3>1 DEF TypeOK
  <2> HIDE DEF byte
  <2>5. /\ Len(Append(reader.output, byte)) = i + 1
        /\ Append(reader.output, byte)[i + 1] = byte
        /\ \A j \in 1 .. i : Append(reader.output, byte)[j] = reader.output[j]
    BY <2>1, <2>4, AppendProperties
  <2>6. ReadSoFar'
    <3>1. ASSUME NEW j \in 0 .. (i + 1) - 1
          PROVE  Append(reader.output, byte)[j + 1] = storage[(read_index + j) % StorageSize]
      <4>1. CASE j = i
        BY <2>5, <4>1 DEF byte
      <4>2. CASE j # i
        <5>1. j \in 0 .. i - 1 /\ j + 1 \in 1 .. i
          BY <2>1, <4>2
        <5> QED BY <1>1, <2>1, <2>5, <5>1 DEF ReadSoFar
      <4> QED BY <4>1, <4>2
    <3> QED BY <2>3, <2>5, <3>1 DEF ReadSoFar, fifo
  <2>7. CallsCarry'
    BY <1>1, <2>1, <2>3 DEF CallsCarry, fifo
  <2> QED BY <1>2, <2>3, <2>6, <2>7 DEF QueueInv
<1>7. CASE ReadPublish
  <2> DEFINE n == reader.size
             u == Distance(read_index, write_index)
  <2>1. /\ reader.pc = "copy" /\ reader'.pc = "idle" /\ received' = reader.output
        /\ Len(reader.output) = n
        /\ read_index' = Advance(read_index, n)
        /\ UNCHANGED <<initialized, storage, write_index, writer>>
    BY <1>7 DEF ReadPublish, IdleReader
  <2>2. /\ n \in 1 .. u /\ u \in Slot /\ Unread = u /\ n \in 0 .. StorageSize
        /\ write_index \in Slot /\ read_index \in Slot
        /\ storage \in [Slot -> Byte] /\ reader.output \in Seq(Byte)
    BY <1>1, <2>1, UnreadIsDistance
    DEF IInv, TypeOK, ReaderKnows, CallsCarry, Distance, Slot
  <2>3. read_index' \in Slot /\ write_index' \in Slot
    BY <2>1, <2>2, AdvanceStaysInRing
  <2>4. Distance(read_index', write_index) = u - n
    BY <2>1, <2>2 DEF Advance, Distance, Slot
  <2>5. Unread' = u - n
    <3>1. Unread' = Distance(read_index, write_index)'
      BY <2>3, UnreadIsDistance DEF TypeOK, Slot, Unread, Distance
    <3> QED BY <2>1, <2>4, <3>1 DEF Distance
  <2>6. Content' = Bytes(storage, Advance(read_index, n), u - n)
    BY <2>1, <2>5 DEF Content, Bytes, UnreadSlot
  <2>7. Content = Bytes(storage, read_index, u)
    BY <2>2, ContentIsBytes
  <2>8. \A i \in 0 .. n - 1 : reader.output[i + 1] = storage[(read_index + i) % StorageSize]
    BY <1>1, <2>1 DEF ReadSoFar
  <2>9. received' = SubSeq(Content, 1, n) /\ Content' = SubSeq(Content, n + 1, u)
    <3> HIDE DEF n, u
    <3>1. /\ reader.output = SubSeq(Bytes(storage, read_index, u), 1, n)
          /\ Bytes(storage, Advance(read_index, n), u - n)
                 = SubSeq(Bytes(storage, read_index, u), n + 1, u)
      <4>1. n \in 1 .. u /\ u \in Slot /\ read_index \in Slot
            /\ storage \in [Slot -> Byte] /\ reader.output \in Seq(Byte)
        BY <2>2
      <4>2. Len(reader.output) = n
        BY <2>1
      <4> QED BY <2>8, <4>1, <4>2, BytesTaken, Zenon
    <3> QED BY <2>1, <2>6, <2>7, <3>1
  <2>10. Len(Content) = u
    <3>1. u \in 0 .. StorageSize
      BY <2>2 DEF Slot
    <3> QED BY <2>2, <2>7, <3>1, BytesAreASequence
  <2>11. Queue!Take(n)
    BY <2>1, <2>2, <2>9, <2>10 DEF Queue!Take
  <2>12. n \in 1 .. StorageSize - 1
    BY <2>2 DEF Slot
  <2>13. initialized
    BY <1>1, <2>1 DEF IInv, NoCallBeforeInit
  <2>14. CallsCarry' /\ CopiedSoFar' /\ ReadSoFar'
    BY <1>1, <2>1, <2>13 DEF CallsCarry, CopiedSoFar, ReadSoFar
  <2> QED BY <2>11, <2>12, <2>14 DEF QueueInv, Queue!Next
<1> QED BY <1>3, <1>4, <1>5, <1>6, <1>7 DEF ReaderWork

LEMMA OtherStepsQueue ==
    ASSUME QueueInv, IInv', FifoInit \/ WriteReturnsEarly \/ ReadReturnsEarly \/ UNCHANGED vars
    PROVE  QueueInv' /\ UNCHANGED Queue!vars
<1>1. IInv /\ CallsCarry /\ CopiedSoFar /\ ReadSoFar
  BY DEF QueueInv
<1>2. UNCHANGED <<storage, read_index, write_index, received>>
  BY <1>1 DEF FifoInit, WriteReturnsEarly, ReadReturnsEarly, vars, fifo, CallsCarry
<1>3. initialized => initialized'
  BY DEF FifoInit, WriteReturnsEarly, ReadReturnsEarly, vars, fifo
<1>4. \/ UNCHANGED writer
      \/ writer.pc = "idle" /\ writer'.pc = "idle" /\ writer'.data = << >>
  BY DEF FifoInit, WriteReturnsEarly, ReadReturnsEarly, vars, IdleWriter
<1>5. \/ UNCHANGED reader
      \/ reader'.pc = "idle"
  BY DEF FifoInit, WriteReturnsEarly, ReadReturnsEarly, vars, IdleReader
<1>6. CallsCarry'
  BY <1>1, <1>2, <1>3, <1>4, <1>5 DEF CallsCarry
<1>7. CopiedSoFar' /\ ReadSoFar'
  BY <1>1, <1>2, <1>4, <1>5 DEF CopiedSoFar, ReadSoFar
<1>8. writer'.data = writer.data
  BY <1>1, <1>4 DEF CallsCarry
<1>9. Content' = Content
  BY <1>2 DEF Content, Unread, UnreadSlot
<1> QED BY <1>2, <1>6, <1>7, <1>8, <1>9 DEF QueueInv, Queue!vars

LEMMA QueueStep ==
    ASSUME ~ReloadIndex, QueueInv, [Next]_vars
    PROVE  QueueInv' /\ [Queue!Next]_(Queue!vars)
<1>1. IInv'
  BY Consecution DEF QueueInv
<1> QED BY <1>1, WriterStepsQueue, ReaderStepsQueue, OtherStepsQueue DEF Next

(* The ring implements the byte queue, for every storage size, set of      *)
(* transfer sizes and interleaving of one producer and one consumer: a     *)
(* batch is appended whole when write_index moves, or not at all, and the  *)
(* consumer gets the oldest bytes when read_index moves.                   *)
THEOREM RingImplementsQueue == ASSUME ~ReloadIndex PROVE Spec => ImplementsByteQueue
<1>1. Init => Queue!Init
  <2> SUFFICES ASSUME Init PROVE Queue!Init
    OBVIOUS
  <2>1. read_index = 0 /\ write_index = 0 /\ writer.data = << >> /\ received = << >>
    BY DEF Init, IdleWriter
  <2>2. Unread = 0
    <3>1. 0 \in Slot
      BY StorageSizeAssumption DEF Slot
    <3> QED BY <2>1, <3>1, UnreadIsDistance DEF Distance
  <2>3. Content = << >>
    BY <2>2 DEF Content
  <2> QED BY <2>1, <2>3 DEF Queue!Init
<1>2. QueueInv /\ [Next]_vars => QueueInv' /\ [Queue!Next]_(Queue!vars)
  BY QueueStep
<1> QED BY <1>1, <1>2, QueueInit, PTL DEF Spec, ImplementsByteQueue, Queue!Spec
=============================================================================
