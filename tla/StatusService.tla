---------------------------- MODULE StatusService ----------------------------
(***************************************************************************)
(* services/mizu_status_service: the faults the upper layer chose to show, *)
(* in a caller-owned array of records.  A record whose source_id is 0 is   *)
(* an empty slot.  All calls come from one serial context.                 *)
(***************************************************************************)
EXTENDS Naturals, FiniteSets

CONSTANTS
    Source,         \* the nonzero source IDs in use
    Fault,          \* the status values other than OK
    RecordCount     \* record_count: slots in the caller's array

ASSUME SourceAssumption == Source \subseteq Nat \ {0}
ASSUME FaultAssumption == Fault # {} /\ "OK" \notin Fault
ASSUME RecordCountAssumption == RecordCount \in Nat \ {0}

VARIABLES initialized, records, active_count,   \* mizu_status_service_t
          result                                \* what the last call returned

vars == <<initialized, records, active_count, result>>

Slot == 0 .. RecordCount - 1
EmptyRecord == [source |-> 0, status |-> "OK"]

-----------------------------------------------------------------------------
(* Plausible slips; no action uses them. *)
FindAnyEmpty(source) ==
    LET found == {i \in Slot : records[i].source \in {source, 0}}
    IN  IF found = {} THEN RecordCount ELSE CHOOSE i \in found : \A j \in found : i <= j
ReportFullReplaces(source) ==
    /\ initialized
    /\ \A slot \in Slot : records[slot].source \notin {source, 0}
    /\ \E status \in Fault :
          records' = [records EXCEPT ![0] = [source |-> source, status |-> status]]
    /\ result' = "OK"
    /\ UNCHANGED <<initialized, active_count>>

-----------------------------------------------------------------------------
(* mizu_status_service_find_slot, and with source 0 _find_empty: the first *)
(* slot that holds the source, or RecordCount.                             *)
Find(source) ==
    LET found == {i \in Slot : records[i].source = source}
    IN  IF found = {} THEN RecordCount ELSE CHOOSE i \in found : \A j \in found : i <= j

Init ==
    /\ initialized = FALSE
    /\ records = [i \in Slot |-> EmptyRecord]
    /\ active_count = 0
    /\ result = "OK"

ServiceInit ==
    /\ ~initialized
    /\ initialized' = TRUE
    /\ records' = [i \in Slot |-> EmptyRecord]
    /\ active_count' = 0
    /\ result' = "OK"

(* Calls that change nothing: any call before init, a second init, a null  *)
(* pointer, source_id 0, or a report of MIZU_STATUS_OK.                    *)
CallRejected ==
    /\ result' \in IF initialized THEN {"INVALID_STATE", "INVALID_ARGUMENT"}
                   ELSE {"NOT_INITIALIZED", "INVALID_ARGUMENT"}
    /\ UNCHANGED <<initialized, records, active_count>>

(* mizu_status_service_report *)
Store(slot, source, status) ==
    /\ records' = [records EXCEPT ![slot] = [source |-> source, status |-> status]]
    /\ result' = "OK"

ReportKnown(source, status) ==
    /\ initialized
    /\ Find(source) # RecordCount
    /\ Store(Find(source), source, status)
    /\ UNCHANGED <<initialized, active_count>>

ReportNew(source, status) ==
    /\ initialized
    /\ Find(source) = RecordCount /\ Find(0) # RecordCount
    /\ Store(Find(0), source, status)
    /\ active_count' = active_count + 1
    /\ UNCHANGED initialized

ReportFull(source) ==
    /\ initialized
    /\ Find(source) = RecordCount /\ Find(0) = RecordCount
    /\ result' = "FULL"
    /\ UNCHANGED <<initialized, records, active_count>>

(* mizu_status_service_clear *)
Clear(source) ==
    /\ initialized
    /\ Find(source) # RecordCount
    /\ records' = [records EXCEPT ![Find(source)] = EmptyRecord]
    /\ active_count' = active_count - 1
    /\ result' = "OK"
    /\ UNCHANGED initialized

ClearUnknown(source) ==
    /\ initialized
    /\ Find(source) = RecordCount
    /\ result' = "OUT_OF_RANGE"
    /\ UNCHANGED <<initialized, records, active_count>>

Next ==
    \/ ServiceInit
    \/ CallRejected
    \/ \E source \in Source, status \in Fault :
          ReportKnown(source, status) \/ ReportNew(source, status)
    \/ \E source \in Source : ReportFull(source) \/ Clear(source) \/ ClearUnknown(source)

Spec == Init /\ [][Next]_vars

-----------------------------------------------------------------------------
(* The queries, which change nothing. *)

Count == active_count

GetAt(index) ==
    IF index \notin Slot \/ records[index].source = 0
    THEN [status |-> "OUT_OF_RANGE"] ELSE [status |-> "OK", record |-> records[index]]

GetBySource(source) ==
    IF Find(source) = RecordCount
    THEN [status |-> "OUT_OF_RANGE"] ELSE [status |-> "OK", record |-> records[Find(source)]]

-----------------------------------------------------------------------------
(* Properties *)

(* The three queries describe the same set of faults: a walk over get_at   *)
(* visits each active source exactly once, count is the number of visits,  *)
(* and get_by_source answers what the walk shows.                          *)
QueriesAgree ==
    LET visited == {i \in Slot : GetAt(i).status = "OK"}
    IN  /\ Count = Cardinality(visited)
        /\ \A i, j \in visited :
              i # j => GetAt(i).record.source # GetAt(j).record.source
        /\ \A i \in visited : GetBySource(GetAt(i).record.source) = GetAt(i)

(* The array implements the board: what get_by_source answers is the fault *)
(* the source reported last and has not cleared, and FULL is returned only *)
(* when record_count other sources are active.                             *)
Board == INSTANCE StatusBoard WITH
    Capacity <- RecordCount,
    board <- [s \in {s \in Source : GetBySource(s).status = "OK"} |->
                 GetBySource(s).record.status]
ImplementsStatusBoard == Board!Spec
=============================================================================
