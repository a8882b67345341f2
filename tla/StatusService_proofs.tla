------------------------ MODULE StatusService_proofs ------------------------
(***************************************************************************)
(* The array of records implements the status board, and its queries agree *)
(* with each other; for every set of sources and number of records.        *)
(***************************************************************************)
EXTENDS StatusService, FiniteSetTheorems, FunctionTheorems, WellFoundedInduction,
        TLAPS

Active == {i \in Slot : records[i].source # 0}
Shown == {records[i].source : i \in Active}

(* No source has two records, and the count is right. *)
IInv ==
    /\ records \in [Slot -> [source : Source \cup {0}, status : Fault \cup {"OK"}]]
    /\ \A i, j \in Active : records[i].source = records[j].source => i = j
    /\ active_count = Cardinality(Active)

-----------------------------------------------------------------------------
(* A search for the first index that qualifies finds one if there is one.  *)
LEMMA LeastElement ==
    ASSUME NEW S \in SUBSET Nat, S # {}
    PROVE  \E least \in S : \A n \in S : least <= n
<1>1. PICK least \in S : \A n \in S : <<n, least>> \notin OpToRel(<, Nat)
  BY NatLessThanWellFounded, WFMin, Zenon
<1>2. \A n \in S : ~(n < least)
  BY <1>1, Zenon DEF OpToRel
<1> QED BY <1>2

(* The search of mizu_status_service_find_slot. *)
LEMMA FindFinds ==
    ASSUME IInv, NEW source
    PROVE  \/ /\ Find(source) \in Slot /\ Find(source) # RecordCount
              /\ records[Find(source)].source = source
           \/ /\ Find(source) = RecordCount
              /\ \A i \in Slot : records[i].source # source
<1> DEFINE found == {i \in Slot : records[i].source = source}
<1>1. CASE found = {}
  BY <1>1 DEF Find
<1>2. CASE found # {}
  <2>1. Find(source) = CHOOSE i \in found : \A j \in found : i <= j
    BY <1>2, Zenon DEF Find
  <2>2. found \in SUBSET Nat
    BY RecordCountAssumption DEF Slot
  <2>3. \E i \in found : \A j \in found : i <= j
    <3> HIDE DEF found
    <3> QED BY <1>2, <2>2, LeastElement
  <2>4. Find(source) \in found
    <3> HIDE DEF found
    <3> QED BY <2>1, <2>3, Zenon
  <2> QED BY <2>4, RecordCountAssumption DEF Slot
<1> QED BY <1>1, <1>2

LEMMA FindUnique ==
    ASSUME IInv, NEW i \in Active
    PROVE  Find(records[i].source) = i
<1> DEFINE k == Find(records[i].source)
<1>1. k \in Slot /\ records[k].source = records[i].source
  BY FindFinds DEF Active
<1>2. k \in Active
  BY <1>1 DEF Active
<1> QED BY <1>1, <1>2 DEF IInv

LEMMA ActiveFinite ==
    ASSUME IInv
    PROVE  /\ IsFiniteSet(Slot) /\ IsFiniteSet(Active) /\ IsFiniteSet(Shown)
           /\ Cardinality(Slot) = RecordCount
           /\ Cardinality(Shown) = active_count
           /\ active_count \in Nat
           /\ active_count <= RecordCount
           /\ active_count = RecordCount <=> Active = Slot
<1>1. IsFiniteSet(Slot) /\ Cardinality(Slot) = RecordCount
  BY FS_Interval, RecordCountAssumption DEF Slot
<1>2. /\ IsFiniteSet(Active) /\ Active \in SUBSET Slot /\ Cardinality(Active) <= RecordCount
      /\ Cardinality(Active) = RecordCount => Active = Slot
  <2>1. Active \in SUBSET Slot
    BY DEF Active
  <2> QED BY <1>1, <2>1, FS_Subset
<1>3. ExistsBijection(Active, Shown)
  <2> DEFINE f == [i \in Active |-> records[i].source]
  <2>1. f \in Bijection(Active, Shown)
    BY Fun_IsBij DEF IInv, Shown
  <2> QED BY <2>1 DEF ExistsBijection
<1>4. IsFiniteSet(Shown) /\ Cardinality(Shown) = Cardinality(Active)
  BY <1>2, <1>3, FS_Bijection
<1>5. Cardinality(Active) \in Nat
  BY <1>2, FS_CardinalityType
<1> QED BY <1>1, <1>2, <1>4, <1>5 DEF IInv

-----------------------------------------------------------------------------
(* The board that get_by_source shows *)
ShownBoard ==
    [s \in {s \in Source : GetBySource(s).status = "OK"} |-> GetBySource(s).record.status]

BoardShowsRecords ==
    /\ ShownBoard = [s \in Shown |-> ShownBoard[s]]
    /\ DOMAIN ShownBoard = Shown
    /\ Shown \subseteq Source
    /\ \A i \in Active : ShownBoard[records[i].source] = records[i].status

LEMMA BoardIsRecords == IInv => BoardShowsRecords
<1> SUFFICES ASSUME IInv PROVE BoardShowsRecords
  OBVIOUS
<1>1. Shown \subseteq Source
  BY DEF IInv, Shown, Active
<1>2. \A s \in Source : GetBySource(s).status = "OK" <=> s \in Shown
  <2> SUFFICES ASSUME NEW s \in Source PROVE GetBySource(s).status = "OK" <=> s \in Shown
    OBVIOUS
  <2>1. s # 0
    BY SourceAssumption
  <2>2. CASE s \in Shown
    <3>1. Find(s) # RecordCount
      BY <2>2, FindFinds DEF Shown, Active
    <3> QED BY <2>2, <3>1 DEF GetBySource
  <2>3. CASE s \notin Shown
    <3>1. Find(s) = RecordCount
      BY <2>1, <2>3, FindFinds DEF Shown, Active
    <3> QED BY <2>3, <3>1 DEF GetBySource
  <2> QED BY <2>2, <2>3
<1>3. ShownBoard = [s \in Shown |-> GetBySource(s).record.status]
  <2>1. {s \in Source : GetBySource(s).status = "OK"} = Shown
    BY <1>1, <1>2
  <2> QED BY <2>1, Zenon DEF ShownBoard
<1>4. ASSUME NEW i \in Active PROVE ShownBoard[records[i].source] = records[i].status
  <2>1. Find(records[i].source) = i /\ i # RecordCount
    BY FindUnique, RecordCountAssumption DEF Active, Slot
  <2>2. GetBySource(records[i].source).record = records[i]
    BY <2>1 DEF GetBySource
  <2>3. records[i].source \in Shown
    BY DEF Shown
  <2> QED BY <1>3, <2>2, <2>3
<1> QED BY <1>1, <1>3, <1>4, Zenon DEF BoardShowsRecords

-----------------------------------------------------------------------------
LEMMA Initiation == Init => IInv /\ Active = {}
<1> SUFFICES ASSUME Init PROVE IInv /\ Active = {}
  OBVIOUS
<1>1. Active = {}
  BY DEF Init, Active, EmptyRecord
<1> QED BY <1>1, FS_EmptySet DEF Init, IInv, EmptyRecord

(* A fault is stored in the slot of its source, or in an empty one if the  *)
(* source has none.                                                        *)
LEMMA StoreKeepsBooks ==
    ASSUME IInv, NEW slot \in Slot, NEW source \in Source, NEW status \in Fault,
           Store(slot, source, status),
           \/ records[slot].source = source /\ active_count' = active_count
           \/ /\ records[slot].source = 0 /\ \A i \in Slot : records[i].source # source
              /\ active_count' = active_count + 1
    PROVE  /\ IInv' /\ Shown' = Shown \cup {source}
           /\ ShownBoard' = [s \in Shown \cup {source} |->
                                IF s = source THEN status ELSE ShownBoard[s]]
<1>1. source # 0
  BY SourceAssumption
<1>2. /\ records' = [records EXCEPT ![slot] = [source |-> source, status |-> status]]
      /\ records \in [Slot -> [source : Source \cup {0}, status : Fault \cup {"OK"}]]
  BY DEF Store, IInv
<1>3. \A i \in Slot : records'[i] = IF i = slot THEN [source |-> source, status |-> status]
                                    ELSE records[i]
  BY <1>2
<1>4. Active' = Active \cup {slot}
  BY <1>1, <1>3 DEF Active, Slot
<1>5. \A i, j \in Active' : records'[i].source = records'[j].source => i = j
  BY <1>1, <1>3, <1>4 DEF Active, IInv, Slot
<1>6. active_count' = Cardinality(Active')
  <2>1. slot \in Active <=> records[slot].source = source
    BY <1>1 DEF Active
  <2>2. IsFiniteSet(Active) /\ active_count = Cardinality(Active)
    BY ActiveFinite DEF IInv
  <2>3. Cardinality(Active') = IF slot \in Active THEN active_count ELSE active_count + 1
    BY <1>4, <2>2, FS_AddElement
  <2> QED BY <2>1, <2>3
<1>7. records' \in [Slot -> [source : Source \cup {0}, status : Fault \cup {"OK"}]]
  BY <1>2
<1>8. IInv'
  BY <1>5, <1>6, <1>7 DEF IInv, Slot
<1>9. Shown' = Shown \cup {source}
  <2>1. Shown' = {records'[i].source : i \in Active \cup {slot}}
    BY <1>4 DEF Shown
  <2>2. \A i \in Active \ {slot} : records'[i].source = records[i].source
    BY <1>3 DEF Active
  <2>3. records'[slot].source = source
    BY <1>3
  <2>4. slot \in Active => records[slot].source = source
    BY DEF Active
  <2> QED BY <2>1, <2>2, <2>3, <2>4 DEF Shown
<1>10. BoardShowsRecords /\ BoardShowsRecords'
  <2>1. IInv' => BoardShowsRecords'
    BY BoardIsRecords, PTL
  <2> QED BY <1>8, <2>1, BoardIsRecords
<1>11. ASSUME NEW s \in Shown'
       PROVE  ShownBoard'[s] = IF s = source THEN status ELSE ShownBoard[s]
  <2>1. PICK i \in Active' : records'[i].source = s
    BY DEF Shown
  <2>2. ShownBoard'[s] = records'[i].status
    BY <1>10, <2>1 DEF BoardShowsRecords
  <2>3. CASE i = slot
    BY <1>3, <2>1, <2>2, <2>3
  <2>4. CASE i # slot
    <3>1. i \in Active /\ records'[i] = records[i]
      BY <1>3, <1>4, <2>4 DEF Active
    <3>2. s # source
      <4>1. slot \in Active'
        BY <1>4
      <4> QED BY <1>3, <1>5, <2>1, <2>4, <4>1
    <3> QED BY <1>10, <2>1, <2>2, <3>1, <3>2 DEF BoardShowsRecords
  <2> QED BY <2>3, <2>4
<1> QED BY <1>8, <1>9, <1>10, <1>11 DEF BoardShowsRecords

LEMMA ClearKeepsBooks ==
    ASSUME IInv, NEW source \in Source, Clear(source)
    PROVE  /\ IInv' /\ source \in Shown /\ Shown' = Shown \ {source}
           /\ ShownBoard' = [s \in Shown \ {source} |-> ShownBoard[s]]
<1> DEFINE slot == Find(source)
<1>1. slot \in Slot /\ records[slot].source = source /\ source # 0
  BY FindFinds, SourceAssumption DEF Clear
<1>2. slot \in Active
  BY <1>1 DEF Active
<1>3. /\ records' = [records EXCEPT ![slot] = EmptyRecord] /\ active_count' = active_count - 1
      /\ records \in [Slot -> [source : Source \cup {0}, status : Fault \cup {"OK"}]]
  BY DEF Clear, IInv
<1> HIDE DEF slot
<1>4. \A i \in Slot : records'[i] = IF i = slot THEN EmptyRecord ELSE records[i]
  BY <1>1, <1>3
<1>5. Active' = Active \ {slot}
  BY <1>4 DEF Active, Slot, EmptyRecord
<1>6. \A i, j \in Active' : records'[i].source = records'[j].source => i = j
  BY <1>4, <1>5 DEF Active, IInv
<1>7. active_count' = Cardinality(Active')
  BY <1>2, <1>3, <1>5, ActiveFinite, FS_RemoveElement DEF IInv
<1>8. IInv'
  <2>1. records' \in [Slot -> [source : Source \cup {0}, status : Fault \cup {"OK"}]]
    BY <1>3 DEF EmptyRecord
  <2> QED BY <1>6, <1>7, <2>1 DEF IInv, Slot
<1>9. Shown' = Shown \ {source}
  <2>1. Shown' = {records[i].source : i \in Active \ {slot}}
    <3>1. \A i \in Active' : records'[i] = records[i]
      BY <1>4, <1>5 DEF Active
    <3>2. Shown' = {records[i].source : i \in Active'}
      BY <3>1 DEF Shown
    <3> QED BY <1>5, <3>2
  <2>2. \A i \in Active : records[i].source = source => i = slot
    BY <1>1, <1>2 DEF IInv
  <2> QED BY <1>1, <2>1, <2>2 DEF Shown
<1>10. BoardShowsRecords /\ BoardShowsRecords'
  <2>1. IInv' => BoardShowsRecords'
    BY BoardIsRecords, PTL
  <2> QED BY <1>8, <2>1, BoardIsRecords
<1>11. ASSUME NEW s \in Shown' PROVE ShownBoard'[s] = ShownBoard[s]
  <2>1. PICK i \in Active' : records'[i].source = s
    BY DEF Shown
  <2>2. i \in Active /\ records'[i] = records[i]
    BY <1>4, <1>5 DEF Active
  <2> QED BY <1>10, <2>1, <2>2 DEF BoardShowsRecords
<1>12. source \in Shown
  BY <1>1, <1>2 DEF Shown
<1> QED BY <1>8, <1>9, <1>10, <1>11, <1>12 DEF BoardShowsRecords

-----------------------------------------------------------------------------
LEMMA SameCardinality ==
    ASSUME NEW S
    PROVE  Board!Cardinality(S) = Cardinality(S)
BY DEF Board!Cardinality, Cardinality

LEMMA ReportStep ==
    ASSUME IInv, NEW source \in Source, NEW status \in Fault,
           ReportKnown(source, status) \/ ReportNew(source, status)
    PROVE  IInv' /\ Board!Report(source, status)
<1>1. source # 0
  BY SourceAssumption
<1>2. BoardShowsRecords /\ Cardinality(Shown) = active_count /\ active_count <= RecordCount
  BY BoardIsRecords, ActiveFinite
<1>3. CASE ReportKnown(source, status)
  <2> DEFINE slot == Find(source)
  <2>1. slot \in Slot /\ records[slot].source = source
    BY <1>3, FindFinds DEF ReportKnown
  <2>2. Store(slot, source, status) /\ active_count' = active_count
    BY <1>3 DEF ReportKnown
  <2> HIDE DEF slot
  <2>3. /\ IInv' /\ ShownBoard' = [s \in Shown \cup {source} |->
                                     IF s = source THEN status ELSE ShownBoard[s]]
    BY <2>1, <2>2, StoreKeepsBooks
  <2>4. source \in Shown
    BY <1>1, <2>1 DEF Shown, Active
  <2> QED BY <1>2, <2>2, <2>3, <2>4, Zenon DEF Board!Report, ShownBoard, BoardShowsRecords, Store
<1>4. CASE ReportNew(source, status)
  <2> DEFINE slot == Find(0)
  <2>1. slot \in Slot /\ records[slot].source = 0 /\ \A i \in Slot : records[i].source # source
    BY <1>4, FindFinds DEF ReportNew
  <2>2. Store(slot, source, status) /\ active_count' = active_count + 1
    BY <1>4 DEF ReportNew
  <2> HIDE DEF slot
  <2>3. /\ IInv' /\ ShownBoard' = [s \in Shown \cup {source} |->
                                     IF s = source THEN status ELSE ShownBoard[s]]
    BY <2>1, <2>2, StoreKeepsBooks
  <2>4. active_count < RecordCount
    BY <2>1, ActiveFinite, RecordCountAssumption DEF Active
  <2>5. Board!Cardinality(DOMAIN ShownBoard) < RecordCount
    BY <1>2, <2>4, SameCardinality DEF BoardShowsRecords
  <2> QED BY <1>2, <2>2, <2>3, <2>5, Zenon
      DEF Board!Report, ShownBoard, BoardShowsRecords, Store
<1> QED BY <1>3, <1>4

(* Every step of the service is a step of the board, if nothing is shown   *)
(* before init.                                                            *)
ServiceInv == IInv /\ (~initialized => Active = {})

LEMMA BoardStep ==
    ASSUME ServiceInv, [Next]_vars
    PROVE  ServiceInv' /\ [Board!Next]_<<ShownBoard, result>>
<1>1. IInv /\ BoardShowsRecords /\ Cardinality(Shown) = active_count
  BY BoardIsRecords, ActiveFinite DEF ServiceInv
<1>2. ASSUME UNCHANGED records
      PROVE  ShownBoard' = ShownBoard /\ Active' = Active
  BY <1>2 DEF ShownBoard, GetBySource, Find, Active, Slot
<1>3. ASSUME UNCHANGED <<initialized, records, active_count>>
      PROVE  ServiceInv' /\ ShownBoard' = ShownBoard
  BY <1>1, <1>2, <1>3 DEF ServiceInv, IInv, Slot
<1>4. CASE UNCHANGED vars
  BY <1>3, <1>4 DEF vars
<1>5. CASE ServiceInit
  <2>1. Active = {} /\ Shown = {}
    BY <1>5 DEF ServiceInit, ServiceInv, Shown
  <2>2. Active' = {} /\ Shown' = {}
    BY <1>5 DEF ServiceInit, Active, Shown, EmptyRecord
  <2>3. IInv' /\ ServiceInv'
    BY <1>5, <2>2, FS_EmptySet DEF ServiceInit, ServiceInv, IInv, EmptyRecord, Slot
  <2>4. BoardShowsRecords'
    <3>1. IInv' => BoardShowsRecords'
      BY BoardIsRecords, PTL
    <3> QED BY <2>3, <3>1
  <2>5. ShownBoard' = ShownBoard
    BY <1>1, <2>1, <2>2, <2>4 DEF BoardShowsRecords
  <2>6. Board!Reject("OK")
    BY <1>5, <2>5 DEF Board!Reject, ServiceInit, ShownBoard
  <2> QED BY <2>3, <2>6 DEF Board!Next
<1>6. CASE CallRejected
  <2>1. /\ UNCHANGED <<initialized, records, active_count>>
        /\ result' \in {"OK", "NOT_INITIALIZED", "INVALID_STATE", "INVALID_ARGUMENT"}
    BY <1>6 DEF CallRejected
  <2>2. Board!Reject(result')
    BY <1>3, <2>1 DEF Board!Reject, ShownBoard
  <2> QED BY <1>3, <2>1, <2>2 DEF Board!Next
<1>7. ASSUME NEW source \in Source, NEW status \in Fault,
             ReportKnown(source, status) \/ ReportNew(source, status)
      PROVE  ServiceInv' /\ Board!Next
  <2>1. IInv' /\ Board!Report(source, status)
    BY <1>1, <1>7, ReportStep
  <2>2. initialized /\ initialized' = initialized
    BY <1>7 DEF ReportKnown, ReportNew
  <2> QED BY <2>1, <2>2 DEF ServiceInv, Board!Next
<1>8. ASSUME NEW source \in Source, ReportFull(source) PROVE ServiceInv' /\ Board!Next
  <2>1. source \notin Shown /\ Active = Slot
    BY <1>1, <1>8, FindFinds, SourceAssumption DEF ReportFull, Shown, Active, Slot
  <2>2. Board!Cardinality(DOMAIN ShownBoard) = RecordCount
    BY <1>1, <2>1, ActiveFinite, SameCardinality DEF BoardShowsRecords
  <2>3. /\ UNCHANGED <<initialized, records, active_count>> /\ result' = "FULL"
    BY <1>8 DEF ReportFull
  <2>4. \A status : Board!Report(source, status)
    BY <1>1, <1>3, <2>1, <2>2, <2>3 DEF Board!Report, ShownBoard, BoardShowsRecords
  <2> QED BY <1>3, <2>3, <2>4, FaultAssumption DEF Board!Next
<1>9. ASSUME NEW source \in Source, Clear(source) PROVE ServiceInv' /\ Board!Next
  <2>1. /\ IInv' /\ source \in Shown /\ Shown' = Shown \ {source}
        /\ ShownBoard' = [s \in Shown \ {source} |-> ShownBoard[s]]
    BY <1>1, <1>9, ClearKeepsBooks
  <2>2. initialized /\ initialized' = initialized /\ result' = "OK"
    BY <1>9 DEF Clear
  <2>3. Board!Clear(source)
    BY <1>1, <2>1, <2>2, Zenon DEF Board!Clear, ShownBoard, BoardShowsRecords
  <2> QED BY <2>1, <2>2, <2>3 DEF ServiceInv, Board!Next
<1>10. ASSUME NEW source \in Source, ClearUnknown(source) PROVE ServiceInv' /\ Board!Next
  <2>1. /\ source \notin Shown /\ result' = "OUT_OF_RANGE"
        /\ UNCHANGED <<initialized, records, active_count>>
    BY <1>1, <1>10, FindFinds, SourceAssumption DEF ClearUnknown, Shown, Active, Slot
  <2>2. Board!Clear(source)
    BY <1>1, <1>3, <2>1 DEF Board!Clear, ShownBoard, BoardShowsRecords
  <2> QED BY <1>3, <2>1, <2>2 DEF Board!Next
<1> QED BY <1>3, <1>4, <1>5, <1>6, <1>7, <1>8, <1>9, <1>10 DEF Next, vars

LEMMA Invariance == Spec => []ServiceInv
<1>1. Init => ServiceInv
  BY Initiation DEF ServiceInv
<1>2. ServiceInv /\ [Next]_vars => ServiceInv'
  BY BoardStep
<1> QED BY <1>1, <1>2, PTL DEF Spec

(* The walk over get_at, the count and get_by_source describe the same set *)
(* of faults, for every set of sources and number of records.              *)
THEOREM QueriesAlwaysAgree == Spec => []QueriesAgree
<1>1. ServiceInv => QueriesAgree
  <2> SUFFICES ASSUME ServiceInv PROVE QueriesAgree
    OBVIOUS
  <2>1. {i \in Slot : GetAt(i).status = "OK"} = Active
    BY DEF GetAt, Active
  <2>2. \A i \in Active : GetAt(i).record = records[i] /\ GetAt(i) = [status |-> "OK", record |-> records[i]]
    BY DEF GetAt, Active
  <2>3. \A i \in Active : GetBySource(records[i].source) = GetAt(i)
    <3> SUFFICES ASSUME NEW i \in Active
                 PROVE  GetBySource(records[i].source) = GetAt(i)
      OBVIOUS
    <3>1. Find(records[i].source) = i /\ i # RecordCount
      BY FindUnique, RecordCountAssumption DEF ServiceInv, Active, Slot
    <3> QED BY <2>2, <3>1 DEF GetBySource
  <2> QED BY <2>1, <2>2, <2>3 DEF QueriesAgree, ServiceInv, IInv, Count
<1> QED BY <1>1, Invariance, PTL

(* The array of records implements the status board: no report is dropped  *)
(* without FULL, none displaces the fault of another source, and every     *)
(* source shows the fault that it reported last and has not cleared.       *)
THEOREM RecordsImplementBoard == Spec => ImplementsStatusBoard
<1>1. Init => Board!Init
  <2> SUFFICES ASSUME Init PROVE Board!Init
    OBVIOUS
  <2>1. IInv /\ Shown = {}
    BY Initiation DEF Shown
  <2>2. ShownBoard = [s \in {} |-> ShownBoard[s]]
    BY <2>1, BoardIsRecords DEF BoardShowsRecords
  <2>3. ShownBoard = << >>
    BY <2>2
  <2> QED BY <2>3 DEF Init, Board!Init, ShownBoard
<1>2. ServiceInv /\ [Next]_vars => [Board!Next]_(Board!vars)
  BY BoardStep DEF Board!vars, ShownBoard
<1> QED BY <1>1, <1>2, Invariance, PTL DEF Spec, ImplementsStatusBoard, Board!Spec
=============================================================================
