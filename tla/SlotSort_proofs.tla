--------------------------- MODULE SlotSort_proofs ---------------------------
(***************************************************************************)
(* The heap sort of the scheduler's slots is correct: for every table, of  *)
(* any length and with any priorities.                                     *)
(***************************************************************************)
EXTENDS SlotSort, FiniteSetTheorems, FunctionTheorems, WellFoundedInduction, TLAPS

(* The heap is the slots below Size; from Low on its order is established. *)
Low == IF phase = "build" THEN bound ELSE 0
Size == IF phase = "build" THEN TaskCount ELSE bound
Child(parent, i) == i = 2 * parent + 1 \/ i = 2 * parent + 2

TypeInv ==
    /\ table \in Tables
    /\ slots \in [Index -> Index]
    /\ \A i, j \in Index : slots[i] = slots[j] => i = j
    /\ phase \in {"build", "drain", "done"}
    /\ bound \in 0 .. TaskCount
    /\ phase = "done" => bound <= 1
    /\ \/ sift = None
       \/ /\ sift = [root |-> sift.root, count |-> Size]
          /\ sift.root \in Low .. Size - 1
          /\ phase # "done"

(* No slot follows its parent, except below the root that is sifted.       *)
HeapInv ==
    \A p \in Low .. Size - 1, c \in 0 .. Size - 1 :
        Child(p, c) /\ (sift # None => p # sift.root) => ~Follows(table, slots[c], slots[p])

(* What is below the sifted root belongs below its parent, too.            *)
SiftInv ==
    sift # None =>
        \A p \in Low .. Size - 1, c \in 0 .. Size - 1 :
            Child(p, sift.root) /\ Child(sift.root, c) => ~Follows(table, slots[c], slots[p])

(* The slots behind the heap are final: each follows all before it.        *)
TailInv ==
    phase # "build" =>
        \A i, j \in Index : i < j /\ bound <= j => Follows(table, slots[j], slots[i])

IInv == TypeInv /\ HeapInv /\ SiftInv /\ TailInv

-----------------------------------------------------------------------------
LEMMA LeastElement ==
    ASSUME NEW S \in SUBSET Nat, S # {}
    PROVE  \E least \in S : \A n \in S : least <= n
<1>1. PICK least \in S : \A n \in S : <<n, least>> \notin OpToRel(<, Nat)
  BY NatLessThanWellFounded, WFMin, Zenon
<1>2. \A n \in S : ~(n < least)
  BY <1>1, Zenon DEF OpToRel
<1> QED BY <1>2

LEMMA IndexRange ==
    ASSUME table \in Tables
    PROVE  TaskCount \in Nat /\ Index = 0 .. TaskCount - 1
<1>1. TaskCount \in Nat
  BY SortTablesAssumption, FS_CardinalityType DEF Index, TaskCount
<1> QED BY <1>1, SortTablesAssumption DEF Index, TaskCount

(* The order of the slots is total, as IDs break the ties.                 *)
LEMMA TotalOrder ==
    ASSUME table \in Tables, NEW x \in Index, NEW y \in Index, NEW z \in Index
    PROVE  /\ Follows(table, x, y) => ~Follows(table, y, x)
           /\ x # y => Follows(table, x, y) \/ Follows(table, y, x)
           /\ Follows(table, x, y) /\ Follows(table, y, z) => Follows(table, x, z)
           /\ ~Follows(table, x, y) /\ ~Follows(table, y, z) => ~Follows(table, x, z)
<1>1. /\ table[x].priority \in Nat /\ table[y].priority \in Nat /\ table[z].priority \in Nat
      /\ x \in Nat /\ y \in Nat /\ z \in Nat
  BY IndexRange, SortTablesAssumption DEF Index
<1> QED BY <1>1 DEF Follows

(* A swap permutes the slots.                                              *)
OneToOne(s) == \A i, j \in Index : s[i] = s[j] => i = j

LEMMA Swapped ==
    ASSUME TypeInv, NEW a \in Index, NEW b \in Index, a # b
    PROVE  /\ Swap(slots, a, b) \in [Index -> Index]
           /\ Swap(slots, a, b)[a] = slots[b] /\ Swap(slots, a, b)[b] = slots[a]
           /\ \A i \in Index \ {a, b} : Swap(slots, a, b)[i] = slots[i]
BY DEF Swap, TypeInv

LEMMA SwapIsOneToOne ==
    ASSUME TypeInv, NEW a \in Index, NEW b \in Index, a # b
    PROVE  OneToOne(Swap(slots, a, b))
<1> DEFINE s == Swap(slots, a, b)
<1>1. /\ s[a] = slots[b] /\ s[b] = slots[a]
      /\ \A i \in Index \ {a, b} : s[i] = slots[i]
  BY Swapped
<1>2. \A i, j \in Index : slots[i] = slots[j] => i = j
  BY DEF TypeInv
<1> HIDE DEF s
<1>3. OneToOne(s)
  BY <1>1, <1>2 DEF OneToOne
<1> QED BY <1>3 DEF s

(* The root of an ordered heap follows all the others.                     *)
LEMMA RootFollowsAll ==
    ASSUME TypeInv, HeapInv, sift = None, Low = 0, NEW i \in 1 .. Size - 1
    PROVE  Follows(table, slots[0], slots[i])
<1>1. /\ TaskCount \in Nat /\ Index = 0 .. TaskCount - 1 /\ Size \in 0 .. TaskCount
      /\ slots \in [Index -> Index]
      /\ \A a, b \in Index : slots[a] = slots[b] => a = b
  BY IndexRange DEF TypeInv, Size
<1> DEFINE Bad == {n \in 1 .. Size - 1 : ~Follows(table, slots[0], slots[n])}
<1> SUFFICES ASSUME Bad # {} PROVE FALSE
  OBVIOUS
<1>2. Bad \subseteq Nat
  BY <1>1
<1>3. PICK least \in Bad : \A n \in Bad : least <= n
  BY <1>2, LeastElement
<1>4. PICK p \in 0 .. Size - 1 : Child(p, least) /\ p < least
  <2> DEFINE p == (least - 1) \div 2
  <2>1. least \in Nat /\ least > 0 /\ least < Size
    BY <1>1
  <2>2. p \in Nat /\ (least = 2 * p + 1 \/ least = 2 * p + 2)
    BY <2>1
  <2> HIDE DEF p
  <2>3. p \in 0 .. Size - 1 /\ Child(p, least) /\ p < least
    BY <1>1, <2>1, <2>2 DEF Child
  <2> QED BY <2>3
<1>5. ~Follows(table, slots[least], slots[p])
  BY <1>1, <1>4 DEF HeapInv
<1>6. /\ slots[0] \in Index /\ slots[p] \in Index /\ slots[least] \in Index
      /\ slots[p] # slots[least] /\ ~Follows(table, slots[0], slots[least])
  <2>1. 0 \in Index /\ p \in Index /\ least \in Index /\ p # least
    BY <1>1, <1>4
  <2> QED BY <1>1, <2>1
<1>7. p # 0 => Follows(table, slots[0], slots[p])
  BY <1>1, <1>3, <1>4
<1> QED BY <1>5, <1>6, <1>7, TotalOrder DEF TypeInv

-----------------------------------------------------------------------------
LEMMA Initiation == Init => IInv
<1> SUFFICES ASSUME Init PROVE IInv
  OBVIOUS
<1>1. /\ table \in Tables /\ phase = "build" /\ sift = None
      /\ bound = TaskCount \div 2 /\ slots = [i \in Index |-> i]
  BY DEF Init, Index
<1>2. TaskCount \in Nat /\ Index = 0 .. TaskCount - 1
  BY <1>1, IndexRange
<1>3. TypeInv
  BY <1>1, <1>2 DEF TypeInv
<1>4. HeapInv
  BY <1>1, <1>2 DEF HeapInv, Low, Size, Child
<1> QED BY <1>1, <1>3, <1>4 DEF IInv, SiftInv, TailInv

LEMMA BuildStep == ASSUME IInv, Build PROVE IInv'
<1>1. /\ phase = "build" /\ phase' = "build" /\ sift = None /\ bound > 0 /\ bound' = bound - 1
      /\ sift' = [root |-> bound - 1, count |-> TaskCount] /\ slots' = slots /\ table' = table
  BY DEF Build
<1>2. /\ TaskCount \in Nat /\ Index = 0 .. TaskCount - 1 /\ bound \in 0 .. TaskCount
      /\ Index' = Index /\ TaskCount' = TaskCount
  BY <1>1, IndexRange DEF IInv, TypeInv, Index, TaskCount
<1>3. /\ Low = bound /\ Low' = bound - 1 /\ Size = TaskCount /\ Size' = TaskCount
      /\ sift'.root = bound - 1
  BY <1>1, <1>2 DEF Low, Size
<1>4. TypeInv'
  BY <1>1, <1>2, <1>3 DEF IInv, TypeInv
<1>5. sift' # None
  BY <1>1, <1>2 DEF None
<1>6. HeapInv'
  BY <1>1, <1>2, <1>3, <1>5 DEF IInv, HeapInv
<1>7. SiftInv'
  BY <1>1, <1>2, <1>3 DEF SiftInv, Child
<1> QED BY <1>1, <1>4, <1>6, <1>7 DEF IInv, TailInv

LEMMA BuildEndsStep == ASSUME IInv, BuildEnds PROVE IInv'
<1>1. /\ phase = "build" /\ phase' = "drain" /\ sift = None /\ sift' = None /\ bound = 0
      /\ bound' = TaskCount /\ slots' = slots /\ table' = table
  BY DEF BuildEnds
<1>2. /\ TaskCount \in Nat /\ Index = 0 .. TaskCount - 1
      /\ Index' = Index /\ TaskCount' = TaskCount
  BY <1>1, IndexRange DEF IInv, TypeInv, Index, TaskCount
<1>3. Low = 0 /\ Low' = 0 /\ Size = TaskCount /\ Size' = TaskCount
  BY <1>1, <1>2 DEF Low, Size
<1>4. TypeInv'
  BY <1>1, <1>2, <1>3 DEF IInv, TypeInv, None
<1>5. HeapInv'
  BY <1>1, <1>3, <1>2 DEF IInv, HeapInv
<1>6. TailInv'
  BY <1>1, <1>2 DEF TailInv
<1> QED BY <1>1, <1>4, <1>5, <1>6 DEF IInv, SiftInv, None

(* The root, which follows all the others, becomes the first of the tail.  *)
LEMMA DrainStep == ASSUME IInv, Drain PROVE IInv'
<1> DEFINE last == bound - 1
<1>1. /\ phase = "drain" /\ phase' = "drain" /\ sift = None /\ bound > 1 /\ bound' = last
      /\ slots' = Swap(slots, 0, last) /\ sift' = [root |-> 0, count |-> last] /\ table' = table
  BY DEF Drain
<1>2. /\ TaskCount \in Nat /\ Index = 0 .. TaskCount - 1 /\ bound \in 0 .. TaskCount
      /\ Index' = Index /\ TaskCount' = TaskCount /\ table \in Tables
  BY <1>1, IndexRange DEF IInv, TypeInv, Index, TaskCount
<1>3. /\ Low = 0 /\ Low' = 0 /\ Size = bound /\ Size' = last
      /\ 0 \in Index /\ last \in Index /\ last \in Nat /\ last > 0
  BY <1>1, <1>2 DEF Low, Size
<1>4. /\ slots' \in [Index -> Index] /\ slots'[0] = slots[last] /\ slots'[last] = slots[0]
      /\ \A i \in Index \ {0, last} : slots'[i] = slots[i]
      /\ \A i, j \in Index : slots'[i] = slots'[j] => i = j
  <2> DEFINE s == Swap(slots, 0, last)
  <2>1. /\ s \in [Index -> Index] /\ s[0] = slots[last] /\ s[last] = slots[0]
        /\ \A i \in Index \ {0, last} : s[i] = slots[i]
        /\ \A i, j \in Index : s[i] = s[j] => i = j
    <3>1. TypeInv /\ 0 # last
      BY <1>3 DEF IInv
    <3> HIDE DEF last
    <3>2. s \in [Index -> Index]
      BY <1>3, <3>1, Swapped
    <3>3. s[0] = slots[last] /\ s[last] = slots[0]
      BY <1>3, <3>1, Swapped
    <3>4. \A i \in Index \ {0, last} : s[i] = slots[i]
      BY <1>3, <3>1, Swapped
    <3>5. \A i, j \in Index : s[i] = s[j] => i = j
      BY <1>3, <3>1, SwapIsOneToOne DEF OneToOne
    <3> QED BY <3>2, <3>3, <3>4, <3>5
  <2> QED BY <1>1, <2>1
<1>5. TypeInv'
  BY <1>1, <1>2, <1>3, <1>4 DEF IInv, TypeInv
<1>6. sift' # None /\ sift'.root = 0
  BY <1>1, <1>3 DEF None
<1>7. HeapInv'
  <2> SUFFICES ASSUME NEW p \in 0 .. last - 1, NEW c \in 0 .. last - 1, Child(p, c), p # 0
               PROVE  ~Follows(table, slots'[c], slots'[p])
    BY <1>1, <1>3, <1>6 DEF HeapInv, Child
  <2>1. c # 0 /\ c # last /\ p # last /\ c \in Index /\ p \in Index
    BY <1>2, <1>3 DEF Child
  <2> QED BY <1>1, <1>2, <1>3, <1>4, <2>1 DEF IInv, HeapInv
<1>8. SiftInv'
  BY <1>1, <1>3, <1>6 DEF SiftInv, Child
<1>9. TailInv'
  <2> SUFFICES ASSUME NEW i \in Index, NEW j \in Index, i < j, last <= j
               PROVE  Follows(table, slots'[j], slots'[i])
    BY <1>1, <1>2 DEF TailInv
  <2>1. CASE j = last
    <3>1. PICK k \in 1 .. Size - 1 : slots'[i] = slots[k]
      BY <1>2, <1>3, <1>4, <2>1
    <3> QED BY <1>1, <1>3, <1>4, <2>1, <3>1, RootFollowsAll DEF IInv
  <2>2. CASE j # last
    <3>1. last < j /\ 0 < j /\ bound <= j
      BY <1>2, <1>3, <2>2
    <3>2. PICK k \in Index : k < j /\ slots'[i] = slots[k]
      <4>1. i # 0 /\ i # last => slots'[i] = slots[i]
        BY <1>4
      <4> QED BY <1>3, <1>4, <3>1, <4>1
    <3>3. slots'[j] = slots[j]
      BY <1>4, <2>2, <3>1
    <3> QED BY <1>1, <3>1, <3>2, <3>3 DEF IInv, TailInv
  <2> QED BY <2>1, <2>2
<1> QED BY <1>5, <1>7, <1>8, <1>9 DEF IInv

LEMMA DrainEndsStep == ASSUME IInv, DrainEnds PROVE IInv'
<1>1. /\ phase = "drain" /\ phase' = "done" /\ sift = None /\ bound <= 1
      /\ UNCHANGED <<table, slots, bound, sift>>
  BY DEF DrainEnds
<1>2. Index' = Index /\ TaskCount' = TaskCount /\ Low' = Low /\ Size' = Size
  BY <1>1 DEF Index, TaskCount, Low, Size
<1> QED BY <1>1, <1>2 DEF IInv, TypeInv, HeapInv, SiftInv, TailInv, None

(* The child that takes the place of the root follows its sibling, and its *)
(* own children stay below it.                                             *)
LEMMA SiftSwapStep == ASSUME IInv, SiftSwap PROVE IInv'
<1> DEFINE root == sift.root
           child == LargerChild(root, sift.count)
<1>1. /\ root < sift.count \div 2 /\ Follows(table, slots[child], slots[root])
      /\ slots' = Swap(slots, root, child) /\ sift' = [sift EXCEPT !.root = child]
      /\ UNCHANGED <<table, phase, bound>>
  BY DEF SiftSwap
<1>2. /\ TaskCount \in Nat /\ Index = 0 .. TaskCount - 1 /\ bound \in 0 .. TaskCount
      /\ Index' = Index /\ TaskCount' = TaskCount /\ table \in Tables
      /\ Low' = Low /\ Size' = Size /\ Low \in Nat /\ Size \in 0 .. TaskCount
  BY <1>1, IndexRange DEF IInv, TypeInv, Index, TaskCount, Low, Size
<1>3. /\ sift # None /\ sift = [root |-> root, count |-> Size]
      /\ root \in Low .. Size - 1 /\ sift.count = Size /\ phase # "done"
  <2>1. sift # None
    BY <1>1 DEF None
  <2> QED BY <2>1 DEF IInv, TypeInv
<1>4. /\ Child(root, child) /\ child \in Low .. Size - 1 /\ child # root
      /\ root \in Index /\ child \in Index
      /\ \A d \in 0 .. Size - 1 :
             Child(root, d) /\ d # child => ~Follows(table, slots[d], slots[child])
  <2>1. root \in Nat /\ 2 * root + 1 < Size
    BY <1>1, <1>2, <1>3
  <2>2. CASE 2 * root + 2 < Size /\ Follows(table, slots[2 * root + 2], slots[2 * root + 1])
    <3>1. child = 2 * root + 2
      BY <1>3, <2>1, <2>2 DEF LargerChild
    <3>2. slots[2 * root + 2] \in Index /\ slots[2 * root + 1] \in Index
      BY <1>2, <2>1, <2>2 DEF IInv, TypeInv
    <3>3. ~Follows(table, slots[2 * root + 1], slots[2 * root + 2])
      BY <1>2, <2>2, <3>2, TotalOrder
    <3> HIDE DEF child
    <3> QED BY <1>2, <1>3, <2>1, <2>2, <3>1, <3>3 DEF Child
  <2>3. CASE ~(2 * root + 2 < Size /\ Follows(table, slots[2 * root + 2], slots[2 * root + 1]))
    <3>1. child = 2 * root + 1
      BY <1>3, <2>1, <2>3 DEF LargerChild
    <3> HIDE DEF child
    <3> QED BY <1>2, <1>3, <2>1, <2>3, <3>1 DEF Child
  <2> QED BY <2>2, <2>3
<1> HIDE DEF child
<1>5. /\ slots' \in [Index -> Index] /\ slots'[root] = slots[child] /\ slots'[child] = slots[root]
      /\ \A i \in Index \ {root, child} : slots'[i] = slots[i]
      /\ \A i, j \in Index : slots'[i] = slots'[j] => i = j
  <2> DEFINE s == Swap(slots, root, child)
  <2>1. /\ s \in [Index -> Index] /\ s[root] = slots[child] /\ s[child] = slots[root]
        /\ \A i \in Index \ {root, child} : s[i] = slots[i]
        /\ \A i, j \in Index : s[i] = s[j] => i = j
    <3>1. TypeInv /\ root \in Index /\ child \in Index /\ root # child
      BY <1>4 DEF IInv
    <3>2. s \in [Index -> Index]
      BY <3>1, Swapped
    <3>3. s[root] = slots[child] /\ s[child] = slots[root]
      BY <3>1, Swapped
    <3>4. \A i \in Index \ {root, child} : s[i] = slots[i]
      BY <3>1, Swapped
    <3>5. \A i, j \in Index : s[i] = s[j] => i = j
      BY <3>1, SwapIsOneToOne DEF OneToOne
    <3> QED BY <3>2, <3>3, <3>4, <3>5
  <2> QED BY <1>1, <2>1
<1>6. sift' = [root |-> child, count |-> Size] /\ sift'.root = child /\ sift' # None
  BY <1>1, <1>2, <1>3, <1>4 DEF None
<1>7. TypeInv'
  BY <1>1, <1>2, <1>3, <1>4, <1>5, <1>6 DEF IInv, TypeInv
<1>8. HeapInv'
  <2> SUFFICES ASSUME NEW p \in Low .. Size - 1, NEW c \in 0 .. Size - 1, Child(p, c), p # child
               PROVE  ~Follows(table, slots'[c], slots'[p])
    BY <1>1, <1>2, <1>6 DEF HeapInv, Child
  <2>1. c \in Index /\ p \in Index
    BY <1>2
  <2>2. CASE p = root /\ c = child
    <3>1. slots[root] \in Index /\ slots[child] \in Index
      BY <1>4 DEF IInv, TypeInv
    <3> QED BY <1>1, <1>2, <1>5, <2>2, <3>1, TotalOrder
  <2>3. CASE p = root /\ c # child
    <3>1. c # root
      BY <1>2, <2>3 DEF Child
    <3> QED BY <1>4, <1>5, <2>1, <2>3, <3>1
  <2>4. CASE p # root /\ c = root
    <3>1. ~Follows(table, slots[child], slots[p])
      BY <1>2, <1>3, <1>4, <2>4 DEF IInv, SiftInv
    <3> QED BY <1>5, <2>1, <2>4, <3>1
  <2>5. CASE p # root /\ c # root
    <3>1. c # child
      BY <1>2, <1>3, <1>4, <2>5 DEF Child
    <3>2. ~Follows(table, slots[c], slots[p])
      BY <1>2, <2>5 DEF IInv, HeapInv
    <3> QED BY <1>5, <2>1, <2>5, <3>1, <3>2
  <2> QED BY <2>2, <2>3, <2>4, <2>5
<1>9. SiftInv'
  <2> SUFFICES ASSUME NEW p \in Low .. Size - 1, NEW c \in 0 .. Size - 1,
                      Child(p, child), Child(child, c)
               PROVE  ~Follows(table, slots'[c], slots'[p])
    BY <1>1, <1>2, <1>6 DEF SiftInv, Child
  <2>1. root \in Nat /\ child \in Nat /\ p \in Nat /\ c \in Nat /\ c \in Index
    BY <1>2, <1>3, <1>4
  <2>2. p = root /\ c # root /\ c # child
    BY <1>4, <2>1 DEF Child
  <2>3. ~Follows(table, slots[c], slots[child])
    BY <1>2, <1>4 DEF IInv, HeapInv
  <2> QED BY <1>5, <2>1, <2>2, <2>3
<1>10. TailInv'
  <2> SUFFICES ASSUME phase # "build", NEW i \in Index, NEW j \in Index, i < j, bound <= j
               PROVE  Follows(table, slots'[j], slots'[i])
    BY <1>1, <1>2 DEF TailInv
  <2>1. Size = bound /\ i \in Nat /\ j \in Nat /\ bound \in Nat
    BY <1>2 DEF Size
  <2>2. root < j /\ child < j /\ j # root /\ j # child
    BY <1>2, <1>3, <1>4, <2>1
  <2>3. slots'[j] = slots[j]
    BY <1>5, <2>2
  <2>4. PICK k \in Index : k < j /\ slots'[i] = slots[k]
    <3>1. i # root /\ i # child => slots'[i] = slots[i]
      BY <1>5
    <3> QED BY <1>4, <1>5, <2>2, <3>1
  <2> QED BY <2>3, <2>4 DEF IInv, TailInv
<1> QED BY <1>7, <1>8, <1>9, <1>10 DEF IInv

(* A sift ends where no child follows the root, so the heap is in order.   *)
LEMMA SiftEndsStep == ASSUME IInv, SiftEnds PROVE IInv'
<1> DEFINE root == sift.root
           child == LargerChild(root, sift.count)
<1>1. /\ sift # None /\ sift' = None /\ UNCHANGED <<table, slots, phase, bound>>
      /\ root < sift.count \div 2 => ~Follows(table, slots[child], slots[root])
  BY DEF SiftEnds
<1>2. /\ TaskCount \in Nat /\ Index = 0 .. TaskCount - 1
      /\ Index' = Index /\ TaskCount' = TaskCount /\ table \in Tables
      /\ Low' = Low /\ Size' = Size /\ Low \in Nat /\ Size \in 0 .. TaskCount
  BY <1>1, IndexRange DEF IInv, TypeInv, Index, TaskCount, Low, Size
<1>3. root \in Low .. Size - 1 /\ sift.count = Size
  BY <1>1 DEF IInv, TypeInv
<1>4. TypeInv'
  BY <1>1, <1>2 DEF IInv, TypeInv
<1>5. \A c \in 0 .. Size - 1 : Child(root, c) => ~Follows(table, slots[c], slots[root])
  <2> SUFFICES ASSUME NEW c \in 0 .. Size - 1, Child(root, c)
               PROVE  ~Follows(table, slots[c], slots[root])
    OBVIOUS
  <2>1. root \in Nat /\ root < Size \div 2 /\ 2 * root + 1 < Size
    BY <1>2, <1>3 DEF Child
  <2>2. CASE c = child
    BY <1>1, <1>3, <2>1, <2>2
  <2>3. CASE c # child
    <3>1. /\ child \in 0 .. Size - 1 /\ ~Follows(table, slots[c], slots[child])
      <4>1. CASE 2 * root + 2 < Size /\ Follows(table, slots[2 * root + 2], slots[2 * root + 1])
        <5>1. child = 2 * root + 2 /\ c = 2 * root + 1
          BY <1>3, <2>1, <2>3, <4>1 DEF LargerChild, Child
        <5>2. slots[c] \in Index /\ slots[child] \in Index
          BY <1>2, <2>1, <4>1, <5>1 DEF IInv, TypeInv
        <5> QED BY <1>2, <2>1, <4>1, <5>1, <5>2, TotalOrder
      <4>2. CASE ~(2 * root + 2 < Size /\ Follows(table, slots[2 * root + 2], slots[2 * root + 1]))
        <5>1. child = 2 * root + 1 /\ c = 2 * root + 2
          BY <1>3, <2>1, <2>3, <4>2 DEF LargerChild, Child
        <5> QED BY <1>2, <2>1, <4>2, <5>1
      <4> QED BY <4>1, <4>2
    <3>2. slots[c] \in Index /\ slots[child] \in Index /\ slots[root] \in Index
      BY <1>2, <1>3, <3>1 DEF IInv, TypeInv
    <3>3. ~Follows(table, slots[child], slots[root])
      BY <1>1, <1>3, <2>1
    <3> QED BY <1>2, <3>1, <3>2, <3>3, TotalOrder
  <2> QED BY <2>2, <2>3
<1>6. HeapInv'
  BY <1>1, <1>2, <1>5 DEF IInv, HeapInv, Child
<1> QED BY <1>1, <1>2, <1>4, <1>6 DEF IInv, SiftInv, TailInv

LEMMA Consecution == ASSUME IInv, [Next]_vars PROVE IInv'
<1>1. CASE UNCHANGED vars
  BY <1>1 DEF vars, IInv, TypeInv, HeapInv, SiftInv, TailInv, Index, TaskCount, Low, Size, Child
<1> QED BY <1>1, BuildStep, BuildEndsStep, DrainStep, DrainEndsStep, SiftSwapStep, SiftEndsStep
    DEF Next

(* The sort leaves the slots in the one order that the scheduler needs.    *)
THEOREM SortIsCorrect == Spec => []SortsSlots
<1>1. IInv => SortsSlots
  <2> SUFFICES ASSUME IInv, phase = "done" PROVE slots \in Sorted(table)
    BY DEF SortsSlots
  <2>1. slots \in [Index -> Index]
    BY DEF IInv, TypeInv
  <2>2. \A i, j \in Index : i < j => Follows(table, slots[j], slots[i])
    <3>1. \A i, j \in Index : i < j => bound <= j
      BY IndexRange DEF IInv, TypeInv
    <3> QED BY <3>1 DEF IInv, TailInv
  <2> QED BY <2>1, <2>2 DEF Sorted, Index
<1> QED BY <1>1, Initiation, Consecution, PTL DEF Spec

(* There is no other such order: equal priorities leave no choice, so what *)
(* Scheduler assumes of its slots is what the sort leaves in them.         *)
THEOREM OrderIsUnique ==
    ASSUME NEW t \in Tables, NEW p \in Sorted(t), NEW q \in Sorted(t)
    PROVE  p = q
<1> DEFINE D == DOMAIN t
<1>1. /\ Cardinality(D) \in Nat /\ D = 0 .. Cardinality(D) - 1 /\ IsFiniteSet(D)
      /\ \A id \in D : t[id].priority \in Nat
  BY SortTablesAssumption, FS_CardinalityType
<1>2. \A x, y \in D : Follows(t, x, y) => ~Follows(t, y, x)
  BY <1>1 DEF Follows
<1>3. /\ p \in [D -> D] /\ \A i, j \in D : i < j => Follows(t, p[j], p[i])
      /\ q \in [D -> D] /\ \A i, j \in D : i < j => Follows(t, q[j], q[i])
  BY DEF Sorted
<1>4. ASSUME NEW s \in [D -> D], \A i, j \in D : i < j => Follows(t, s[j], s[i])
      PROVE  \A id \in D : \E k \in D : s[k] = id
  <2>1. \A i, j \in D : s[i] = s[j] => i = j
    <3> SUFFICES ASSUME NEW i \in D, NEW j \in D, s[i] = s[j] PROVE ~(i < j) /\ ~(j < i)
      BY <1>1
    <3> QED BY <1>2, <1>4
  <2>2. s \in Injection(D, D)
    BY <2>1, Fun_IsInj
  <2>3. s \in Surjection(D, D)
    BY <1>1, <2>2, FS_Injection
  <2> QED BY <2>3, Fun_SurjectionProperties
<1> DEFINE Differ == {i \in D : p[i] # q[i]}
<1>5. ASSUME Differ # {} PROVE FALSE
  <2>1. Differ \subseteq Nat
    BY <1>1
  <2>2. PICK i \in Differ : \A n \in Differ : i <= n
    BY <1>5, <2>1, LeastElement
  <2>3. \A n \in D : n < i => p[n] = q[n]
    BY <1>1, <2>2
  <2>4. PICK j \in D : p[j] = q[i]
    BY <1>3, <1>4
  <2>5. PICK k \in D : q[k] = p[i]
    BY <1>3, <1>4
  <2>6. i \in D /\ p[i] # q[i] /\ j # i /\ k # i
    BY <2>2, <2>4, <2>5
  <2>7. ~(j < i) /\ ~(k < i)
    <3>1. j < i => Follows(t, q[i], q[j]) /\ q[j] = q[i]
      BY <1>3, <2>3, <2>4, <2>6
    <3>2. k < i => Follows(t, p[i], p[k]) /\ p[k] = p[i]
      BY <1>3, <2>3, <2>5, <2>6
    <3> QED BY <1>2, <1>3, <2>6, <3>1, <3>2
  <2>8. i < j /\ i < k
    BY <1>1, <2>6, <2>7
  <2>9. Follows(t, p[j], p[i]) /\ Follows(t, q[k], q[i])
    BY <1>3, <2>6, <2>8
  <2> QED BY <1>2, <1>3, <2>4, <2>5, <2>6, <2>9
<1> QED BY <1>3, <1>5
=============================================================================
