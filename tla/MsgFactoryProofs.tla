-------------------------- MODULE MsgFactoryProofs --------------------------
(* Proofs about Dispatch and MsgFactory. The searches find the type that   *)
(* is asked for, and count the types of an id, in every tuple they can     *)
(* handle, whatever its length and its ids. However many types, messages   *)
(* and pointers there are, a message is only ever cast to what it was      *)
(* created as, the storage for one message is accounted for, and read      *)
(* answers the truth.                                                      *)
EXTENDS MsgFactory, Induction, FiniteSetTheorems, TLAPS

-----------------------------------------------------------------------------
(* The ids of a tuple never decrease.                                      *)
LEMMA SortedIds ==
  ASSUME ids \in Tuples
  PROVE  /\ Size \in Nat /\ Size < SizeLimit
         /\ \A i \in 0..(Size - 1) : IdOf(i) \in Nat
         /\ \A i, j \in 0..(Size - 1) : i <= j => IdOf(i) <= IdOf(j)
<1>1. ids \in Seq(Nat) /\ WeakSorted(ids) /\ Len(ids) < SizeLimit
  BY TuplesAssumption
<1>2. Size \in Nat /\ Size < SizeLimit /\ \A i \in 0..(Size - 1) : IdOf(i) \in Nat
  BY <1>1 DEF Size, IdOf
<1>3. ASSUME NEW i \in 0..(Size - 1), NEW j \in 0..(Size - 1), i <= j
      PROVE  IdOf(i) <= IdOf(j)
  <2> DEFINE T == { k \in i..(Size - 1) : ~(IdOf(i) <= IdOf(k)) }
  <2> SUFFICES ASSUME T # {} PROVE FALSE
    BY <1>2, <1>3
  <2>1. T \subseteq Nat
    BY <1>2
  <2>2. PICK k \in T : \A l \in T : k <= l
    BY <2>1, LeastElement
  <2>3. k # i
    BY <1>2, <2>2
  <2>4. k - 1 \in i..(Size - 1) /\ k - 1 \notin T
    BY <1>2, <2>2, <2>3
  <2>5. IdOf(k - 1) <= IdOf(k)
    BY <1>1, <1>2, <2>2, <2>3 DEF WeakSorted, IdOf, Size
  <2> QED
    BY <1>2, <2>2, <2>4, <2>5
<1> QED
  BY <1>2, <1>3

(* Where every id has one type, they increase.                             *)
LEMMA StrongIds ==
  ASSUME ids \in Tuples, Strong
  PROVE  \A i, j \in 0..(Size - 1) : i < j => IdOf(i) < IdOf(j)
<1> SUFFICES ASSUME NEW i \in 0..(Size - 1), NEW j \in 0..(Size - 1), i < j
             PROVE  IdOf(i) < IdOf(j)
  OBVIOUS
<1>1. IdOf(i) <= IdOf(j - 1) /\ IdOf(j - 1) \in Nat /\ IdOf(i) \in Nat
      /\ IdOf(j) \in Nat
  BY SortedIds
<1>2. IdOf(j - 1) < IdOf(j)
  BY SortedIds DEF Strong, StrongSorted, IdOf, Size
<1> QED
  BY <1>1, <1>2

(* Between two types with the same id there is no other id.                *)
LEMMA RunIsDense ==
  ASSUME ids \in Tuples, NEW i \in 0..(Size - 1), NEW j \in 0..(Size - 1),
         IdOf(i) = IdOf(j)
  PROVE  \A k \in i..j : IdOf(k) = IdOf(i)
<1> SUFFICES ASSUME NEW k \in i..j PROVE IdOf(k) = IdOf(i)
  OBVIOUS
<1>1. k \in 0..(Size - 1) /\ Size \in Nat
  BY SortedIds
<1>2. IdOf(i) <= IdOf(k) /\ IdOf(k) <= IdOf(j)
  BY <1>1, SortedIds
<1> QED
  BY <1>1, <1>2, SortedIds

LEMMA StartIdx ==
  ASSUME ids \in Tuples, NEW i \in 0..(Size - 1)
  PROVE  /\ WeakStartIdx(i) \in 0..i
         /\ \A k \in WeakStartIdx(i)..i : IdOf(k) = IdOf(i)
         /\ WeakStartIdx(i) = 0 \/ IdOf(WeakStartIdx(i) - 1) # IdOf(i)
<1> DEFINE T == { j \in 0..i : \A k \in j..i : IdOf(k) = IdOf(i) }
<1>1. Size \in Nat
  BY SortedIds
<1>2. T \subseteq Nat /\ i \in T
  BY <1>1
<1>3. PICK j \in T : \A l \in T : j <= l
  BY <1>2, LeastElement
<1>4. j = 0 \/ IdOf(j - 1) # IdOf(i)
  <2> SUFFICES ASSUME j # 0, IdOf(j - 1) = IdOf(i) PROVE FALSE
    OBVIOUS
  <2>1. j - 1 \in T
    BY <1>1, <1>3
  <2> QED
    BY <1>1, <1>3, <2>1
<1>5. \E m \in 0..i : /\ \A k \in m..i : IdOf(k) = IdOf(i)
                      /\ m = 0 \/ IdOf(m - 1) # IdOf(i)
  BY <1>3, <1>4
<1> QED
  BY <1>5 DEF WeakStartIdx

LEMMA CountFrom ==
  ASSUME ids \in Tuples, NEW i \in 0..(Size - 1)
  PROVE  /\ WeakCount(i) \in 1..(Size - i)
         /\ \A k \in i..(i + WeakCount(i) - 1) : IdOf(k) = IdOf(i)
         /\ i + WeakCount(i) = Size \/ IdOf(i + WeakCount(i)) # IdOf(i)
<1> DEFINE T == { n \in 1..(Size - i) : i + n = Size \/ IdOf(i + n) # IdOf(i) }
<1>1. Size \in Nat
  BY SortedIds
<1>2. T \subseteq Nat /\ Size - i \in T
  BY <1>1
<1>3. PICK n \in T : \A l \in T : n <= l
  BY <1>2, LeastElement
<1>4. ASSUME NEW k \in i..(i + n - 1) PROVE IdOf(k) = IdOf(i)
  <2>1. CASE k = i
    BY <2>1
  <2>2. CASE k # i
    <3>1. k - i \in 1..(Size - i) /\ k - i \notin T /\ i + (k - i) = k /\ k # Size
      BY <1>1, <1>3, <2>2
    <3> QED
      BY <3>1
  <2> QED
    BY <2>1, <2>2
<1>5. \E m \in 1..(Size - i) :
        /\ \A k \in i..(i + m - 1) : IdOf(k) = IdOf(i)
        /\ i + m = Size \/ IdOf(i + m) # IdOf(i)
  BY <1>3, <1>4
<1> QED
  BY <1>5 DEF WeakCount

LEMMA Bounds ==
  ASSUME ids \in Tuples, id \in Nat
  PROVE  /\ LowerBound \in 0..Size
         /\ \A k \in 0..(LowerBound - 1) : IdOf(k) < id
         /\ \A k \in LowerBound..(Size - 1) : IdOf(k) >= id
         /\ UpperBound \in 0..Size
         /\ \A k \in 0..(UpperBound - 1) : IdOf(k) <= id
         /\ \A k \in UpperBound..(Size - 1) : IdOf(k) > id
<1> DEFINE L == { i \in 0..Size : \A k \in i..(Size - 1) : IdOf(k) >= id }
           U == { i \in 0..Size : \A k \in i..(Size - 1) : IdOf(k) > id }
<1>1. Size \in Nat /\ L \subseteq Nat /\ U \subseteq Nat /\ Size \in L /\ Size \in U
  BY SortedIds
<1>2. PICK l \in L : \A i \in L : l <= i
  BY <1>1, LeastElement
<1>3. PICK u \in U : \A i \in U : u <= i
  BY <1>1, LeastElement
<1>4. ASSUME NEW k \in 0..(l - 1) PROVE IdOf(k) < id
  <2>1. k \in 0..(Size - 1) /\ k \notin L
    BY <1>1, <1>2
  <2>2. PICK m \in k..(Size - 1) : ~(IdOf(m) >= id)
    BY <1>1, <2>1
  <2> QED
    BY <1>1, <2>1, <2>2, SortedIds
<1>5. ASSUME NEW k \in 0..(u - 1) PROVE IdOf(k) <= id
  <2>1. k \in 0..(Size - 1) /\ k \notin U
    BY <1>1, <1>3
  <2>2. PICK m \in k..(Size - 1) : ~(IdOf(m) > id)
    BY <1>1, <2>1
  <2> QED
    BY <1>1, <2>1, <2>2, SortedIds
<1>6. \E i \in 0..Size : /\ \A k \in 0..(i - 1) : IdOf(k) < id
                         /\ \A k \in i..(Size - 1) : IdOf(k) >= id
  BY <1>2, <1>4
<1>7. \E i \in 0..Size : /\ \A k \in 0..(i - 1) : IdOf(k) <= id
                         /\ \A k \in i..(Size - 1) : IdOf(k) > id
  BY <1>3, <1>5
<1>8. /\ LowerBound \in 0..Size
      /\ \A k \in 0..(LowerBound - 1) : IdOf(k) < id
      /\ \A k \in LowerBound..(Size - 1) : IdOf(k) >= id
  BY <1>6 DEF LowerBound
<1>9. /\ UpperBound \in 0..Size
      /\ \A k \in 0..(UpperBound - 1) : IdOf(k) <= id
      /\ \A k \in UpperBound..(Size - 1) : IdOf(k) > id
  BY <1>7 DEF UpperBound
<1> QED
  BY <1>8, <1>9

-----------------------------------------------------------------------------
(* The ranges that the search has left, see IInv. No run of types with the *)
(* same id is cut: it is in the range or it is not.                        *)
Border(i) == i = 0 \/ i = Size \/ IdOf(i - 1) # IdOf(i)

(* Although MidRangeCount takes no account of where the range begins, the  *)
(* range of the middle type is the whole run of its id: where count minus  *)
(* MidRangeStartIdx is not what is left of the range, it is below zero and *)
(* wraps to a number larger than any run.                                  *)
LEMMA MidRange ==
  ASSUME ids \in Tuples, from \in Nat, count \in Nat, from + count <= Size,
         count > 1, Border(from), Border(from + count),
         from > 0 => count < from
  PROVE  /\ MidIdx \in Nat /\ from <= MidIdx /\ MidIdx < from + count
         /\ MidIdx < Size
         /\ MidRangeStartIdx \in Nat /\ from <= MidRangeStartIdx
         /\ MidRangeStartIdx <= MidIdx
         /\ MidRangeCount \in Nat /\ MidIdx < MidRangeStartIdx + MidRangeCount
         /\ MidRangeStartIdx + MidRangeCount <= from + count
         /\ \A k \in MidRangeStartIdx..(MidRangeStartIdx + MidRangeCount - 1) :
               IdOf(k) = IdOf(MidIdx)
         /\ Border(MidRangeStartIdx)
         /\ Border(MidRangeStartIdx + MidRangeCount)
         /\ from = 0 => 2 * MidIdx + 1 >= count
<1> DEFINE mid == MidIdx
           start == WeakStartIdx(MidIdx)
<1>0. Size \in Nat /\ SizeLimit \in Nat /\ Size < SizeLimit
  BY SortedIds, TuplesAssumption
<1>1. /\ mid \in 0..(Size - 1) /\ from <= mid /\ mid < from + count
      /\ from = 0 => 2 * mid + 1 >= count
  BY <1>0 DEF MidIdx
<1>2. /\ start \in 0..mid /\ \A k \in start..mid : IdOf(k) = IdOf(mid)
      /\ start = 0 \/ IdOf(start - 1) # IdOf(mid)
  BY <1>1, StartIdx
<1>3. from <= start
  <2> SUFFICES ASSUME start < from PROVE FALSE
    BY <1>1, <1>2
  <2>1. from - 1 \in start..mid /\ from \in start..mid /\ from # Size /\ from # 0
    BY <1>0, <1>1, <1>2
  <2> QED
    BY <1>2, <2>1 DEF Border
<1>4. MidRangeStartIdx = start /\ IdOf(start) = IdOf(mid) /\ Border(start)
  BY <1>1, <1>2, <1>3 DEF MidRangeStartIdx, Greater, Border
<1>5. start \in 0..(Size - 1)
  BY <1>0, <1>1, <1>2
<1> DEFINE n == WeakCount(start)
<1>6. /\ n \in 1..(Size - start)
      /\ \A k \in start..(start + n - 1) : IdOf(k) = IdOf(start)
      /\ start + n = Size \/ IdOf(start + n) # IdOf(start)
  BY <1>5, CountFrom
<1>7. mid < start + n
  <2> SUFFICES ASSUME start + n <= mid PROVE FALSE
    BY <1>0, <1>1, <1>2, <1>6
  <2>1. start + n \in start..mid /\ start + n # Size
    BY <1>0, <1>1, <1>2, <1>6
  <2> QED
    BY <1>2, <1>4, <1>6, <2>1
<1>8. start + n <= from + count
  <2> SUFFICES ASSUME from + count < start + n PROVE FALSE
    BY <1>0, <1>1, <1>2, <1>6
  <2>1. /\ from + count - 1 \in start..(start + n - 1)
        /\ from + count \in start..(start + n - 1)
        /\ from + count # Size /\ from + count # 0
    BY <1>0, <1>1, <1>2, <1>6
  <2> QED
    BY <1>6, <2>1 DEF Border
<1>9. Border(start + n)
  BY <1>0, <1>4, <1>5, <1>6 DEF Border
<1>10. MidRangeCount = n
  <2>1. CASE from = 0
    <3>1. count - start \in Nat /\ n <= count - start
      BY <2>1, <1>0, <1>5, <1>6, <1>8
    <3> HIDE DEF n, start
    <3> QED
      BY <3>1, <1>4, <1>6, <1>0, <1>5 DEF MidRangeCount, Unsigned, Lesser, n, start
  <2>2. CASE from > 0
    <3>1. count - start < 0 /\ n < count - start + SizeLimit
      BY <2>2, <1>0, <1>3, <1>5, <1>6
    <3> QED
      BY <3>1, <1>4, <1>6, <1>0, <1>5 DEF MidRangeCount, Unsigned, Lesser
  <2> QED
    BY <2>1, <2>2
<1>11. \A k \in start..(start + n - 1) : IdOf(k) = IdOf(mid)
  BY <1>4, <1>6
<1> HIDE DEF n, start, mid
<1>12. MidRangeStartIdx = start /\ MidRangeCount = n /\ MidIdx = mid
  BY <1>4, <1>10 DEF mid
<1> QED
  BY <1>0, <1>1, <1>2, <1>3, <1>4, <1>6, <1>7, <1>8, <1>9, <1>11, <1>12

-----------------------------------------------------------------------------
(* What is true of the n types from number f on while the id is searched.  *)
IdStage(f, n, k) ==
    /\ f \in Nat /\ n \in Nat /\ f + n <= Size
    /\ k = index /\ (Strong => index = 0)
    /\ \A i \in 0..(Size - 1) : IdOf(i) = id => f <= i /\ i < f + n
    /\ how = "LinearSwitch" => f + n = Size
    /\ how = "StaticBinSearch" /\ ~Strong =>
         Border(f) /\ Border(f + n) /\ (f > 0 => n < f)

(* All of them have the id when the index is searched: it is k from f on,  *)
(* the first type of the id being index - k before f. Only where the range *)
(* begins at 0 the binary search has more than two.                        *)
OffsetStage(f, n, k) ==
    /\ f \in Nat /\ n \in Nat \ {0} /\ f + n <= Size
    /\ k \in Nat /\ k <= index /\ index - k <= f
    /\ \A i \in (f - (index - k))..(f + n - 1) : IdOf(i) = id
    /\ f = index - k \/ IdOf(f - (index - k) - 1) # id
    /\ how # "Polymorphic"
    /\ how = "LinearSwitch" => f + n = Size \/ IdOf(f + n) # id
    /\ how = "StaticBinSearch" => k < n /\ (n <= 2 \/ (f = 0 /\ n <= 4))

(* What a search may return.                                               *)
Answers(r) == IF r = NotFound THEN NoType(id, index) ELSE IsTheType(r, id, index)

IInv ==
    /\ ids \in Tuples /\ how \in Ways /\ op \in {"Type", "Count"}
    /\ id \in Nat /\ index \in Nat /\ offset \in Nat
    /\ from \in Nat /\ count \in Nat /\ result \in Int
    /\ phase \in {"idle", "id", "offset", "done"}
    /\ phase = "id" => IdStage(from, count, offset)
    /\ phase = "offset" => OffsetStage(from, count, offset)
    /\ FindsTheType

LEMMA InitIInv == SearchInit => IInv
<1> SUFFICES ASSUME SearchInit PROVE IInv
  OBVIOUS
<1> QED
  BY DEF SearchInit, IInv, Ways, NotFound, FindsTheType

LEMMA ReturnIInv ==
  ASSUME IInv, NEW r \in Int, op = "Type" => Answers(r), Return(r)
  PROVE  IInv'
BY DEF IInv, Return, Answers, FindsTheType, IsTheType, NoType, IdOf, Size, NotFound

LEMMA InstantiateIInv ==
  ASSUME IInv, NEW stage \in {"id", "offset"}, NEW f \in Nat, NEW n \in Nat,
         NEW k \in Nat, Instantiate(stage, f, n, k),
         stage = "id" => IdStage(f, n, k),
         stage = "offset" => OffsetStage(f, n, k)
  PROVE  IInv'
<1>1. /\ ids' = ids /\ how' = how /\ op' = op /\ id' = id /\ index' = index
      /\ result' = result /\ phase' = stage /\ from' = f /\ count' = n /\ offset' = k
  BY DEF Instantiate
<1>2. stage = "id" => IdStage(from, count, offset)'
  BY <1>1 DEF IdStage, Border, IdOf, Size, Strong
<1>3. stage = "offset" => OffsetStage(from, count, offset)'
  BY <1>1 DEF OffsetStage, IdOf, Size
<1>4. FindsTheType'
  BY <1>1 DEF FindsTheType
<1> QED
  BY <1>1, <1>2, <1>3, <1>4 DEF IInv

LEMMA StartIInv ==
  ASSUME IInv, NEW way \in Ways, NEW what \in {"Type", "Count"}, NEW i \in Nat,
         NEW k \in Nat, Start(way, what, i, k)
  PROVE  IInv'
<1>1. /\ ids' = ids /\ how' = way /\ op' = what /\ id' = i /\ index' = k
      /\ offset' = k /\ from' = 0 /\ count' = Size /\ result' = NotFound
      /\ phase' = IF Strong /\ k # 0 THEN "done" ELSE "id"
  BY DEF Start
<1>2. /\ ids \in Tuples /\ Size \in Nat
      /\ \A l, m \in 0..(Size - 1) : l <= m => IdOf(l) <= IdOf(m)
  BY SortedIds DEF IInv
<1>3. Size' = Size /\ Strong' = Strong /\ \A j : IdOf(j)' = IdOf(j)
  BY <1>1 DEF Size, Strong, IdOf
<1>4. phase' = "id" => IdStage(from, count, offset)'
  BY <1>1, <1>2, <1>3 DEF IdStage, Border
<1>5. FindsTheType'
  <2> SUFFICES ASSUME Strong, k # 0 PROVE NoType(id, index)'
    BY <1>1 DEF FindsTheType
  <2> SUFFICES ASSUME NEW j \in 0..(Size - 1), IdOf(j) = i, k <= j,
                      IdOf(j - k) = i
               PROVE  FALSE
    BY <1>1, <1>3 DEF NoType, IsTheType
  <2>1. j - k \in 0..(Size - 1) /\ j - k < j
    BY <1>2
  <2> QED
    BY <2>1, <1>2, StrongIds, SortedIds
<1> QED
  BY <1>1, <1>2, <1>4, <1>5 DEF IInv, NotFound

-----------------------------------------------------------------------------
(* Facts that all steps of the search for an id use.                       *)
LEMMA InvFacts ==
  ASSUME IInv
  PROVE  /\ ids \in Tuples /\ Size \in Nat /\ Size < SizeLimit
         /\ id \in Nat /\ index \in Nat
         /\ \A i \in 0..(Size - 1) : IdOf(i) \in Nat
         /\ \A i, j \in 0..(Size - 1) : i <= j => IdOf(i) <= IdOf(j)
         /\ Strong => \A i, j \in 0..(Size - 1) : i < j => IdOf(i) < IdOf(j)
<1>1. ids \in Tuples /\ id \in Nat /\ index \in Nat
  BY DEF IInv
<1> QED
  BY <1>1, SortedIds, StrongIds

(* No type of the id: nothing is to be found.                              *)
LEMMA NoneOfTheId ==
  ASSUME IInv, \A i \in 0..(Size - 1) : IdOf(i) # id
  PROVE  Answers(NotFound)
BY DEF Answers, NoType, IsTheType

(* Where every id has a type of its own, the one with the id is the answer.*)
LEMMA TheOnlyType ==
  ASSUME IInv, Strong, index = 0, NEW i \in 0..(Size - 1), IdOf(i) = id
  PROVE  Answers(i)
<1>1. i = 0 \/ IdOf(i - 1) # id
  <2> SUFFICES ASSUME i # 0 PROVE IdOf(i - 1) # id
    OBVIOUS
  <2>1. i - 1 \in 0..(Size - 1) /\ i - 1 < i /\ IdOf(i - 1) \in Nat
    BY InvFacts
  <2> QED
    BY <2>1, InvFacts
<1> QED
  BY <1>1 DEF Answers, IsTheType, NotFound

LEMMA SearchSingleIInv == ASSUME IInv, SearchSingle PROVE IInv'
<1> DEFINE r == IF offset # 0 \/ id # IdOf(from) THEN Miss
                ELSE IF op = "Count" THEN 1 ELSE from
<1>1. /\ IdStage(from, count, offset) /\ count = 1 /\ from \in Nat /\ offset \in Nat
      /\ Return(r)
  BY DEF SearchSingle, IInv
<1>2. from \in 0..(Size - 1) /\ \A i \in 0..(Size - 1) : IdOf(i) = id => i = from
  BY <1>1, InvFacts DEF IdStage
<1>3. r \in Int
  BY <1>1 DEF Miss, NotFound
<1>4. ASSUME op = "Type" PROVE Answers(r)
  <2>1. CASE id # IdOf(from)
    BY <1>2, <1>4, <2>1, NoneOfTheId DEF Miss
  <2>2. CASE id = IdOf(from) /\ offset # 0
    <3>1. NoType(id, index)
      <4> SUFFICES ASSUME NEW i \in 0..(Size - 1), IdOf(i) = id, index <= i,
                          IdOf(i - index) = id
                   PROVE  FALSE
        BY DEF NoType, IsTheType
      <4>1. index # 0 /\ index \in Nat /\ i - index \in 0..(Size - 1)
        BY <1>1, <2>2, InvFacts DEF IdStage
      <4> QED
        BY <1>2, <4>1
    <3> QED
      BY <1>4, <2>2, <3>1 DEF Answers, Miss
  <2>3. CASE id = IdOf(from) /\ offset = 0
    <3>1. index = 0
      BY <1>1, <2>3 DEF IdStage
    <3>2. from = 0 \/ IdOf(from - 1) # id
      <4> SUFFICES ASSUME from # 0, IdOf(from - 1) = id PROVE FALSE
        OBVIOUS
      <4>1. from - 1 \in 0..(Size - 1) /\ from - 1 # from
        BY <1>1, <1>2, InvFacts
      <4> QED
        BY <1>2, <4>1
    <3> QED
      BY <1>1, <1>2, <1>4, <2>3, <3>1, <3>2 DEF Answers, IsTheType, NotFound
  <2> QED
    BY <2>1, <2>2, <2>3
<1> HIDE DEF r
<1> QED
  BY <1>1, <1>3, <1>4, ReturnIInv

LEMMA SearchNoneIInv == ASSUME IInv, SearchNone PROVE IInv'
<1>1. IdStage(from, count, offset) /\ count = 0 /\ Return(Miss) /\ from \in Nat
  BY DEF SearchNone, IInv
<1>2. \A i \in 0..(Size - 1) : IdOf(i) # id
  BY <1>1, InvFacts DEF IdStage
<1>3. Miss \in Int /\ (op = "Type" => Answers(Miss))
  BY <1>2, NoneOfTheId DEF Miss, NotFound
<1> QED
  BY <1>1, <1>3, ReturnIInv

LEMMA StrongBinSearchIInv == ASSUME IInv, StrongBinSearch PROVE IInv'
<1>1. /\ IdStage(from, count, offset) /\ count > 1 /\ Strong /\ index = 0 /\ offset = 0
      /\ how = "StaticBinSearch" /\ from \in Nat /\ count \in Nat
  BY DEF StrongBinSearch, Searching, IInv, IdStage
<1>2. /\ MidIdx \in 0..(Size - 1) /\ from < MidIdx /\ MidIdx < from + count
      /\ IdOf(MidIdx) \in Nat
  BY <1>1, InvFacts DEF MidIdx, IdStage
<1>3. CASE id < IdOf(MidIdx) /\ Instantiate("id", from, MidIdx - from, offset)
  <2>1. IdStage(from, MidIdx - from, offset)
    BY <1>1, <1>2, <1>3, InvFacts DEF IdStage
  <2>2. MidIdx - from \in Nat
    BY <1>1, <1>2
  <2> QED
    BY <1>1, <1>3, <2>1, <2>2, InstantiateIInv
<1>4. CASE /\ IdOf(MidIdx) < id
           /\ Instantiate("id", MidIdx, count - (MidIdx - from), offset)
  <2>1. IdStage(MidIdx, count - (MidIdx - from), offset)
    BY <1>1, <1>2, <1>4, InvFacts DEF IdStage
  <2>2. count - (MidIdx - from) \in Nat
    BY <1>1, <1>2
  <2> QED
    BY <1>1, <1>2, <1>4, <2>1, <2>2, InstantiateIInv
<1>5. CASE id = IdOf(MidIdx) /\ Return(IF op = "Count" THEN 1 ELSE MidIdx)
  <2>1. Answers(MidIdx)
    BY <1>1, <1>2, <1>5, TheOnlyType
  <2> QED
    BY <1>2, <1>5, <2>1, ReturnIInv
<1> QED
  BY <1>3, <1>4, <1>5 DEF StrongBinSearch

LEMMA WeakBinSearchIInv == ASSUME IInv, WeakBinSearch, Dispatchable(ids) PROVE IInv'
<1> DEFINE start == MidRangeStartIdx
           n     == MidRangeCount
<1>1. /\ IdStage(from, count, offset) /\ count > 1 /\ ~Strong
      /\ how = "StaticBinSearch" /\ from \in Nat /\ count \in Nat
      /\ offset = index /\ from + count <= Size
      /\ Border(from) /\ Border(from + count) /\ (from > 0 => count < from)
  BY DEF WeakBinSearch, Searching, IInv, IdStage
<1>2. /\ MidIdx \in Nat /\ from <= MidIdx /\ MidIdx < from + count
      /\ MidIdx < Size
      /\ start \in Nat /\ from <= start /\ start <= MidIdx
      /\ n \in Nat /\ MidIdx < start + n
      /\ start + n <= from + count
      /\ \A k \in start..(start + n - 1) : IdOf(k) = IdOf(MidIdx)
      /\ Border(start) /\ Border(start + n)
      /\ from = 0 => 2 * MidIdx + 1 >= count
  BY <1>1, MidRange, InvFacts
<1>3. IdOf(MidIdx) \in Nat /\ MidIdx \in 0..(Size - 1)
  BY <1>2, InvFacts
<1> HIDE DEF start, n
<1>4. CASE id < IdOf(MidIdx) /\ Instantiate("id", from, start - from, offset)
  <2>1. ASSUME NEW i \in 0..(Size - 1), IdOf(i) = id PROVE i < start
    <3> SUFFICES ASSUME start <= i PROVE FALSE
      BY <1>2
    <3>1. start \in 0..(Size - 1) /\ IdOf(start) = IdOf(MidIdx)
      <4>1. start \in start..(start + n - 1)
        BY <1>2
      <4> QED
        BY <1>2, <4>1, InvFacts
    <3> QED
      BY <1>3, <1>4, <2>1, <3>1, InvFacts
  <2>2. IdStage(from, start - from, offset)
    BY <1>1, <1>2, <2>1, InvFacts DEF IdStage
  <2>3. start - from \in Nat /\ index \in Nat
    BY <1>1, <1>2, InvFacts
  <2> QED
    BY <1>1, <1>4, <2>2, <2>3, InstantiateIInv
<1>5. CASE /\ IdOf(MidIdx) < id
           /\ Instantiate("id", start + n, count - (start + n - from), offset)
  <2>1. ASSUME NEW i \in 0..(Size - 1), IdOf(i) = id PROVE start + n <= i
    <3> SUFFICES ASSUME i < start + n PROVE FALSE
      BY <1>2
    <3>1. start + n - 1 \in 0..(Size - 1) /\ IdOf(start + n - 1) = IdOf(MidIdx)
      BY <1>1, <1>2, InvFacts
    <3> QED
      BY <1>2, <1>3, <1>5, <2>1, <3>1, InvFacts
  <2>2. /\ count - (start + n - from) \in Nat /\ start + n \in Nat
        /\ start + n + (count - (start + n - from)) = from + count
        /\ count - (start + n - from) < start + n
    BY <1>1, <1>2
  <2>3. IdStage(start + n, count - (start + n - from), offset)
    BY <1>1, <1>2, <2>1, <2>2, InvFacts DEF IdStage
  <2> QED
    BY <1>1, <1>5, <2>2, <2>3, InstantiateIInv, InvFacts
<1>6. CASE id = IdOf(MidIdx) /\ op = "Count" /\ Return(n)
  BY <1>2, <1>6, ReturnIInv
<1>7. ASSUME id = IdOf(MidIdx)
      PROVE  start = 0 \/ IdOf(start - 1) # id
  BY <1>2, <1>3, <1>7 DEF Border
<1>8. CASE id = IdOf(MidIdx) /\ n <= offset /\ Return(NotFound)
  <2>1. NoType(id, index)
    <3> SUFFICES ASSUME NEW i \in 0..(Size - 1), IdOf(i) = id, index <= i,
                        IdOf(i - index) = id
                 PROVE  FALSE
      BY DEF NoType, IsTheType
    <3>1. i - index \in 0..(Size - 1)
      BY InvFacts
    <3>2. start <= i - index
      <4> SUFFICES ASSUME i - index < start PROVE FALSE
        BY <1>2, <3>1
      <4>1. /\ MidIdx \in 0..(Size - 1) /\ start - 1 \in (i - index)..MidIdx
            /\ start # 0
        BY <1>2, <1>3, <3>1
      <4>2. IdOf(start - 1) = id
        BY <1>8, <3>1, <4>1, RunIsDense, InvFacts
      <4> QED
        BY <1>7, <1>8, <4>1, <4>2
    <3>3. start + n <= i
      BY <1>1, <1>2, <1>8, <3>2, InvFacts
    <3>4. /\ start + n \in 0..(Size - 1) /\ start + n - 1 \in 0..(Size - 1)
          /\ start + n # 0
          /\ IdOf(start + n - 1) = id
      BY <1>2, <1>8, <3>3, InvFacts
    <3>5. IdOf(start + n) = id
      <4>1. start + n \in (start + n - 1)..i
        BY <1>2, <3>3
      <4> QED
        BY <3>4, <4>1, RunIsDense, InvFacts
    <3> QED
      BY <1>2, <3>4, <3>5, InvFacts DEF Border
  <2> QED
    BY <1>8, <2>1, ReturnIInv DEF Answers, NotFound
<1>9. CASE id = IdOf(MidIdx) /\ offset < n /\ Instantiate("offset", start, n, offset)
  <2>1. n <= 2 \/ (start = 0 /\ n <= 4)
    <3>1. ids \in Seq(Nat) /\ \A k \in start..(start + n - 1) : ids[k + 1] = id
      BY <1>2, <1>9, TuplesAssumption, InvFacts DEF IdOf
    <3>2. CASE n > 2
      <4>0. start + n <= Len(ids) /\ Len(ids) \in Nat
        BY <1>1, <1>2, InvFacts DEF Size
      <4>1. ids[start + 1] = id /\ ids[(start + 1) + 2] = id
        <5>1. start \in start..(start + n - 1) /\ start + 2 \in start..(start + n - 1)
              /\ (start + 2) + 1 = (start + 1) + 2
          BY <1>2, <3>2
        <5>2. ids[(start + 2) + 1] = id /\ ids[start + 1] = id
          BY <3>1, <5>1
        <5> QED
          BY <5>1, <5>2
      <4>2. start + 1 <= 2 /\ ids[1] = id
        <5>1. start + 1 \in 1..(Len(ids) - 2)
          BY <1>2, <3>2, <4>0
        <5> QED
          BY <4>1, <5>1 DEF Dispatchable
      <4>3. start = 0
        BY <1>2, <1>7, <1>9, <4>2 DEF IdOf
      <4>4. n <= 4
        <5> SUFFICES ASSUME n > 4 PROVE FALSE
          BY <1>2
        <5>1. 3 \in 1..(Len(ids) - 2)
          BY <1>2, <4>0, <4>3
        <5>2. 2 \in start..(start + n - 1) /\ 4 \in start..(start + n - 1)
          BY <1>2, <4>3
        <5>3. ids[2 + 1] = id /\ ids[4 + 1] = id
          BY <3>1, <5>2
        <5>4. ids[3] = ids[3 + 2]
          BY <5>3
        <5>5. 3 <= 2
          BY <5>1, <5>4 DEF Dispatchable
        <5> QED
          BY <5>5
      <4> QED
        BY <4>3, <4>4
    <3> QED
      BY <1>2, <3>2
  <2>2. OffsetStage(start, n, offset)
    BY <1>1, <1>2, <1>7, <1>9, <2>1, InvFacts DEF OffsetStage
  <2> QED
    BY <1>1, <1>2, <1>9, <2>2, InstantiateIInv, InvFacts
<1> QED
  BY <1>1, <1>2, <1>4, <1>5, <1>6, <1>8, <1>9, InvFacts DEF WeakBinSearch, start, n

LEMMA OffsetFacts ==
  ASSUME IInv, phase = "offset"
  PROVE  /\ OffsetStage(from, count, offset)
         /\ from \in Nat /\ count \in Nat /\ offset \in Nat
         /\ index \in Nat /\ Size \in Nat /\ from + count <= Size
BY InvFacts DEF IInv, OffsetStage

(* The type k from the beginning of the range on is the one asked for.     *)
LEMMA TypeOfTheRange ==
  ASSUME IInv, phase = "offset", offset < count
  PROVE  Answers(from + offset)
<1>1. /\ OffsetStage(from, count, offset)
      /\ from \in Nat /\ count \in Nat /\ offset \in Nat
      /\ index \in Nat /\ Size \in Nat /\ from + count <= Size
  BY OffsetFacts
<1>2. /\ from + offset \in 0..(Size - 1) /\ index <= from + offset
      /\ from + offset - index = from - (index - offset)
      /\ from + offset \in (from - (index - offset))..(from + count - 1)
      /\ from - (index - offset) \in (from - (index - offset))..(from + count - 1)
  BY <1>1 DEF OffsetStage
<1>3. IdOf(from + offset) = id /\ IdOf(from + offset - index) = id
  BY <1>1, <1>2 DEF OffsetStage
<1>4. from + offset = index \/ IdOf(from + offset - index - 1) # id
  BY <1>1, <1>2 DEF OffsetStage
<1> QED
  BY <1>1, <1>2, <1>3, <1>4 DEF Answers, IsTheType, NotFound

LEMMA OffsetBinSearchIInv == ASSUME IInv, OffsetBinSearch PROVE IInv'
<1> DEFINE mid == count \div 2
<1>1. /\ phase = "offset" /\ how = "StaticBinSearch" /\ count > 1
      /\ OffsetStage(from, count, offset)
      /\ from \in Nat /\ count \in Nat /\ offset \in Nat
      /\ index \in Nat /\ Size \in Nat /\ from + count <= Size
  BY OffsetFacts DEF OffsetBinSearch
<1>2. /\ offset < count /\ (count <= 2 \/ (from = 0 /\ count <= 4))
      /\ offset <= index /\ index - offset <= from
  BY <1>1 DEF OffsetStage
<1>3. /\ mid \in Nat \ {0} /\ mid < count /\ 2 * mid <= count
      /\ count <= 2 * mid + 1 /\ MidIdx = from + mid
  BY <1>1 DEF MidIdx
<1> HIDE DEF mid
<1>4. CASE offset < mid /\ Instantiate("offset", from, mid, offset)
  <2>1. OffsetStage(from, mid, offset)
    BY <1>1, <1>2, <1>3, <1>4 DEF OffsetStage
  <2> QED
    BY <1>1, <1>3, <1>4, <2>1, InstantiateIInv
<1>5. CASE /\ mid < offset
           /\ Instantiate("offset", mid, count - (mid - from), offset - mid)
  <2>1. from = 0 /\ count <= 4 /\ index = offset
    BY <1>1, <1>2, <1>3, <1>5
  <2>2. OffsetStage(mid, count - mid, offset - mid)
    BY <1>1, <1>2, <1>3, <1>5, <2>1 DEF OffsetStage
  <2>3. count - mid \in Nat /\ offset - mid \in Nat /\ count - (mid - from) = count - mid
    BY <1>1, <1>2, <1>3, <1>5, <2>1
  <2> QED
    BY <1>3, <1>5, <2>2, <2>3, InstantiateIInv
<1>6. CASE mid = offset /\ Return(MidIdx)
  BY <1>1, <1>2, <1>3, <1>6, TypeOfTheRange, ReturnIInv
<1> QED
  BY <1>4, <1>5, <1>6 DEF OffsetBinSearch, mid

(* Behind the types of an id none has it.                                  *)
LEMMA BehindTheRun ==
  ASSUME IInv, phase = "offset", count <= offset
  PROVE  NoType(id, index)
<1>1. /\ OffsetStage(from, count, offset) /\ how = "LinearSwitch"
      /\ from \in Nat /\ count \in Nat \ {0} /\ offset \in Nat
      /\ index \in Nat /\ Size \in Nat /\ from + count <= Size
      /\ offset <= index /\ index - offset <= from
      /\ from + count = Size \/ IdOf(from + count) # id
  BY OffsetFacts DEF OffsetStage, IInv, Ways
<1> DEFINE first == from - (index - offset)
<1> SUFFICES ASSUME NEW i \in 0..(Size - 1), IdOf(i) = id, index <= i,
                    IdOf(i - index) = id
             PROVE  FALSE
  BY DEF NoType, IsTheType
<1>2. first \in Nat /\ first \in first..(from + count - 1) /\ first <= Size - 1
  BY <1>1
<1>3. IdOf(first) = id
  BY <1>1, <1>2 DEF OffsetStage
<1>4. first <= i - index
  <2> SUFFICES ASSUME i - index < first PROVE FALSE
    BY <1>1, <1>2
  <2>1. /\ i - index \in 0..(Size - 1) /\ first \in 0..(Size - 1)
        /\ first - 1 \in (i - index)..first /\ first # 0
    BY <1>1, <1>2
  <2>2. IdOf(first - 1) = id
    BY <1>3, <2>1, RunIsDense, InvFacts
  <2> QED
    BY <1>1, <2>1, <2>2 DEF OffsetStage
<1>5. from + count <= i
  BY <1>1, <1>4
<1>6. first \in 0..(Size - 1) /\ from + count \in first..i /\ from + count # Size
  BY <1>1, <1>2, <1>5
<1>7. IdOf(from + count) = id
  BY <1>3, <1>6, RunIsDense, InvFacts
<1> QED
  BY <1>1, <1>6, <1>7

LEMMA OffsetSingleIInv == ASSUME IInv, OffsetSingle PROVE IInv'
<1>1. /\ phase = "offset" /\ count = 1 /\ from \in Nat /\ offset \in Nat
      /\ Return(IF offset # 0 THEN NotFound ELSE from)
  BY OffsetFacts DEF OffsetSingle
<1>2. CASE offset # 0
  <2>1. Answers(NotFound)
    BY <1>1, <1>2, BehindTheRun DEF Answers
  <2> QED
    BY <1>1, <1>2, <2>1, ReturnIInv DEF NotFound
<1>3. CASE offset = 0
  <2>1. Answers(from)
    BY <1>1, <1>3, TypeOfTheRange
  <2> QED
    BY <1>1, <1>3, <2>1, ReturnIInv
<1> QED
  BY <1>2, <1>3

LEMMA OffsetLinearSwitchIInv == ASSUME IInv, OffsetLinearSwitch PROVE IInv'
<1>1. /\ phase = "offset" /\ how = "LinearSwitch" /\ count > 1
      /\ OffsetStage(from, count, offset)
      /\ from \in Nat /\ count \in Nat /\ offset \in Nat
      /\ index \in Nat /\ Size \in Nat /\ from + count <= Size
  BY OffsetFacts DEF OffsetLinearSwitch
<1>2. CASE offset = 0 /\ Return(from)
  BY <1>1, <1>2, TypeOfTheRange, ReturnIInv
<1>3. CASE offset # 0 /\ Instantiate("offset", from + 1, count - 1, offset - 1)
  <2>1. OffsetStage(from + 1, count - 1, offset - 1)
    BY <1>1, <1>3 DEF OffsetStage
  <2>2. count - 1 \in Nat /\ offset - 1 \in Nat
    BY <1>1, <1>3
  <2> QED
    BY <1>1, <1>3, <2>1, <2>2, InstantiateIInv
<1> QED
  BY <1>2, <1>3 DEF OffsetLinearSwitch

LEMMA StrongLinearSwitchIInv == ASSUME IInv, StrongLinearSwitch PROVE IInv'
<1>1. /\ IdStage(from, count, offset) /\ count > 1 /\ Strong /\ index = 0 /\ offset = 0
      /\ how = "LinearSwitch" /\ from \in Nat /\ count \in Nat /\ from + count <= Size
  BY DEF StrongLinearSwitch, Searching, IInv, IdStage
<1>2. from \in 0..(Size - 1)
  BY <1>1, InvFacts
<1>3. CASE id = IdOf(from) /\ Return(from)
  BY <1>1, <1>2, <1>3, TheOnlyType, ReturnIInv
<1>4. CASE id # IdOf(from) /\ Instantiate("id", from + 1, count - 1, offset)
  <2>1. IdStage(from + 1, count - 1, offset)
    BY <1>1, <1>4, InvFacts DEF IdStage
  <2>2. count - 1 \in Nat
    BY <1>1
  <2> QED
    BY <1>1, <1>4, <2>1, <2>2, InstantiateIInv
<1> QED
  BY <1>3, <1>4 DEF StrongLinearSwitch

LEMMA WeakLinearSwitchIInv == ASSUME IInv, WeakLinearSwitch PROVE IInv'
<1> DEFINE n == WeakCount(from)
<1>1. /\ IdStage(from, count, offset) /\ count > 1 /\ ~Strong /\ offset = index
      /\ how = "LinearSwitch" /\ from \in Nat /\ count \in Nat /\ from + count = Size
      /\ \A i \in 0..(Size - 1) : IdOf(i) = id => from <= i
  BY DEF WeakLinearSwitch, Searching, IInv, IdStage
<1>2. from \in 0..(Size - 1)
  BY <1>1, InvFacts
<1>3. /\ n \in 1..(Size - from)
      /\ \A k \in from..(from + n - 1) : IdOf(k) = IdOf(from)
      /\ from + n = Size \/ IdOf(from + n) # IdOf(from)
  BY <1>2, CountFrom, InvFacts
<1> HIDE DEF n
<1>4. CASE id = IdOf(from) /\ Instantiate("offset", from, n, offset)
  <2>1. from = 0 \/ IdOf(from - 1) # id
    <3> SUFFICES ASSUME from # 0, IdOf(from - 1) = id PROVE FALSE
      OBVIOUS
    <3>1. from - 1 \in 0..(Size - 1)
      BY <1>1, <1>2, InvFacts
    <3> QED
      BY <1>1, <3>1
  <2>2. OffsetStage(from, n, offset)
    BY <1>1, <1>3, <1>4, <2>1, InvFacts DEF OffsetStage
  <2> QED
    BY <1>1, <1>3, <1>4, <2>2, InstantiateIInv, InvFacts
<1>5. CASE id # IdOf(from) /\ Instantiate("id", from + n, count - n, offset)
  <2>1. ASSUME NEW i \in 0..(Size - 1), IdOf(i) = id PROVE from + n <= i
    BY <1>1, <1>3, <1>5, <2>1, InvFacts
  <2>2. IdStage(from + n, count - n, offset)
    BY <1>1, <1>3, <2>1, InvFacts DEF IdStage
  <2>3. count - n \in Nat /\ from + n \in Nat
    BY <1>1, <1>3
  <2> QED
    BY <1>1, <1>5, <2>2, <2>3, InstantiateIInv, InvFacts
<1> QED
  BY <1>4, <1>5 DEF WeakLinearSwitch, n

LEMMA DirectDispatchIInv == ASSUME IInv, DirectDispatch PROVE IInv'
<1> DEFINE registered == { i \in 0..(Size - 1) : IdOf(i) = id }
           r == IF registered = {} THEN NotFound
                ELSE CHOOSE i \in registered : TRUE
<1>1. Strong /\ index = 0 /\ Return(r)
  BY DEF DirectDispatch, Searching, IInv, IdStage
<1>2. CASE registered = {}
  <2>1. r = NotFound /\ Answers(r)
    BY <1>2, NoneOfTheId
  <2> QED
    BY <1>1, <2>1, ReturnIInv DEF NotFound
<1>3. CASE registered # {}
  <2>1. r \in registered
    BY <1>3
  <2>2. r \in 0..(Size - 1) /\ IdOf(r) = id
    BY <2>1
  <2> HIDE DEF r, registered
  <2>3. Answers(r)
    BY <1>1, <2>2, TheOnlyType
  <2> QED
    BY <1>1, <2>2, <2>3, ReturnIInv, InvFacts
<1> QED
  BY <1>2, <1>3

LEMMA BoundsDispatchIInv == ASSUME IInv, BoundsDispatch PROVE IInv'
<1> DEFINE lb == LowerBound
           ub == UpperBound
           r == IF \/ lb = Size \/ IdOf(lb) # id
                   \/ ~Strong /\ ub - lb <= offset
                THEN NotFound ELSE lb + offset
<1>1. /\ Return(r) /\ offset = index /\ (Strong => index = 0)
      /\ index \in Nat /\ Size \in Nat
  BY InvFacts DEF BoundsDispatch, Searching, IInv, IdStage
<1>2. /\ lb \in 0..Size
      /\ \A k \in 0..(lb - 1) : IdOf(k) < id
      /\ \A k \in lb..(Size - 1) : IdOf(k) >= id
      /\ ub \in 0..Size
      /\ \A k \in 0..(ub - 1) : IdOf(k) <= id
      /\ \A k \in ub..(Size - 1) : IdOf(k) > id
  BY Bounds, InvFacts
<1> HIDE DEF lb, ub
<1>3. CASE lb = Size \/ IdOf(lb) # id
  <2>1. ASSUME NEW i \in 0..(Size - 1) PROVE IdOf(i) # id
    <3>1. CASE i < lb
      BY <1>1, <1>2, <3>1, InvFacts
    <3>2. CASE lb <= i
      <4>1. lb \in 0..(Size - 1)
        BY <1>1, <1>2, <3>2
      <4> QED
        BY <1>1, <1>2, <1>3, <3>2, <4>1, InvFacts
    <3> QED
      BY <1>1, <1>2, <3>1, <3>2
  <2>2. r = NotFound /\ Answers(r)
    BY <1>3, <2>1, NoneOfTheId
  <2> QED
    BY <1>1, <2>2, ReturnIInv DEF NotFound
<1>4. CASE lb # Size /\ IdOf(lb) = id /\ ~Strong /\ ub - lb <= offset
  <2>1. NoType(id, index)
    <3> SUFFICES ASSUME NEW i \in 0..(Size - 1), IdOf(i) = id, index <= i,
                        IdOf(i - index) = id
                 PROVE  FALSE
      BY DEF NoType, IsTheType
    <3>1. i - index \in 0..(Size - 1) /\ id \in Nat
      BY <1>1, InvFacts
    <3>2. lb <= i - index /\ i < ub
      BY <1>1, <1>2, <3>1
    <3> QED
      BY <1>1, <1>2, <1>4, <3>2
  <2>2. r = NotFound /\ Answers(r)
    BY <1>4, <2>1 DEF Answers
  <2> QED
    BY <1>1, <2>2, ReturnIInv DEF NotFound
<1>5. CASE lb # Size /\ IdOf(lb) = id /\ (Strong \/ ub - lb > offset)
  <2>1. r = lb + offset /\ lb \in 0..(Size - 1) /\ id \in Nat
    BY <1>1, <1>2, <1>5, InvFacts
  <2>2. lb + index \in 0..(Size - 1) /\ IdOf(lb + index) = id
    <3>1. CASE Strong
      BY <1>1, <1>5, <2>1, <3>1
    <3>2. CASE ub - lb > offset
      <4>1. lb + index \in lb..(Size - 1) /\ lb + index \in 0..(ub - 1)
        BY <1>1, <1>2, <2>1, <3>2
      <4>2. IdOf(lb + index) >= id /\ IdOf(lb + index) <= id
        BY <1>2, <4>1
      <4> QED
        BY <4>1, <4>2, <1>1, <1>2, <2>1, InvFacts
    <3> QED
      BY <1>5, <3>1, <3>2
  <2>3. lb = 0 \/ IdOf(lb - 1) # id
    BY <1>1, <1>2, <2>1, InvFacts
  <2>4. lb + index - index = lb /\ index <= lb + index
    BY <1>1, <1>2
  <2>5. IsTheType(lb + index, id, index)
    BY <1>1, <1>2, <1>5, <2>2, <2>3, <2>4 DEF IsTheType
  <2>6. Answers(r) /\ r \in Int
    BY <1>1, <1>2, <2>1, <2>2, <2>5 DEF Answers, NotFound
  <2> QED
    BY <1>1, <2>6, ReturnIInv
<1> QED
  BY <1>1, <1>2, <1>3, <1>4, <1>5 DEF lb, ub

-----------------------------------------------------------------------------
(* A search is called with any id and index, or for the number of types of *)
(* any id; it goes on, or is over.                                         *)
SearchMoves ==
    \/ \E way \in Ways, i \in Nat, k \in Nat : Start(way, "Type", i, k)
    \/ \E i \in Nat : Start("StaticBinSearch", "Count", i, 0)
    \/ SearchStep
    \/ Got

LEMMA GotIInv == ASSUME IInv, Got PROVE IInv'
BY DEF Got, IInv, Ways, NotFound, FindsTheType

LEMMA SearchMovesIInv ==
  ASSUME IInv, Dispatchable(ids), SearchMoves
  PROVE  IInv'
<1>1. CASE SearchStep
  BY <1>1, SearchSingleIInv, SearchNoneIInv, StrongBinSearchIInv,
     WeakBinSearchIInv, OffsetBinSearchIInv, OffsetSingleIInv,
     StrongLinearSwitchIInv, WeakLinearSwitchIInv, OffsetLinearSwitchIInv,
     DirectDispatchIInv, BoundsDispatchIInv DEF SearchStep
<1>2. \A i, k \in Nat, way \in Ways : Start(way, "Type", i, k) => IInv'
  BY StartIInv
<1>3. \A i \in Nat : Start("StaticBinSearch", "Count", i, 0) => IInv'
  BY StartIInv DEF Ways
<1> QED
  BY <1>1, <1>2, <1>3, GotIInv DEF SearchMoves

LEMMA IInvUnchanged == ASSUME IInv, UNCHANGED searchVars PROVE IInv'
<1>1. /\ ids' = ids /\ how' = how /\ op' = op /\ id' = id /\ index' = index
      /\ result' = result /\ phase' = phase /\ from' = from /\ count' = count
      /\ offset' = offset
  BY DEF searchVars
<1>2. IdStage(from, count, offset)' = IdStage(from, count, offset)
  BY <1>1 DEF IdStage, Border, IdOf, Size, Strong
<1>3. OffsetStage(from, count, offset)' = OffsetStage(from, count, offset)
  BY <1>1 DEF OffsetStage, IdOf, Size
<1>4. FindsTheType' = FindsTheType
  BY <1>1 DEF FindsTheType, IsTheType, NoType, IdOf, Size
<1> QED
  BY <1>1, <1>2, <1>3, <1>4 DEF IInv

-----------------------------------------------------------------------------
(* Counting is a binary search for the id, and ends with the range found.  *)
CInv ==
    /\ op = "Count" => how = "StaticBinSearch" /\ index = 0 /\ phase # "offset"
    /\ CountsTheTypes

NumberOfTypes == Cardinality({ i \in 0..(Size - 1) : IdOf(i) = id })

(* If exactly the n types from number f on have the id, there are n.       *)
LEMMA RangeCounts ==
  ASSUME IInv, NEW f \in Nat, NEW n \in Nat, f + n <= Size,
         \A i \in 0..(Size - 1) : IdOf(i) = id <=> i \in f..(f + n - 1)
  PROVE  NumberOfTypes = n
<1>1. Size \in Nat
  BY InvFacts
<1>2. { i \in 0..(Size - 1) : IdOf(i) = id } = f..(f + n - 1)
  BY <1>1
<1>3. Cardinality(f..(f + n - 1)) = n
  <2> DEFINE b == f + n - 1
  <2>1. b \in Int /\ (IF f > b THEN 0 ELSE b - f + 1) = n
    OBVIOUS
  <2>2. f \in Int
    OBVIOUS
  <2> HIDE DEF b
  <2>3. Cardinality(f..b) = IF f > b THEN 0 ELSE b - f + 1
    BY <2>1, <2>2, FS_Interval
  <2>4. Cardinality(f..b) = n
    BY <2>1, <2>3
  <2> QED
    BY <2>4 DEF b
<1> QED
  BY <1>2, <1>3 DEF NumberOfTypes

(* Returning the number keeps the invariant.                               *)
LEMMA ReturnCInv ==
  ASSUME CInv, NEW r, op = "Count" => r = NumberOfTypes, Return(r)
  PROVE  CInv'
BY DEF CInv, Return, CountsTheTypes, NumberOfTypes, IdOf, Size

LEMMA SearchSingleCInv == ASSUME IInv, CInv, SearchSingle PROVE CInv'
<1> DEFINE r == IF offset # 0 \/ id # IdOf(from) THEN Miss
                ELSE IF op = "Count" THEN 1 ELSE from
<1>1. /\ IdStage(from, count, offset) /\ count = 1 /\ from \in Nat
      /\ Return(r)
  BY DEF SearchSingle, IInv
<1>2. from \in 0..(Size - 1) /\ \A i \in 0..(Size - 1) : IdOf(i) = id => i = from
  BY <1>1, InvFacts DEF IdStage
<1>3. ASSUME op = "Count" PROVE r = NumberOfTypes
  <2>1. offset = 0
    BY <1>1, <1>3 DEF CInv, IdStage
  <2>2. CASE id = IdOf(from)
    <3>1. \A i \in 0..(Size - 1) : IdOf(i) = id <=> i \in from..(from + 1 - 1)
      BY <1>1, <1>2, <2>2, InvFacts
    <3>2. from + 1 <= Size
      BY <1>1 DEF IdStage
    <3>3. NumberOfTypes = 1
      BY <1>1, <3>1, <3>2, RangeCounts
    <3> QED
      BY <1>3, <2>1, <2>2, <3>3
  <2>3. CASE id # IdOf(from)
    <3>1. \A i \in 0..(Size - 1) : IdOf(i) = id <=> i \in 0..(0 + 0 - 1)
      BY <1>2, <2>3
    <3>2. NumberOfTypes = 0
      BY <3>1, InvFacts, RangeCounts
    <3> QED
      BY <1>3, <2>3, <3>2 DEF Miss
  <2> QED
    BY <2>2, <2>3
<1> HIDE DEF r
<1> QED
  BY <1>1, <1>3, ReturnCInv

LEMMA SearchNoneCInv == ASSUME IInv, CInv, SearchNone PROVE CInv'
<1>1. IdStage(from, count, offset) /\ count = 0 /\ Return(Miss) /\ from \in Nat
  BY DEF SearchNone, IInv
<1>2. \A i \in 0..(Size - 1) : IdOf(i) = id <=> i \in 0..(0 + 0 - 1)
  BY <1>1, InvFacts DEF IdStage
<1>3. NumberOfTypes = 0
  BY <1>2, InvFacts, RangeCounts
<1> QED
  BY <1>1, <1>3, ReturnCInv DEF Miss

LEMMA StrongBinSearchCInv == ASSUME IInv, CInv, StrongBinSearch PROVE CInv'
<1>1. /\ IdStage(from, count, offset) /\ count > 1 /\ Strong
      /\ from \in Nat /\ count \in Nat
  BY DEF StrongBinSearch, Searching, IInv
<1>2. MidIdx \in 0..(Size - 1)
  BY <1>1, InvFacts DEF MidIdx, IdStage
<1>3. CASE id = IdOf(MidIdx) /\ Return(IF op = "Count" THEN 1 ELSE MidIdx)
  <2>1. ASSUME NEW i \in 0..(Size - 1), IdOf(i) = id PROVE i = MidIdx
    <3>1. /\ IdOf(i) = IdOf(MidIdx) /\ IdOf(i) \in Nat
          /\ \A a, b \in 0..(Size - 1) : a < b => IdOf(a) < IdOf(b)
      BY <1>1, <1>3, <2>1, InvFacts
    <3>2. i < MidIdx => IdOf(i) < IdOf(MidIdx)
      BY <1>2, <3>1
    <3>3. MidIdx < i => IdOf(MidIdx) < IdOf(i)
      BY <1>2, <3>1
    <3> QED
      BY <1>2, <3>1, <3>2, <3>3, InvFacts
  <2>2. \A i \in 0..(Size - 1) : IdOf(i) = id <=> i \in MidIdx..(MidIdx + 1 - 1)
    BY <1>2, <1>3, <2>1, InvFacts
  <2>3. NumberOfTypes = 1
    BY <1>2, <2>2, InvFacts, RangeCounts
  <2> QED
    BY <1>3, <2>3, ReturnCInv
<1>4. CASE Instantiate("id", from, MidIdx - from, offset)
  BY <1>4 DEF Instantiate, CInv, CountsTheTypes
<1>5. CASE Instantiate("id", MidIdx, count - (MidIdx - from), offset)
  BY <1>5 DEF Instantiate, CInv, CountsTheTypes
<1> QED
  BY <1>3, <1>4, <1>5 DEF StrongBinSearch

LEMMA WeakBinSearchCInv == ASSUME IInv, CInv, WeakBinSearch PROVE CInv'
<1> DEFINE start == MidRangeStartIdx
           n     == MidRangeCount
<1>1. /\ IdStage(from, count, offset) /\ count > 1 /\ ~Strong
      /\ how = "StaticBinSearch" /\ from \in Nat /\ count \in Nat
      /\ from + count <= Size
      /\ Border(from) /\ Border(from + count) /\ (from > 0 => count < from)
  BY DEF WeakBinSearch, Searching, IInv, IdStage
<1>2. /\ MidIdx \in 0..(Size - 1) /\ start \in Nat /\ n \in Nat
      /\ start <= MidIdx /\ MidIdx < start + n
      /\ start + n <= Size
      /\ \A k \in start..(start + n - 1) : IdOf(k) = IdOf(MidIdx)
      /\ Border(start) /\ Border(start + n)
  BY <1>1, MidRange, InvFacts
<1> HIDE DEF start, n
<1>3. ASSUME id = IdOf(MidIdx) PROVE NumberOfTypes = n
  <2>1. ASSUME NEW i \in 0..(Size - 1), IdOf(i) = id PROVE start <= i
    <3> SUFFICES ASSUME i < start PROVE FALSE
      BY <1>2, InvFacts
    <3>1. start # 0 /\ start # Size /\ start - 1 \in i..MidIdx
      BY <1>2, InvFacts
    <3>2. IdOf(start - 1) = IdOf(i)
      BY <1>2, <1>3, <2>1, <3>1, InvFacts, RunIsDense
    <3>3. IdOf(start) = IdOf(MidIdx)
      BY <1>2, InvFacts
    <3> QED
      BY <1>2, <1>3, <2>1, <3>1, <3>2, <3>3 DEF Border
  <2>2. ASSUME NEW i \in 0..(Size - 1), IdOf(i) = id PROVE i < start + n
    <3> SUFFICES ASSUME start + n <= i PROVE FALSE
      BY <1>2, InvFacts
    <3>1. /\ start + n # 0 /\ start + n # Size /\ start + n \in MidIdx..i
          /\ start + n - 1 \in start..(start + n - 1)
      BY <1>2, InvFacts
    <3>2. IdOf(start + n) = IdOf(MidIdx)
      BY <1>2, <1>3, <2>2, <3>1, InvFacts, RunIsDense
    <3>3. IdOf(start + n - 1) = IdOf(MidIdx)
      BY <1>2, <3>1
    <3> QED
      BY <1>2, <3>1, <3>2, <3>3 DEF Border
  <2>3. \A i \in 0..(Size - 1) : IdOf(i) = id <=> i \in start..(start + n - 1)
    BY <1>2, <1>3, <2>1, <2>2, InvFacts
  <2> QED
    BY <1>2, <2>3, RangeCounts
<1>4. CASE id = IdOf(MidIdx)
  <2>1. CASE op = "Count"
    <3>1. Return(n)
      BY <1>4, <2>1, <1>2, InvFacts DEF WeakBinSearch, n
    <3> QED
      BY <1>3, <1>4, <3>1, ReturnCInv
  <2>2. CASE op # "Count"
    <3>1. op = "Type"
      BY <2>2 DEF IInv
    <3> QED
      BY <2>2, <1>4, <1>2, <3>1, InvFacts
         DEF WeakBinSearch, Return, Instantiate, CInv, CountsTheTypes
  <2> QED
    BY <2>1, <2>2
<1>5. CASE id # IdOf(MidIdx)
  BY <1>5 DEF WeakBinSearch, Instantiate, CInv, CountsTheTypes
<1> QED
  BY <1>4, <1>5

(* The other steps search for a type.                                      *)
LEMMA OthersCInv ==
  ASSUME IInv, CInv,
         \/ OffsetBinSearch \/ OffsetSingle
         \/ StrongLinearSwitch \/ WeakLinearSwitch \/ OffsetLinearSwitch
         \/ DirectDispatch \/ BoundsDispatch
  PROVE  CInv'
<1>1. op = "Type"
  BY DEF OffsetBinSearch, OffsetSingle, StrongLinearSwitch, WeakLinearSwitch,
         OffsetLinearSwitch, DirectDispatch, BoundsDispatch, Searching, CInv, IInv
<1>2. op' = op
  BY DEF OffsetBinSearch, OffsetSingle, StrongLinearSwitch, WeakLinearSwitch,
         OffsetLinearSwitch, DirectDispatch, BoundsDispatch, Return, Instantiate
<1> QED
  BY <1>1, <1>2 DEF CInv, CountsTheTypes

LEMMA SearchMovesCInv ==
  ASSUME IInv, CInv, SearchMoves
  PROVE  CInv'
<1>1. CASE SearchStep
  BY <1>1, SearchSingleCInv, SearchNoneCInv, StrongBinSearchCInv,
     WeakBinSearchCInv, OthersCInv DEF SearchStep
<1>2. CASE Got
  BY <1>2 DEF Got, CInv, CountsTheTypes
<1>3. CASE \E way \in Ways, i \in Nat, k \in Nat : Start(way, "Type", i, k)
  BY <1>3 DEF Start, CInv, CountsTheTypes
<1>4. CASE \E i \in Nat : Start("StaticBinSearch", "Count", i, 0)
  BY <1>4 DEF Start, CInv, CountsTheTypes
<1> QED
  BY <1>1, <1>2, <1>3, <1>4 DEF SearchMoves

LEMMA CInvUnchanged == ASSUME CInv, UNCHANGED searchVars PROVE CInv'
BY DEF CInv, searchVars, CountsTheTypes, IdOf, Size

LEMMA SearchIsTyped == ASSUME IInv PROVE SearchTypeOK
BY TuplesAssumption DEF IInv, SearchTypeOK, IdStage, OffsetStage

LEMMA SearchKeepsIInv ==
  ASSUME \A t \in Tuples : Dispatchable(t)
  PROVE  SearchSpec => [](IInv /\ CInv)
<1>1. SearchInit => IInv /\ CInv
  <2>1. SearchInit => CInv
    BY DEF SearchInit, CInv, CountsTheTypes
  <2> QED
    BY <2>1, InitIInv
<1>2. ASSUME IInv /\ CInv, [SearchNext]_searchVars PROVE (IInv /\ CInv)'
  <2>1. Dispatchable(ids)
    BY <1>2 DEF IInv
  <2>2. CASE Call
    <3>1. SearchMoves
      BY <2>2, RequestsAssumption DEF Call, SearchMoves, Ways
    <3> QED
      BY <1>2, <2>1, <3>1, SearchMovesIInv, SearchMovesCInv
  <2>3. CASE SearchStep \/ Got
    BY <1>2, <2>1, <2>3, SearchMovesIInv, SearchMovesCInv DEF SearchMoves
  <2>4. CASE UNCHANGED searchVars
    BY <1>2, <2>4, IInvUnchanged, CInvUnchanged
  <2> QED
    BY <1>2, <2>2, <2>3, <2>4 DEF SearchNext
<1> QED
  BY <1>1, <1>2, PTL DEF SearchSpec

(* In tuples where no id but the first is shared by more than two types,   *)
(* and the first by no more than four, every way to dispatch finds the type*)
(* with the id and the index asked for, however many types there are.      *)
THEOREM TypeIsFound ==
  ASSUME \A t \in Tuples : Dispatchable(t)
  PROVE  SearchSpec => []FindsTheType
<1>1. IInv => FindsTheType
  BY DEF IInv
<1> QED
  BY <1>1, SearchKeepsIInv, PTL

(* In such tuples every range that is searched lies within the tuple: the  *)
(* number of its types is never one that has wrapped around.               *)
THEOREM SearchTypesCorrect ==
  ASSUME \A t \in Tuples : Dispatchable(t)
  PROVE  SearchSpec => []SearchTypeOK
<1>1. IInv => SearchTypeOK
  BY SearchIsTyped
<1> QED
  BY <1>1, SearchKeepsIInv, PTL

(* The binary search counts the types of an id: the number it returns is   *)
(* that of the types in the tuple which have the id.                       *)
THEOREM TypesAreCounted ==
  ASSUME \A t \in Tuples : Dispatchable(t)
  PROVE  SearchSpec => []CountsTheTypes
<1>1. CInv => CountsTheTypes
  BY DEF CInv
<1> QED
  BY <1>1, SearchKeepsIInv, PTL

-----------------------------------------------------------------------------
(* The types of a tuple, as in IsTheType and NoType.                       *)
TypeIn(t, i, m, k) ==
    /\ i \in 0..(Len(t) - 1) /\ t[i + 1] = m
    /\ k <= i /\ t[i - k + 1] = m
    /\ i = k \/ t[i - k] # m

NoneIn(t, m, k) == \A i \in 0..(Len(t) - 1) : ~TypeIn(t, i, m, k)

FitsIn(t, i, m, k) == IF i = NotFound THEN NoneIn(t, m, k) ELSE TypeIn(t, i, m, k)

LEMMA InTheTuple ==
  ASSUME ids \in Tuples
  PROVE  /\ \A m, k \in Nat : NoType(m, k) <=> NoneIn(ids, m, k)
         /\ \A i, m, k \in Nat : IsTheType(i, m, k) <=> TypeIn(ids, i, m, k)
<1>1. ASSUME NEW i \in Nat, NEW m \in Nat, NEW k \in Nat
      PROVE  IsTheType(i, m, k) <=> TypeIn(ids, i, m, k)
  <2>1. i - k - 1 + 1 = i - k
    BY <1>1
  <2> QED
    BY <1>1, <2>1 DEF IsTheType, TypeIn, IdOf, Size
<1>2. Size \in Nat /\ Size = Len(ids)
  BY SortedIds DEF Size
<1>3. ASSUME NEW m \in Nat, NEW k \in Nat
      PROVE  NoType(m, k) <=> NoneIn(ids, m, k)
  BY <1>1, <1>2, <1>3 DEF NoType, NoneIn
<1> QED
  BY <1>1, <1>3

(* A search for an id and an index has only one answer.                    *)
LEMMA OneTypeFits ==
  ASSUME ids \in Tuples, NEW m \in Nat, NEW k \in Nat,
         NEW i \in Int, NEW j \in Int, FitsIn(ids, i, m, k), FitsIn(ids, j, m, k)
  PROVE  i = j
<1>1. Size \in Nat /\ Size = Len(ids) /\ NotFound \notin Nat
  BY SortedIds DEF Size, NotFound
<1>2. ASSUME NEW x \in 0..(Size - 1), NEW y \in 0..(Size - 1), x < y,
             IsTheType(x, m, k), IsTheType(y, m, k)
      PROVE  FALSE
  <2>1. /\ x - k \in 0..(Size - 1) /\ y - k \in 0..(Size - 1)
        /\ y - k - 1 \in (x - k)..(y - k) /\ y # k
        /\ IdOf(x - k) = m /\ IdOf(y - k) = m
    BY <1>1, <1>2 DEF IsTheType
  <2>2. IdOf(y - k - 1) = m
    BY <2>1, RunIsDense
  <2> QED
    BY <1>2, <2>1, <2>2 DEF IsTheType
<1>3. CASE i = NotFound \/ j = NotFound
  BY <1>1, <1>3 DEF FitsIn, NoneIn, TypeIn
<1>4. CASE i # NotFound /\ j # NotFound
  <2>1. i \in 0..(Size - 1) /\ j \in 0..(Size - 1)
    BY <1>1, <1>4 DEF FitsIn, TypeIn
  <2>2. IsTheType(i, m, k) /\ IsTheType(j, m, k)
    BY <1>1, <1>4, <2>1, InTheTuple DEF FitsIn
  <2> QED
    BY <1>1, <1>2, <2>1, <2>2
<1> QED
  BY <1>3, <1>4

(* The search that has ended.                                              *)
LEMMA SearchAnswer ==
  ASSUME IInv, phase = "done", op = "Type"
  PROVE  result \in Int /\ FitsIn(ids, result, id, index)
<1>1. ids \in Tuples /\ id \in Nat /\ index \in Nat /\ result \in Int
      /\ Answers(result)
  BY DEF IInv, FindsTheType, Answers
<1>2. CASE result = NotFound
  BY <1>1, <1>2, InTheTuple DEF Answers, FitsIn
<1>3. CASE result # NotFound
  <2>1. IsTheType(result, id, index) /\ result \in Nat
    BY <1>1, <1>3, SortedIds DEF Answers, IsTheType
  <2> QED
    BY <1>1, <1>3, <2>1, InTheTuple DEF FitsIn
<1> QED
  BY <1>1, <1>2, <1>3

-----------------------------------------------------------------------------
(* What the steps of the search leave alone.                               *)
LEMMA StepOfSearch ==
  ASSUME IInv, SearchStep
  PROVE  /\ ids' = ids /\ op' = op /\ id' = id /\ index' = index
         /\ phase # "idle" /\ phase' # "idle"
BY DEF SearchStep, SearchSingle, SearchNone, StrongBinSearch, WeakBinSearch,
       OffsetBinSearch, OffsetSingle, StrongLinearSwitch, WeakLinearSwitch,
       OffsetLinearSwitch, DirectDispatch, BoundsDispatch, Searching, Return,
       Instantiate

LEMMA StartOfSearch ==
  ASSUME NEW way, NEW what, NEW i, NEW k, Start(way, what, i, k)
  PROVE  ids' = ids /\ op' = what /\ id' = i /\ index' = k /\ phase' # "idle"
BY DEF Start

LEMMA EndOfSearch == ASSUME Got PROVE ids' = ids /\ phase' = "idle"
BY DEF Got

-----------------------------------------------------------------------------
JobsType == [pc : {"none", "create", "cast", "read", "destroy", "release",
                   "handle"},
             ptr : Ptrs \cup {"none"}, id : Nat, idx : Nat,
             es : Failures \cup {"InvalidMsgId"}, reading : BOOLEAN]
MsgsType == [Ptrs -> [made : Int, id : Int, idx : Nat]]

(* Every message is of the type that its id and index stand for.           *)
MsgsFit ==
    \A p \in Ptrs : Held(p) =>
        msg[p].id \in Nat /\ FitsIn(ids, msg[p].made, msg[p].id, msg[p].idx)

(* The search that runs is the one the job waits for; a message is created *)
(* in an empty pointer, anything else is done to the message in it; and    *)
(* what the last try failed with is the failure of a type that exists.     *)
JobFits ==
    /\ job.pc = "none" => job = NoJob
    /\ job.pc # "none" => job.ptr \in Ptrs /\ answer = NoAnswer
    /\ job.pc = "create" =>
         /\ op = "Type" /\ phase # "idle" /\ id = job.id /\ index = job.idx
         /\ ~Held(job.ptr)
         /\ job.reading =>
              IF job.es = "InvalidMsgId" THEN job.idx = 0
              ELSE job.idx > 0 /\ ~NoneIn(ids, job.id, job.idx - 1)
    /\ job.pc \in {"cast", "read", "destroy"} =>
         /\ job.reading /\ Held(job.ptr) /\ msg[job.ptr].made # Generic
         /\ msg[job.ptr].id = job.id /\ msg[job.ptr].idx = job.idx
    /\ job.pc = "destroy" => job.es \in Failures
    /\ job.pc \in {"release", "handle"} => ~job.reading
    /\ job.pc = "read" => phase = "idle"
    /\ job.pc \in {"cast", "destroy", "release", "handle"} =>
         /\ op = "Type" /\ phase # "idle" /\ Held(job.ptr)
         /\ id = msg[job.ptr].id /\ index = msg[job.ptr].idx

PlaceFits == allocated => options.inPlace

(* AnswersTruthfully, of an answer a with the tuple t, the messages m and  *)
(* the options o.                                                          *)
Taken(a, m, o) == o.inPlace /\ \E p \in Ptrs \ {a.ptr} : m[p] # Empty

Told(a, t, m, o) ==
    /\ a.es = "Success" => m[a.ptr] # Empty
    /\ m[a.ptr] # Empty =>
         /\ m[a.ptr].id = a.id /\ m[a.ptr].idx = a.idx
         /\ IF m[a.ptr].made = Generic THEN o.generic ELSE a.es = "Success"
    /\ a.es = "MsgAllocFailure" =>
         m[a.ptr] = Empty /\ Taken(a, m, o) /\ ~NoneIn(t, a.id, a.idx)
    /\ a.es = "InvalidMsgId" => m[a.ptr] = Empty /\ NoneIn(t, a.id, 0)
    /\ a.es \in Failures /\ m[a.ptr] = Empty =>
         /\ NoneIn(t, a.id, a.idx) /\ a.idx > 0
         /\ ~NoneIn(t, a.id, a.idx - 1)
    /\ a.es # "MsgAllocFailure" /\ m[a.ptr] = Empty /\ o.generic => Taken(a, m, o)

AnswerFits ==
    answer # NoAnswer =>
        /\ phase = "idle"
        /\ answer.ptr \in Ptrs /\ answer.id \in Nat /\ answer.idx \in Nat
        /\ answer.es \in {"Success", "MsgAllocFailure", "InvalidMsgId"} \cup Failures
        /\ Told(answer, ids, msg, options)

FInv ==
    /\ options \in Options /\ msg \in MsgsType /\ allocated \in BOOLEAN
    /\ job \in JobsType
    /\ MsgsFit /\ JobFits /\ PlaceFits /\ AnswerFits
    /\ CastsAreRight /\ PlaceIsAccounted

LEMMA InitFInv == ASSUME Init PROVE FInv
<1>1. /\ options \in Options /\ msg = [p \in Ptrs |-> Empty] /\ allocated = FALSE
      /\ job = NoJob /\ answer = NoAnswer /\ cast = NoCast
  BY DEF Init, FactoryInit
<1>2. msg \in MsgsType /\ \A p \in Ptrs : ~Held(p)
  BY <1>1 DEF MsgsType, Empty, Generic, NotFound, Held
<1>3. job \in JobsType /\ JobFits
  BY <1>1 DEF JobsType, NoJob, Failures, JobFits
<1> QED
  BY <1>1, <1>2, <1>3 DEF FInv, MsgsFit, PlaceFits, AnswerFits, CastsAreRight,
     NoCast, PlaceIsAccounted

-----------------------------------------------------------------------------
(* What a function that runs can rely on, and what it leaves behind.       *)
LEMMA JobFacts ==
  ASSUME FInv, job.pc # "none"
  PROVE  /\ job.ptr \in Ptrs /\ job.id \in Nat /\ job.idx \in Nat
         /\ job.es \in Failures \cup {"InvalidMsgId"} /\ job.reading \in BOOLEAN
         /\ answer = NoAnswer /\ job # NoJob
BY DEF FInv, JobFits, JobsType, NoJob

LEMMA JobOver ==
  ASSUME job' = NoJob
  PROVE  JobFits' /\ job' \in JobsType
BY DEF JobFits, JobsType, NoJob, Failures

LEMMA MsgsKept ==
  ASSUME FInv, ids' = ids, msg' = msg, allocated' = allocated, options' = options
  PROVE  /\ MsgsFit' /\ PlaceFits' /\ PlaceIsAccounted'
         /\ options' \in Options /\ msg' \in MsgsType /\ allocated' \in BOOLEAN
<1>1. \A p : Held(p)' = Held(p)
  BY DEF Held
<1> QED
  BY <1>1 DEF FInv, MsgsFit, PlaceFits, PlaceIsAccounted

LEMMA NoAnswerFits == ASSUME answer' = NoAnswer PROVE AnswerFits'
BY DEF AnswerFits

(* Allocating in an empty pointer, where there is room.                    *)
LEMMA MsgAllocated ==
  ASSUME IInv, FInv, ids' = ids, options' = options, job.pc = "create", Room,
         NEW type \in Int, FitsIn(ids, type, job.id, job.idx), Allocate(type)
  PROVE  /\ MsgsFit' /\ PlaceFits' /\ PlaceIsAccounted'
         /\ options' \in Options /\ msg' \in MsgsType /\ allocated' \in BOOLEAN
         /\ msg'[job.ptr] # Empty
         /\ msg'[job.ptr] = [made |-> type, id |-> job.id, idx |-> job.idx]
         /\ \A p \in Ptrs : p # job.ptr => Held(p)' = Held(p)
<1>1. /\ job.ptr \in Ptrs /\ job.id \in Nat /\ job.idx \in Nat /\ ~Held(job.ptr)
      /\ msg \in MsgsType /\ allocated \in BOOLEAN /\ options \in Options
  BY JobFacts DEF FInv, JobFits
<1>2. /\ msg' \in MsgsType
      /\ msg'[job.ptr] = [made |-> type, id |-> job.id, idx |-> job.idx]
      /\ \A p \in Ptrs : p # job.ptr => msg'[p] = msg[p]
      /\ allocated' = (options.inPlace \/ allocated)
  BY <1>1 DEF Allocate, MsgsType
<1>3. options.inPlace \in BOOLEAN
  BY <1>1 DEF Options
<1>4. /\ \A p \in Ptrs : p # job.ptr => Held(p)' = Held(p)
      /\ msg'[job.ptr] # Empty
  BY <1>1, <1>2 DEF Held, Empty
<1>5. PICK q \in Ptrs : q = job.ptr /\ Held(q)'
  BY <1>1, <1>4 DEF Held
<1>6. MsgsFit'
  <2> SUFFICES ASSUME NEW p \in Ptrs, Held(p)'
               PROVE  /\ msg'[p].id \in Nat
                      /\ FitsIn(ids, msg'[p].made, msg'[p].id, msg'[p].idx)
    BY DEF MsgsFit
  <2>1. CASE p = job.ptr
    BY <1>1, <1>2, <2>1
  <2>2. CASE p # job.ptr
    BY <1>2, <1>4, <2>2 DEF FInv, MsgsFit
  <2> QED
    BY <2>1, <2>2
<1>7. ASSUME options.inPlace PROVE \A p \in Ptrs : ~Held(p)
  BY <1>7, <1>1 DEF FInv, PlaceIsAccounted, Room
<1>8. PlaceFits' /\ PlaceIsAccounted' /\ allocated' \in BOOLEAN
  BY <1>1, <1>2, <1>3, <1>4, <1>5, <1>7 DEF FInv, PlaceFits, PlaceIsAccounted
<1> QED
  BY <1>1, <1>2, <1>4, <1>5, <1>6, <1>8

(* Destroying the message of a pointer.                                    *)
LEMMA MsgFreed ==
  ASSUME IInv, FInv, ids' = ids, options' = options, NEW p \in Ptrs, Held(p), Free(p)
  PROVE  /\ MsgsFit' /\ PlaceFits' /\ PlaceIsAccounted'
         /\ options' \in Options /\ msg' \in MsgsType /\ allocated' \in BOOLEAN
         /\ ~Held(p)'
<1>1. msg \in MsgsType /\ allocated \in BOOLEAN /\ options \in Options
  BY DEF FInv
<1>2. /\ msg' \in MsgsType /\ msg'[p] = Empty
      /\ \A q \in Ptrs : q # p => msg'[q] = msg[q]
      /\ allocated' = FALSE
  BY <1>1 DEF Free, MsgsType, Empty, Generic, NotFound
<1>3. ~Held(p)' /\ \A q \in Ptrs : q # p => Held(q)' = Held(q)
  BY <1>2 DEF Held
<1>4. MsgsFit'
  <2> SUFFICES ASSUME NEW q \in Ptrs, Held(q)'
               PROVE  /\ msg'[q].id \in Nat
                      /\ FitsIn(ids, msg'[q].made, msg'[q].id, msg'[q].idx)
    BY DEF MsgsFit
  <2>1. q # p
    BY <1>3
  <2> QED
    BY <1>2, <1>3, <2>1 DEF FInv, MsgsFit
<1>5. PlaceFits' /\ PlaceIsAccounted'
  BY <1>2, <1>3 DEF FInv, PlaceFits, PlaceIsAccounted
<1> QED
  BY <1>1, <1>2, <1>3, <1>4, <1>5

-----------------------------------------------------------------------------
(* The steps.                                                              *)
LEMMA SearchFInv ==
  ASSUME IInv, FInv, SearchStep, UNCHANGED factoryVars
  PROVE  FInv'
<1>1. /\ options' = options /\ msg' = msg /\ allocated' = allocated /\ job' = job
      /\ answer' = answer /\ cast' = cast
  BY DEF factoryVars
<1>2. /\ ids' = ids /\ op' = op /\ id' = id /\ index' = index
      /\ phase # "idle" /\ phase' # "idle"
  BY StepOfSearch
<1>3. answer = NoAnswer /\ job.pc # "read"
  BY <1>2 DEF FInv, AnswerFits, JobFits
<1>4. Held(job.ptr)' = Held(job.ptr)
  BY <1>1 DEF Held
<1>5. JobFits'
  BY <1>1, <1>2, <1>3, <1>4 DEF FInv, JobFits
<1> QED
  BY <1>1, <1>2, <1>3, <1>5, MsgsKept, NoAnswerFits DEF FInv, CastsAreRight

LEMMA CallDirectlyFInv ==
  ASSUME IInv, FInv, CallDirectly
  PROVE  FInv'
<1>1. /\ options' = options /\ msg' = msg /\ allocated' = allocated /\ job' = job
      /\ answer' = answer /\ cast' = cast /\ job = NoJob /\ answer = NoAnswer
      /\ ids' = ids
  BY DEF CallDirectly, factoryVars, Call, Start, Got
<1> QED
  BY <1>1, MsgsKept, NoAnswerFits, JobOver DEF FInv, CastsAreRight

LEMMA CreateFInv ==
  ASSUME IInv, FInv, NEW p \in Ptrs, NEW i \in Nat, NEW k \in Nat,
         NEW reading \in BOOLEAN, Create(p, i, k, reading), reading => k = 0
  PROVE  FInv'
<1>1. /\ options' = options /\ msg' = msg /\ allocated' = allocated
      /\ answer' = NoAnswer /\ cast' = NoCast /\ ~Held(p)
      /\ ids' = ids /\ op' = "Type" /\ id' = i /\ index' = k /\ phase' # "idle"
      /\ job' = [pc |-> "create", ptr |-> p, id |-> i, idx |-> k,
                 es |-> "InvalidMsgId", reading |-> reading]
  BY StartOfSearch DEF Create, NoJob
<1>2. ~Held(p)'
  BY <1>1 DEF Held
<1>3. JobFits' /\ job' \in JobsType
  BY <1>1, <1>2 DEF JobFits, JobsType, Failures
<1>4. CastsAreRight'
  BY <1>1 DEF CastsAreRight, NoCast
<1> QED
  BY <1>1, <1>3, <1>4, MsgsKept, NoAnswerFits DEF FInv

(* The answer of a read that ends.                                         *)
LEMMA Finished ==
  ASSUME FInv, job.pc # "none", ids' = ids, phase' = "idle",
         NEW es \in {"Success", "MsgAllocFailure", "InvalidMsgId"} \cup Failures,
         Finish(es),
         job.reading =>
           Told([es |-> es, ptr |-> job.ptr, id |-> job.id, idx |-> job.idx],
                ids, msg', options')
  PROVE  AnswerFits' /\ JobFits' /\ job' \in JobsType
<1>1. job' = NoJob
  BY DEF Finish
<1>2. CASE ~job.reading
  <2>1. answer' = NoAnswer
    BY <1>2 DEF Finish
  <2> QED
    BY <1>1, <2>1, JobOver, NoAnswerFits
<1>3. CASE job.reading
  <2>1. answer' = [es |-> es, ptr |-> job.ptr, id |-> job.id, idx |-> job.idx]
    BY <1>3 DEF Finish
  <2>2. /\ answer'.es = es /\ answer'.ptr = job.ptr /\ answer'.id = job.id
        /\ answer'.idx = job.idx
    BY <2>1
  <2>3. Told(answer', ids', msg', options')
    BY <1>3, <2>1
  <2>4. AnswerFits'
    BY <2>2, <2>3, JobFacts DEF AnswerFits
  <2> QED
    BY <1>1, <2>4, JobOver
<1> QED
  BY <1>2, <1>3, JobFacts

(* The search for the type to create has ended.                            *)
LEMMA CreateFound ==
  ASSUME IInv, FInv, Found("create")
  PROVE  /\ result \in Int /\ FitsIn(ids, result, job.id, job.idx)
         /\ job.pc # "none" /\ job.ptr \in Ptrs /\ msg[job.ptr] = Empty
         /\ job.reading =>
              IF job.es = "InvalidMsgId" THEN job.idx = 0
              ELSE job.idx > 0 /\ ~NoneIn(ids, job.id, job.idx - 1)
<1>1. /\ job.pc = "create" /\ phase = "done" /\ op = "Type" /\ id = job.id
      /\ index = job.idx /\ ~Held(job.ptr)
  BY DEF Found, FInv, JobFits
<1> QED
  BY <1>1, SearchAnswer, JobFacts DEF FInv, JobFits, Held

LEMMA CreatedFInv == ASSUME IInv, FInv, Created PROVE FInv'
<1>1. /\ Found("create") /\ result # NotFound /\ Room /\ Allocate(result)
      /\ options' = options /\ cast' = cast /\ job.pc = "create"
  BY DEF Created, Found
<1>2. result \in Int /\ FitsIn(ids, result, job.id, job.idx)
  BY <1>1, CreateFound
<1>3. ids' = ids
  BY StartOfSearch, EndOfSearch DEF Created
<1>4. /\ MsgsFit' /\ PlaceFits' /\ PlaceIsAccounted'
      /\ options' \in Options /\ msg' \in MsgsType /\ allocated' \in BOOLEAN
      /\ msg'[job.ptr] # Empty
      /\ msg'[job.ptr] = [made |-> result, id |-> job.id, idx |-> job.idx]
  BY <1>1, <1>2, <1>3, MsgAllocated
<1>5. CastsAreRight'
  BY <1>1 DEF FInv, CastsAreRight
<1>6. CASE ~job.reading /\ Got /\ Finish("Success")
  <2>1. AnswerFits' /\ JobFits' /\ job' \in JobsType
    BY <1>1, <1>3, <1>6, EndOfSearch, Finished
  <2> QED
    BY <1>4, <1>5, <2>1 DEF FInv
<1>7. CASE job.reading /\ answer' = answer
  <2>1. answer' = NoAnswer /\ job \in JobsType
    BY <1>1, <1>7, JobFacts DEF FInv
  <2>2. CASE Got /\ job' = [job EXCEPT !.pc = "read"]
    <3>1. job' \in JobsType
      BY <2>1, <2>2 DEF JobsType
    <3>2. /\ job'.pc = "read" /\ job'.ptr = job.ptr /\ job'.id = job.id
          /\ job'.idx = job.idx /\ job'.reading = job.reading /\ phase' = "idle"
      BY <2>1, <2>2, EndOfSearch DEF JobsType
    <3>3. JobFits'
      BY <1>1, <1>4, <1>7, <2>1, <3>2, JobFacts DEF JobFits, Held, Generic
    <3> QED
      BY <1>4, <1>5, <2>1, <3>1, <3>3, NoAnswerFits DEF FInv
  <2>3. CASE /\ Start("StaticBinSearch", "Type", job.id, job.idx)
             /\ job' = [job EXCEPT !.pc = "cast"]
    <3>1. job' \in JobsType
      BY <2>1, <2>3 DEF JobsType
    <3>2. /\ job'.pc = "cast" /\ job'.ptr = job.ptr /\ job'.id = job.id
          /\ job'.idx = job.idx /\ job'.reading = job.reading /\ phase' # "idle"
          /\ op' = "Type" /\ id' = job.id /\ index' = job.idx
      BY <2>1, <2>3, StartOfSearch DEF JobsType
    <3>3. JobFits'
      BY <1>1, <1>4, <1>7, <2>1, <3>2, JobFacts DEF JobFits, Held, Generic
    <3> QED
      BY <1>4, <1>5, <2>1, <3>1, <3>3, NoAnswerFits DEF FInv
  <2> QED
    BY <1>7, <2>2, <2>3 DEF Created
<1> QED
  BY <1>6, <1>7 DEF Created

LEMMA NotAllocatedFInv == ASSUME IInv, FInv, NotAllocated PROVE FInv'
<1> DEFINE a == [es |-> "MsgAllocFailure", ptr |-> job.ptr, id |-> job.id,
                 idx |-> job.idx]
<1>1. /\ Found("create") /\ ~Room /\ Got /\ Finish("MsgAllocFailure")
      /\ options' = options /\ msg' = msg /\ allocated' = allocated /\ cast' = cast
      /\ result # NotFound
  BY DEF NotAllocated
<1>2. /\ job.pc # "none" /\ msg[job.ptr] = Empty /\ job.ptr \in Ptrs
      /\ job.id \in Nat /\ job.idx \in Nat
      /\ FitsIn(ids, result, job.id, job.idx) /\ result \in Int
  BY <1>1, CreateFound, JobFacts
<1>3. options.inPlace /\ \E p \in Ptrs : Held(p)
  BY <1>1 DEF Room, FInv, PlaceIsAccounted
<1>4. options'.inPlace /\ \E p \in Ptrs \ {job.ptr} : msg'[p] # Empty
  BY <1>1, <1>2, <1>3 DEF Held
<1>5. Taken(a, msg', options')
  BY <1>4 DEF Taken
<1>6. ~NoneIn(ids, job.id, job.idx)
  BY <1>1, <1>2 DEF FitsIn, NoneIn, TypeIn
<1>7. Told(a, ids, msg', options')
  BY <1>1, <1>2, <1>5, <1>6 DEF Told, Failures
<1>8. AnswerFits' /\ JobFits' /\ job' \in JobsType
  BY <1>1, <1>2, <1>7, EndOfSearch, Finished
<1>9. CastsAreRight' /\ ids' = ids
  BY <1>1, EndOfSearch DEF FInv, CastsAreRight
<1> QED
  BY <1>1, <1>8, <1>9, MsgsKept DEF FInv

(* The search has found no type to create.                                 *)
LEMMA CreateNotFound ==
  ASSUME IInv, FInv, Found("create"), result = NotFound, Got, cast' = cast
  PROVE  /\ FitsIn(ids, NotFound, job.id, job.idx) /\ NotFound \in Int
         /\ NoneIn(ids, job.id, job.idx)
         /\ job.pc = "create" /\ job.pc # "none" /\ msg[job.ptr] = Empty
         /\ job.id \in Nat /\ job.idx \in Nat /\ job.reading \in BOOLEAN
         /\ job.es \in Failures \cup {"InvalidMsgId"}
         /\ job.reading =>
              IF job.es = "InvalidMsgId" THEN job.idx = 0
              ELSE job.idx > 0 /\ ~NoneIn(ids, job.id, job.idx - 1)
         /\ ids' = ids /\ phase' = "idle" /\ CastsAreRight'
<1>1. job.pc = "create" /\ job.pc # "none"
  BY DEF Found
<1>2. FitsIn(ids, NotFound, job.id, job.idx) /\ NotFound \in Int
  BY CreateFound
<1>3. NoneIn(ids, job.id, job.idx)
  BY <1>2 DEF FitsIn
<1>4. ids' = ids /\ phase' = "idle" /\ CastsAreRight'
  BY EndOfSearch DEF FInv, CastsAreRight
<1> QED
  BY <1>1, <1>2, <1>3, <1>4, CreateFound, JobFacts

LEMMA NotCreatedFInv == ASSUME IInv, FInv, NotCreated PROVE FInv'
<1> DEFINE a == [es |-> job.es, ptr |-> job.ptr, id |-> job.id, idx |-> job.idx]
<1>1. /\ Found("create") /\ result = NotFound /\ Got /\ Finish(job.es)
      /\ ~(job.reading /\ options.generic /\ Room)
      /\ options' = options /\ msg' = msg /\ allocated' = allocated /\ cast' = cast
  BY DEF NotCreated
<1>2. ASSUME job.reading, options.generic PROVE Taken(a, msg', options')
  <2>1. options.inPlace /\ \E p \in Ptrs : Held(p)
    BY <1>1, <1>2 DEF Room, FInv, PlaceIsAccounted
  <2>2. \E p \in Ptrs \ {job.ptr} : msg'[p] # Empty
    BY <1>1, <2>1, CreateNotFound DEF Held
  <2> QED
    BY <1>1, <2>1, <2>2 DEF Taken
<1>3. job.reading => Told(a, ids, msg', options')
  BY <1>1, <1>2, CreateNotFound DEF Told, Failures
<1>4. AnswerFits' /\ JobFits' /\ job' \in JobsType
  <2>1. job.es \in {"Success", "MsgAllocFailure", "InvalidMsgId"} \cup Failures
    BY <1>1, CreateNotFound
  <2> QED
    BY <1>1, <1>3, <2>1, CreateNotFound, Finished
<1> QED
  BY <1>1, <1>4, CreateNotFound, MsgsKept DEF FInv

LEMMA CreateAndReadGenericMsgFInv ==
  ASSUME IInv, FInv, CreateAndReadGenericMsg
  PROVE  FInv'
<1>1. /\ Found("create") /\ result = NotFound /\ Got /\ Allocate(Generic)
      /\ job.reading /\ options.generic /\ Room
      /\ options' = options /\ cast' = cast
  BY DEF CreateAndReadGenericMsg
<1>2. PICK es \in {"Success"} \cup Failures : Finish(es)
  BY DEF CreateAndReadGenericMsg
<1> DEFINE a == [es |-> es, ptr |-> job.ptr, id |-> job.id, idx |-> job.idx]
<1>3. /\ MsgsFit' /\ PlaceFits' /\ PlaceIsAccounted'
      /\ options' \in Options /\ msg' \in MsgsType /\ allocated' \in BOOLEAN
      /\ msg'[job.ptr] # Empty
      /\ msg'[job.ptr] = [made |-> Generic, id |-> job.id, idx |-> job.idx]
  BY <1>1, CreateNotFound, MsgAllocated DEF Generic
<1>4. Told(a, ids, msg', options')
  BY <1>1, <1>2, <1>3 DEF Told, Failures
<1>5. AnswerFits' /\ JobFits' /\ job' \in JobsType
  BY <1>1, <1>2, <1>4, CreateNotFound, Finished
<1> QED
  BY <1>1, <1>3, <1>5, CreateNotFound DEF FInv

(* A search that was made for the message of the job finds its own type.   *)
LEMMA CastFits ==
  ASSUME IInv, FInv, phase = "done",
         job.pc \in {"cast", "destroy", "release", "handle"},
         cast' = [to |-> result, made |-> msg[job.ptr].made]
  PROVE  CastsAreRight'
<1>1. /\ op = "Type" /\ id = msg[job.ptr].id /\ index = msg[job.ptr].idx
      /\ Held(job.ptr) /\ job.ptr \in Ptrs
  BY JobFacts DEF FInv, JobFits
<1>2. /\ msg[job.ptr].made \in Int /\ id \in Nat /\ index \in Nat /\ ids \in Tuples
      /\ FitsIn(ids, msg[job.ptr].made, id, index)
  BY <1>1 DEF FInv, MsgsFit, MsgsType, IInv
<1>3. result \in Int /\ FitsIn(ids, result, id, index)
  BY <1>1, SearchAnswer
<1>4. result = msg[job.ptr].made
  BY <1>2, <1>3, OneTypeFits
<1> QED
  BY <1>4 DEF CastsAreRight

LEMMA CastToReadFInv == ASSUME IInv, FInv, CastToRead PROVE FInv'
<1>1. /\ job.pc = "cast" /\ phase = "done" /\ Got
      /\ cast' = [to |-> result, made |-> msg[job.ptr].made]
      /\ job' = [job EXCEPT !.pc = "read"] /\ job \in JobsType
      /\ options' = options /\ msg' = msg /\ allocated' = allocated
      /\ answer' = answer
  BY DEF CastToRead, Found, FInv
<1>2. /\ answer' = NoAnswer /\ ids' = ids /\ phase' = "idle"
      /\ job.ptr \in Ptrs
  BY <1>1, JobFacts, EndOfSearch
<1>3. job' \in JobsType
  BY <1>1 DEF JobsType
<1>4. /\ job'.pc = "read" /\ job'.ptr = job.ptr /\ job'.id = job.id
      /\ job'.idx = job.idx /\ job'.reading = job.reading
  BY <1>1 DEF JobsType
<1>5. JobFits'
  BY <1>1, <1>2, <1>4 DEF FInv, JobFits, Held
<1> QED
  BY <1>1, <1>2, <1>3, <1>5, CastFits, MsgsKept, NoAnswerFits DEF FInv

LEMMA ReadSucceedsFInv == ASSUME IInv, FInv, ReadSucceeds PROVE FInv'
<1>1. /\ job.pc = "read" /\ Finish("Success") /\ options' = options /\ msg' = msg
      /\ allocated' = allocated /\ cast' = cast /\ ids' = ids /\ phase' = phase
  BY DEF ReadSucceeds, searchVars
<1>2. /\ phase' = "idle" /\ msg'[job.ptr] # Empty /\ msg'[job.ptr].made # Generic
      /\ msg'[job.ptr].id = job.id /\ msg'[job.ptr].idx = job.idx
  BY <1>1 DEF FInv, JobFits, Held
<1> DEFINE a == [es |-> "Success", ptr |-> job.ptr, id |-> job.id, idx |-> job.idx]
<1>3. AnswerFits' /\ JobFits' /\ job' \in JobsType
  <2>1. Told(a, ids, msg', options')
    BY <1>2 DEF Told, Failures
  <2>2. job.pc # "none"
    BY <1>1
  <2> QED
    BY <1>1, <1>2, <2>1, <2>2, Finished
<1> QED
  BY <1>1, <1>3, MsgsKept DEF FInv, CastsAreRight

(* The next type is tried once this one has failed and is destroyed.       *)
LEMMA TriesNext ==
  ASSUME IInv, FInv, job.pc \in {"read", "destroy"}, ids' = ids,
         Start(options.create, "Type", job.id, job.idx + 1),
         NEW es \in Failures, answer' = NoAnswer, msg'[job.ptr] = Empty,
         job' = [job EXCEPT !.pc = "create", !.idx = job.idx + 1, !.es = es]
  PROVE  JobFits' /\ job' \in JobsType
<1>1. /\ job \in JobsType /\ job.ptr \in Ptrs /\ job.id \in Nat /\ job.idx \in Nat
      /\ Held(job.ptr) /\ msg[job.ptr].made # Generic
      /\ msg[job.ptr].id = job.id /\ msg[job.ptr].idx = job.idx
  BY JobFacts DEF FInv, JobFits
<1>2. job' \in JobsType
  <2>1. job.idx + 1 \in Nat /\ es \in Failures \cup {"InvalidMsgId"}
    BY <1>1
  <2> QED
    BY <1>1, <2>1 DEF JobsType
<1>3. /\ job'.pc = "create" /\ job'.ptr = job.ptr /\ job'.id = job.id
      /\ job'.idx = job.idx + 1 /\ job'.es = es
  BY <1>1 DEF JobsType
<1>4. ~NoneIn(ids, job.id, job.idx)
  BY <1>1 DEF FInv, MsgsFit, FitsIn, Generic, NoneIn, TypeIn
<1>5. /\ op' = "Type" /\ phase' # "idle" /\ id' = job.id /\ index' = job.idx + 1
  BY StartOfSearch
<1>6. es # "InvalidMsgId" /\ job.idx + 1 > 0 /\ job.idx + 1 - 1 = job.idx
  BY <1>1 DEF Failures
<1>7. JobFits'
  BY <1>1, <1>3, <1>4, <1>5, <1>6 DEF JobFits, Held
<1> QED
  BY <1>2, <1>7

LEMMA ReadFailsFInv == ASSUME IInv, FInv, ReadFails PROVE FInv'
<1>1. /\ job.pc = "read" /\ options' = options /\ answer' = answer /\ cast' = cast
  BY DEF ReadFails
<1>2. PICK es \in Failures :
        IF options.virtual
        THEN /\ Free(job.ptr)
             /\ Start(options.create, "Type", job.id, job.idx + 1)
             /\ job' = [job EXCEPT !.pc = "create", !.idx = @ + 1, !.es = es]
        ELSE /\ Start("StaticBinSearch", "Type", job.id, job.idx)
             /\ job' = [job EXCEPT !.pc = "destroy", !.es = es]
             /\ msg' = msg /\ allocated' = allocated
  BY DEF ReadFails, Failures
<1>3. /\ answer' = NoAnswer /\ job.ptr \in Ptrs /\ Held(job.ptr) /\ job \in JobsType
      /\ job.reading /\ msg[job.ptr].made # Generic
      /\ msg[job.ptr].id = job.id /\ msg[job.ptr].idx = job.idx
  BY <1>1, JobFacts DEF FInv, JobFits
<1>4. ids' = ids /\ CastsAreRight'
  BY <1>1, <1>2, StartOfSearch DEF FInv, CastsAreRight
<1>5. CASE options.virtual
  <2>1. job' = [job EXCEPT !.pc = "create", !.idx = job.idx + 1, !.es = es]
    BY <1>2, <1>3, <1>5
  <2>2. /\ MsgsFit' /\ PlaceFits' /\ PlaceIsAccounted'
        /\ options' \in Options /\ msg' \in MsgsType /\ allocated' \in BOOLEAN
    BY <1>1, <1>2, <1>3, <1>4, <1>5, MsgFreed
  <2>3. msg'[job.ptr] = Empty
    BY <1>2, <1>3, <1>5 DEF Free, FInv, MsgsType
  <2>4. JobFits' /\ job' \in JobsType
    BY <1>1, <1>2, <1>3, <1>4, <1>5, <2>1, <2>3, TriesNext
  <2> QED
    BY <1>3, <1>4, <2>2, <2>4, NoAnswerFits DEF FInv
<1>6. CASE ~options.virtual
  <2>1. job' \in JobsType
    BY <1>2, <1>3, <1>6 DEF JobsType
  <2>2. /\ job'.pc = "destroy" /\ job'.ptr = job.ptr /\ job'.id = job.id
        /\ job'.idx = job.idx /\ job'.reading = job.reading /\ job'.es = es
        /\ msg' = msg
    BY <1>2, <1>3, <1>6 DEF JobsType
  <2>3. op' = "Type" /\ id' = job.id /\ index' = job.idx /\ phase' # "idle"
    BY <1>2, <1>6, StartOfSearch
  <2>4. JobFits'
    BY <1>3, <2>2, <2>3 DEF JobFits, Held
  <2> QED
    BY <1>1, <1>2, <1>3, <1>4, <1>6, <2>1, <2>4, MsgsKept, NoAnswerFits DEF FInv
<1> QED
  BY <1>5, <1>6

LEMMA DestroyedUnreadFInv == ASSUME IInv, FInv, DestroyedUnread PROVE FInv'
<1>1. /\ job.pc = "destroy" /\ phase = "done" /\ Free(job.ptr)
      /\ cast' = [to |-> result, made |-> msg[job.ptr].made]
      /\ Start(options.create, "Type", job.id, job.idx + 1)
      /\ job' = [job EXCEPT !.pc = "create", !.idx = @ + 1]
      /\ options' = options /\ answer' = answer
  BY DEF DestroyedUnread, Found
<1>2. /\ answer' = NoAnswer /\ job.ptr \in Ptrs /\ Held(job.ptr) /\ job \in JobsType
      /\ job.es \in Failures
  BY <1>1, JobFacts DEF FInv, JobFits
<1>3. job' = [job EXCEPT !.pc = "create", !.idx = job.idx + 1, !.es = job.es]
  BY <1>1, <1>2 DEF JobsType
<1>4. ids' = ids /\ CastsAreRight'
  BY <1>1, StartOfSearch, CastFits
<1>5. /\ MsgsFit' /\ PlaceFits' /\ PlaceIsAccounted'
      /\ options' \in Options /\ msg' \in MsgsType /\ allocated' \in BOOLEAN
  BY <1>1, <1>2, <1>4, MsgFreed
<1>6. msg'[job.ptr] = Empty
  BY <1>1, <1>2 DEF Free, FInv, MsgsType
<1>7. JobFits' /\ job' \in JobsType
  BY <1>1, <1>2, <1>3, <1>4, <1>6, TriesNext
<1> QED
  BY <1>2, <1>4, <1>5, <1>7, NoAnswerFits DEF FInv

LEMMA ReleaseFInv ==
  ASSUME IInv, FInv, NEW p \in Ptrs, Release(p)
  PROVE  FInv'
<1>1. /\ job = NoJob /\ Held(p) /\ answer' = NoAnswer /\ cast' = NoCast
      /\ options' = options
  BY DEF Release
<1>2. CastsAreRight'
  BY <1>1 DEF CastsAreRight, NoCast
<1>3. CASE options.virtual
  <2>1. Free(p) /\ ids' = ids /\ job' = NoJob
    BY <1>1, <1>3 DEF Release, searchVars
  <2> QED
    BY <1>1, <1>2, <2>1, MsgFreed, NoAnswerFits, JobOver DEF FInv
<1>4. CASE ~options.virtual
  <2>1. /\ Start("StaticBinSearch", "Type", msg[p].id, msg[p].idx)
        /\ job' = [pc |-> "release", ptr |-> p, id |-> 0, idx |-> 0,
                   es |-> "InvalidMsgId", reading |-> FALSE]
        /\ msg' = msg /\ allocated' = allocated
    BY <1>4 DEF Release, NoJob
  <2>2. JobFits' /\ job' \in JobsType
    BY <1>1, <2>1, StartOfSearch DEF JobFits, JobsType, Failures, Held
  <2> QED
    BY <1>1, <1>2, <2>1, <2>2, StartOfSearch, MsgsKept, NoAnswerFits DEF FInv
<1> QED
  BY <1>3, <1>4

LEMMA ReleasedFInv == ASSUME IInv, FInv, Released PROVE FInv'
<1>1. /\ job.pc = "release" /\ phase = "done" /\ Free(job.ptr) /\ Got
      /\ cast' = [to |-> result, made |-> msg[job.ptr].made]
      /\ job' = NoJob /\ options' = options /\ ids' = ids
  BY EndOfSearch DEF Released, Found, Finish
<1>2. job.ptr \in Ptrs /\ Held(job.ptr) /\ ~job.reading
  BY <1>1, JobFacts DEF FInv, JobFits
<1>3. answer' = NoAnswer
  BY <1>2 DEF Released, Finish
<1> QED
  BY <1>1, <1>2, <1>3, MsgFreed, CastFits, JobOver, NoAnswerFits DEF FInv

LEMMA HandleFInv ==
  ASSUME IInv, FInv, NEW p \in Ptrs, Handle(p)
  PROVE  FInv'
<1>1. /\ job = NoJob /\ Held(p) /\ answer' = NoAnswer /\ cast' = NoCast
      /\ options' = options /\ msg' = msg /\ allocated' = allocated
      /\ job' = [pc |-> "handle", ptr |-> p, id |-> 0, idx |-> 0,
                 es |-> "InvalidMsgId", reading |-> FALSE]
      /\ ids' = ids /\ op' = "Type" /\ id' = msg[p].id /\ index' = msg[p].idx
      /\ phase' # "idle"
  BY StartOfSearch DEF Handle, NoJob
<1>2. JobFits' /\ job' \in JobsType
  BY <1>1 DEF JobFits, JobsType, Failures, Held
<1>3. CastsAreRight'
  BY <1>1 DEF CastsAreRight, NoCast
<1> QED
  BY <1>1, <1>2, <1>3, MsgsKept, NoAnswerFits DEF FInv

LEMMA HandledFInv == ASSUME IInv, FInv, Handled PROVE FInv'
<1>1. /\ job.pc = "handle" /\ phase = "done" /\ Got
      /\ cast' = [to |-> result, made |-> msg[job.ptr].made]
      /\ job' = NoJob /\ ids' = ids
      /\ options' = options /\ msg' = msg /\ allocated' = allocated
  BY EndOfSearch DEF Handled, Found, Finish
<1>2. ~job.reading
  BY <1>1 DEF FInv, JobFits
<1>3. answer' = NoAnswer
  BY <1>2 DEF Handled, Finish
<1> QED
  BY <1>1, <1>3, MsgsKept, CastFits, JobOver, NoAnswerFits DEF FInv

-----------------------------------------------------------------------------
(* Every step of the factory is one of the search, or leaves it alone.     *)
LEMMA NextSearches ==
  ASSUME FInv, [Next]_vars
  PROVE  SearchMoves \/ UNCHANGED searchVars
<1>1. options.create \in Ways
  BY DEF FInv, Options, Ways
<1>2. CASE CallDirectly
  BY <1>2, RequestsAssumption DEF CallDirectly, Call, SearchMoves, Ways
<1>3. CASE UserCalls
  <2>1. ASSUME NEW p \in Ptrs, NEW i \in MsgIds, NEW k \in Nat,
               NEW reading \in BOOLEAN, Create(p, i, k, reading)
        PROVE  SearchMoves
    BY <1>1, <2>1, RequestsAssumption DEF Create, SearchMoves
  <2>2. ASSUME NEW p \in Ptrs, Release(p) \/ Handle(p)
        PROVE  SearchMoves \/ UNCHANGED searchVars
    <3>1. msg[p].id \in Nat /\ msg[p].idx \in Nat
      BY <2>2 DEF Release, Handle, FInv, MsgsFit, MsgsType
    <3> QED
      BY <2>2, <3>1 DEF Release, Handle, SearchMoves, Ways
  <2>3. \A k \in 0..MaxOffset : k \in Nat
    BY RequestsAssumption
  <2> QED
    BY <1>3, <2>1, <2>2, <2>3 DEF UserCalls
<1>4. CASE FactoryStep
  <2>1. CASE Created \/ ReadFails \/ DestroyedUnread
    <3>1. job.id \in Nat /\ job.idx \in Nat /\ job.idx + 1 \in Nat
      BY DEF FInv, JobsType
    <3>2. CASE Created
      BY <3>1, <3>2 DEF Created, SearchMoves, Ways
    <3>3. CASE ReadFails
      BY <1>1, <3>1, <3>3 DEF ReadFails, SearchMoves, Ways
    <3>4. CASE DestroyedUnread
      BY <1>1, <3>1, <3>4 DEF DestroyedUnread, SearchMoves
    <3> QED
      BY <2>1, <3>2, <3>3, <3>4
  <2>2. CASE \/ SearchStep \/ NotAllocated \/ NotCreated \/ CreateAndReadGenericMsg
             \/ CastToRead \/ Released \/ Handled
    BY <2>2 DEF NotAllocated, NotCreated, CreateAndReadGenericMsg, CastToRead,
       Released, Handled, SearchMoves
  <2>3. CASE ReadSucceeds
    BY <2>3 DEF ReadSucceeds
  <2> QED
    BY <1>4, <2>1, <2>2, <2>3 DEF FactoryStep
<1>5. CASE UNCHANGED vars
  BY <1>5 DEF vars
<1> QED
  BY <1>2, <1>3, <1>4, <1>5 DEF Next

LEMMA NextFInv == ASSUME IInv, FInv, [Next]_vars PROVE FInv'
<1>1. CASE CallDirectly
  BY <1>1, CallDirectlyFInv
<1>2. CASE UserCalls
  <2>1. \A i \in MsgIds : i \in Nat
    BY RequestsAssumption
  <2>2. \A k \in 0..MaxOffset : k \in Nat
    BY RequestsAssumption
  <2> QED
    BY <1>2, <2>1, <2>2, CreateFInv, ReleaseFInv, HandleFInv DEF UserCalls
<1>3. CASE FactoryStep
  BY <1>3, SearchFInv, CreatedFInv, NotAllocatedFInv, NotCreatedFInv,
     CreateAndReadGenericMsgFInv,
     CastToReadFInv, ReadSucceedsFInv, ReadFailsFInv, DestroyedUnreadFInv,
     ReleasedFInv, HandledFInv DEF FactoryStep
<1>4. CASE UNCHANGED vars
  <2>1. /\ ids' = ids /\ op' = op /\ id' = id /\ index' = index /\ phase' = phase
        /\ options' = options /\ msg' = msg /\ allocated' = allocated
        /\ job' = job /\ answer' = answer /\ cast' = cast
    BY <1>4 DEF vars, searchVars, factoryVars
  <2>2. JobFits'
    BY <2>1 DEF FInv, JobFits, Held
  <2>3. AnswerFits'
    BY <2>1 DEF FInv, AnswerFits, Held
  <2> QED
    BY <2>1, <2>2, <2>3, MsgsKept DEF FInv, CastsAreRight
<1> QED
  BY <1>1, <1>2, <1>3, <1>4 DEF Next

(* The assumption of all theorems below: what the binary search can handle.*)
LEMMA FactoryKeepsFInv ==
  ASSUME \A t \in Tuples : Dispatchable(t)
  PROVE  Spec => [](IInv /\ CInv /\ FInv)
<1>1. Init => IInv /\ CInv /\ FInv
  <2>1. SearchInit => CInv
    BY DEF SearchInit, CInv, CountsTheTypes
  <2> QED
    BY <2>1, InitIInv, InitFInv DEF Init
<1>2. ASSUME IInv /\ CInv /\ FInv, [Next]_vars PROVE (IInv /\ CInv /\ FInv)'
  <2>1. Dispatchable(ids)
    BY <1>2 DEF IInv
  <2>2. IInv'
    BY <1>2, <2>1, NextSearches, SearchMovesIInv, IInvUnchanged
  <2>3. CInv'
    BY <1>2, NextSearches, SearchMovesCInv, CInvUnchanged
  <2> QED
    BY <1>2, <2>2, <2>3, NextFInv
<1> QED
  BY <1>1, <1>2, PTL DEF Spec

(* In a program that creates, reads, handles and destroys messages, too,   *)
(* every search finds the type that has the id and the index.              *)
THEOREM FactoryFindsTypes ==
  ASSUME \A t \in Tuples : Dispatchable(t)
  PROVE  Spec => []FindsTheType
<1>1. IInv => FindsTheType
  BY DEF IInv
<1> QED
  BY <1>1, FactoryKeepsFInv, PTL

(* In such a program, too, the types of an id are counted right.           *)
THEOREM FactoryCountsTypes ==
  ASSUME \A t \in Tuples : Dispatchable(t)
  PROVE  Spec => []CountsTheTypes
<1>1. CInv => CountsTheTypes
  BY DEF CInv
<1> QED
  BY <1>1, FactoryKeepsFInv, PTL

(* A message is read, handled and destroyed as what it was created as.     *)
THEOREM CastsCorrect ==
  ASSUME \A t \in Tuples : Dispatchable(t)
  PROVE  Spec => []CastsAreRight
<1>1. FInv => CastsAreRight
  BY DEF FInv
<1> QED
  BY <1>1, FactoryKeepsFInv, PTL

(* The storage for one message is taken exactly while a message is in it.  *)
THEOREM PlaceAccounted ==
  ASSUME \A t \in Tuples : Dispatchable(t)
  PROVE  Spec => []PlaceIsAccounted
<1>1. FInv => PlaceIsAccounted
  BY DEF FInv
<1> QED
  BY <1>1, FactoryKeepsFInv, PTL

(* What read tells is true, whatever the next layers say of the messages,  *)
(* a GenericMessage included: there is a message on success; one that there*)
(* is is the one of the id and index told; and an error comes when nothing *)
(* was left to try, or another message takes the place.                    *)
THEOREM AnswersTrue ==
  ASSUME \A t \in Tuples : Dispatchable(t)
  PROVE  Spec => []AnswersTruthfully
<1>1. ASSUME IInv, FInv PROVE AnswersTruthfully
  <2> DEFINE p == answer.ptr
             taken == options.inPlace /\ \E q \in Ptrs \ {p} : Held(q)
  <2> SUFFICES ASSUME answer # NoAnswer PROVE AnswersTruthfully
    BY DEF AnswersTruthfully
  <2>1. /\ answer.ptr \in Ptrs /\ answer.id \in Nat /\ answer.idx \in Nat
        /\ Told(answer, ids, msg, options)
    BY <1>1 DEF FInv, AnswerFits
  <2>2. /\ NoType(answer.id, answer.idx) <=> NoneIn(ids, answer.id, answer.idx)
        /\ NoType(answer.id, 0) <=> NoneIn(ids, answer.id, 0)
        /\ answer.idx > 0 =>
             (NoType(answer.id, answer.idx - 1) <=> NoneIn(ids, answer.id, answer.idx - 1))
    <3>1. answer.idx > 0 => answer.idx - 1 \in Nat
      BY <2>1
    <3> QED
      BY <1>1, <2>1, <3>1, InTheTuple DEF IInv
  <2>3. taken <=> Taken(answer, msg, options)
    BY DEF Taken, Held
  <2>4. ASSUME Held(p)
        PROVE  /\ msg[p].id = answer.id /\ msg[p].idx = answer.idx
               /\ IF msg[p].made = Generic
                  THEN options.generic /\ NoType(answer.id, answer.idx)
                  ELSE /\ answer.es = "Success"
                       /\ IsTheType(msg[p].made, answer.id, answer.idx)
    <3>1. /\ msg[p].id = answer.id /\ msg[p].idx = answer.idx
          /\ IF msg[p].made = Generic THEN options.generic ELSE answer.es = "Success"
      BY <2>1, <2>4 DEF Told, Held
    <3>2. FitsIn(ids, msg[p].made, answer.id, answer.idx) /\ msg[p].made \in Int
      BY <1>1, <2>1, <2>4, <3>1 DEF FInv, MsgsFit, MsgsType
    <3>3. CASE msg[p].made = Generic
      BY <2>2, <3>1, <3>2, <3>3 DEF FitsIn, Generic
    <3>4. CASE msg[p].made # Generic
      <4>1. TypeIn(ids, msg[p].made, answer.id, answer.idx)
        BY <3>2, <3>4 DEF FitsIn, Generic
      <4>2. msg[p].made \in Nat /\ ids \in Tuples
        BY <1>1, <3>2, <4>1, SortedIds DEF TypeIn, IInv
      <4> QED
        BY <2>1, <3>1, <3>4, <4>1, <4>2, InTheTuple
    <3> QED
      BY <3>3, <3>4
  <2>5. /\ answer.es = "Success" => Held(p)
        /\ answer.es = "MsgAllocFailure" =>
             ~Held(p) /\ taken /\ ~NoType(answer.id, answer.idx)
        /\ answer.es = "InvalidMsgId" => ~Held(p) /\ NoType(answer.id, 0)
        /\ answer.es \in Failures /\ ~Held(p) =>
             NoType(answer.id, answer.idx) /\ ~NoType(answer.id, answer.idx - 1)
        /\ answer.es # "MsgAllocFailure" /\ ~Held(p) /\ options.generic => taken
    BY <2>1, <2>2, <2>3 DEF Told, Held
  <2> QED
    BY <2>4, <2>5 DEF AnswersTruthfully
<1> QED
  BY <1>1, FactoryKeepsFInv, PTL

(* The state is of its type, and no search leaves the tuple.               *)
THEOREM FactoryTypesCorrect ==
  ASSUME \A t \in Tuples : Dispatchable(t)
  PROVE  Spec => []TypeOK
<1>1. ASSUME IInv, FInv PROVE TypeOK
  <2>1. SearchTypeOK
    BY <1>1, SearchIsTyped
  <2>2. answer.es \in Failures \cup {"none", "Success", "InvalidMsgId",
                                    "MsgAllocFailure"}
    BY <1>1 DEF FInv, AnswerFits, NoAnswer
  <2> QED
    BY <1>1, <2>1, <2>2 DEF TypeOK, FInv, JobsType, MsgsType
<1> QED
  BY <1>1, FactoryKeepsFInv, PTL

=============================================================================
