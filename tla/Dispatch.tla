------------------------------ MODULE Dispatch ------------------------------
(* How the comms library finds, among the message types of a protocol, the *)
(* one that a numeric id and an index stand for: the static binary search, *)
(* the linear switch and the polymorphic tables. The first two are         *)
(* recursions over template parameters: one instantiation calls the next   *)
(* with a range of the tuple of types. Every call is a step here.          *)
(* Sources: comms/include/comms/details/DispatchMsg*Helper.h, dispatch.h.  *)
EXTENDS Integers, Sequences, FiniteSets

CONSTANTS
    Tuples,     \* the tuples of message types: the id of each of them
    MsgIds,     \* the ids that may be asked for
    MaxOffset,  \* bound: the largest index that is asked for
    SizeLimit   \* std::size_t counts modulo this

WeakSorted(t)   == \A i \in 1..(Len(t) - 1) : t[i] <= t[i + 1]
StrongSorted(t) == \A i \in 1..(Len(t) - 1) : t[i] < t[i + 1]

(* The library asserts at compile time that the types are sorted.          *)
ASSUME TuplesAssumption ==
    /\ Tuples \subseteq Seq(Nat)
    /\ SizeLimit \in Nat
    /\ \A t \in Tuples : WeakSorted(t) /\ Len(t) < SizeLimit
ASSUME RequestsAssumption == MsgIds \subseteq Nat /\ MaxOffset \in Nat

VARIABLES
    ids,        \* the tuple in use
    how,        \* the way to dispatch
    op,         \* "Type": find a type; "Count": count the types of an id
    id, index,  \* what is asked for
    offset,     \* the index within the range that is searched
    phase,      \* "idle"; "id": searching the id; "offset": among those of
                \* the id; "done"
    from, count,\* TFrom and TCount of the running instantiation
    result      \* the index of the type in the tuple, or the count

searchVars == <<ids, how, op, id, index, offset, phase, from, count,
                result>>

(* The interface itself is handled, or false is returned: no type found.   *)
NotFound == -1

Ways == {"StaticBinSearch", "LinearSwitch", "Polymorphic"}

Size    == Len(ids)
IdOf(i) == ids[i + 1]       \* tuple_element<i>::doGetId()
Strong  == StrongSorted(ids)

(* Unsigned subtraction.                                                   *)
Unsigned(n) == IF n < 0 THEN n + SizeLimit ELSE n

Lesser(m, n)  == IF m < n THEN m ELSE n
Greater(m, n) == IF m < n THEN n ELSE m

-----------------------------------------------------------------------------
(* Where the types with the id of type i begin, and how many of them there *)
(* are from i on.                                                          *)
WeakStartIdx(i) ==
    CHOOSE j \in 0..i : /\ \A k \in j..i : IdOf(k) = IdOf(i)
                        /\ j = 0 \/ IdOf(j - 1) # IdOf(i)

WeakCount(i) ==
    CHOOSE n \in 1..(Size - i) :
        /\ \A k \in i..(i + n - 1) : IdOf(k) = IdOf(i)
        /\ i + n = Size \/ IdOf(i + n) # IdOf(i)

MidIdx           == from + count \div 2
MidRangeStartIdx == Greater(WeakStartIdx(MidIdx), from)
(* Mutant: the subtraction is not unsigned.                                *)
MidRangeCount_Signed ==
    LET clipped == Greater(0, count - MidRangeStartIdx)
    IN  Lesser(clipped, WeakCount(MidRangeStartIdx))

MidRangeCount    == Lesser(Unsigned(count - MidRangeStartIdx),
                           WeakCount(MidRangeStartIdx))

-----------------------------------------------------------------------------
(* The steps of a search.                                                  *)
Return(r) ==
    /\ phase' = "done"
    /\ result' = r
    /\ UNCHANGED <<ids, how, op, id, index, offset, from, count>>

Miss == IF op = "Count" THEN 0 ELSE NotFound

(* The next instantiation.                                                 *)
Instantiate(stage, first, n, rest) ==
    /\ phase' = stage
    /\ from' = first
    /\ count' = n
    /\ offset' = rest
    /\ UNCHANGED <<ids, how, op, id, index, result>>

(* An index other than 0 makes no sense where every type has an id of its  *)
(* own; an index is no matter when the types are counted.                  *)
Start(way, what, i, k) ==
    /\ how' = way /\ op' = what /\ id' = i /\ index' = k /\ offset' = k
    /\ from' = 0 /\ count' = Size /\ result' = NotFound
    /\ phase' = IF Strong /\ k # 0 THEN "done" ELSE "id"
    /\ UNCHANGED ids

Searching(way) == phase = "id" /\ how = way

(* One type is left, or none.                                              *)
SearchSingle ==
    /\ phase = "id" /\ how # "Polymorphic" /\ count = 1
    /\ Return(IF offset # 0 \/ id # IdOf(from) THEN Miss
              ELSE IF op = "Count" THEN 1 ELSE from)

SearchNone ==
    /\ phase = "id" /\ how # "Polymorphic" /\ count = 0
    /\ Return(Miss)

(* Mutant: the middle one stays in the lower half.                         *)
StrongBinSearch_KeepsMiddle ==
    /\ Searching("StaticBinSearch") /\ Strong /\ count > 1
    /\ \/ /\ id < IdOf(MidIdx)
          /\ Instantiate("id", from, MidIdx - from + 1, offset)
       \/ /\ IdOf(MidIdx) < id
          /\ Instantiate("id", MidIdx, count - (MidIdx - from), offset)
       \/ /\ id = IdOf(MidIdx)
          /\ Return(IF op = "Count" THEN 1 ELSE MidIdx)

(* Mutant: the upper half is taken to have all the types of the whole.     *)
StrongBinSearch_WholeCount ==
    /\ Searching("StaticBinSearch") /\ Strong /\ count > 1
    /\ \/ /\ id < IdOf(MidIdx)
          /\ Instantiate("id", from, MidIdx - from, offset)
       \/ /\ IdOf(MidIdx) < id
          /\ Instantiate("id", MidIdx, count, offset)
       \/ /\ id = IdOf(MidIdx)
          /\ Return(IF op = "Count" THEN 1 ELSE MidIdx)

(* The static binary search, every id having one type: the middle one stays*)
(* in the upper half.                                                      *)
StrongBinSearch ==
    /\ Searching("StaticBinSearch") /\ Strong /\ count > 1
    /\ \/ /\ id < IdOf(MidIdx)
          /\ Instantiate("id", from, MidIdx - from, offset)
       \/ /\ IdOf(MidIdx) < id
          /\ Instantiate("id", MidIdx, count - (MidIdx - from), offset)
       \/ /\ id = IdOf(MidIdx)
          /\ Return(IF op = "Count" THEN 1 ELSE MidIdx)

(* Ids shared by several types: the whole range of the middle one is left  *)
(* out, or it is the one to choose from.                                   *)
WeakBinSearch ==
    /\ Searching("StaticBinSearch") /\ ~Strong /\ count > 1
    /\ \/ /\ id < IdOf(MidIdx)
          /\ Instantiate("id", from, MidRangeStartIdx - from, offset)
       \/ /\ IdOf(MidIdx) < id
          /\ LET next == MidRangeStartIdx + MidRangeCount
             IN  Instantiate("id", next, count - (next - from), offset)
       \/ /\ id = IdOf(MidIdx)
          /\ IF op = "Count" THEN Return(MidRangeCount)
             ELSE IF MidRangeCount <= offset THEN Return(NotFound)
             ELSE Instantiate("offset", MidRangeStartIdx, MidRangeCount, offset)

(* Mutant: the middle one is looked for in the lower half.                 *)
OffsetBinSearch_LowerMiddle ==
    /\ phase = "offset" /\ how = "StaticBinSearch" /\ count > 1
    /\ LET mid == count \div 2
       IN  \/ /\ offset <= mid
              /\ Instantiate("offset", from, mid, offset)
           \/ /\ mid < offset
              /\ Instantiate("offset", mid, count - (mid - from), offset - mid)

(* Among the types of one id: the upper half begins at the middle's offset,*)
(* which is its index only where the range itself begins at 0.             *)
OffsetBinSearch ==
    /\ phase = "offset" /\ how = "StaticBinSearch" /\ count > 1
    /\ LET mid == count \div 2
       IN  \/ /\ offset < mid
              /\ Instantiate("offset", from, mid, offset)
           \/ /\ mid < offset
              /\ Instantiate("offset", mid, count - (mid - from), offset - mid)
           \/ /\ mid = offset
              /\ Return(MidIdx)

OffsetSingle ==
    /\ phase = "offset" /\ count = 1
    /\ Return(IF offset # 0 THEN NotFound ELSE from)

(* The linear switch: one id after the other, then one type after the other*)
StrongLinearSwitch ==
    /\ Searching("LinearSwitch") /\ Strong /\ count > 1
    /\ \/ id = IdOf(from) /\ Return(from)
       \/ id # IdOf(from) /\ Instantiate("id", from + 1, count - 1, offset)

WeakLinearSwitch ==
    /\ Searching("LinearSwitch") /\ ~Strong /\ count > 1
    /\ \/ /\ id = IdOf(from)
          /\ Instantiate("offset", from, WeakCount(from), offset)
       \/ /\ id # IdOf(from)
          /\ Instantiate("id", from + WeakCount(from),
                         count - WeakCount(from), offset)

OffsetLinearSwitch ==
    /\ phase = "offset" /\ how = "LinearSwitch" /\ count > 1
    /\ \/ offset = 0 /\ Return(from)
       \/ offset # 0 /\ Instantiate("offset", from + 1, count - 1, offset - 1)

(* The polymorphic tables. With ids of their own, and not much larger than *)
(* the number of types, the id is the index in a table that has an entry   *)
(* for each of them; the tuple is empty, or its last id is the largest one.*)
DirectSuitable ==
    Size > 0 => (IdOf(Size - 1) <= Size + 10 \/ IdOf(Size - 1) <= (Size * 11) \div 10)

DirectDispatch ==
    /\ Searching("Polymorphic") /\ Strong /\ DirectSuitable
    /\ LET registered == { i \in 0..(Size - 1) : IdOf(i) = id }
       IN  Return(IF registered = {} THEN NotFound
                  ELSE CHOOSE i \in registered : TRUE)

(* Otherwise the table is as long as the tuple, std::lower_bound finds the *)
(* first type of the id and std::upper_bound the first one behind them.    *)
LowerBound == CHOOSE i \in 0..Size :
                 /\ \A k \in 0..(i - 1) : IdOf(k) < id
                 /\ \A k \in i..(Size - 1) : IdOf(k) >= id
UpperBound == CHOOSE i \in 0..Size :
                 /\ \A k \in 0..(i - 1) : IdOf(k) <= id
                 /\ \A k \in i..(Size - 1) : IdOf(k) > id

BoundsDispatch ==
    /\ Searching("Polymorphic") /\ ~(Strong /\ DirectSuitable)
    /\ Return(IF \/ LowerBound = Size \/ IdOf(LowerBound) # id
                 \/ ~Strong /\ UpperBound - LowerBound <= offset
              THEN NotFound ELSE LowerBound + offset)

-----------------------------------------------------------------------------
SearchStep ==
    \/ SearchSingle \/ SearchNone
    \/ StrongBinSearch \/ WeakBinSearch \/ OffsetBinSearch \/ OffsetSingle
    \/ StrongLinearSwitch \/ WeakLinearSwitch \/ OffsetLinearSwitch
    \/ DirectDispatch \/ BoundsDispatch

(* Somebody calls a function of dispatch.h.                                *)
Call ==
    /\ phase = "idle"
    /\ \E i \in MsgIds :
         \/ \E way \in Ways, k \in 0..MaxOffset : Start(way, "Type", i, k)
         \/ Start("StaticBinSearch", "Count", i, 0)

SearchInit ==
    /\ ids \in Tuples
    /\ how = "StaticBinSearch" /\ op = "Type"
    /\ id = 0 /\ index = 0 /\ offset = 0
    /\ phase = "idle" /\ from = 0 /\ count = 0 /\ result = NotFound

(* The caller has got the result.                                          *)
Got ==
    /\ phase = "done"
    /\ how' = "StaticBinSearch" /\ op' = "Type"
    /\ id' = 0 /\ index' = 0 /\ offset' = 0
    /\ phase' = "idle" /\ from' = 0 /\ count' = 0 /\ result' = NotFound
    /\ UNCHANGED ids

SearchNext == Call \/ SearchStep \/ Got

SearchSpec == SearchInit /\ [][SearchNext]_searchVars /\ WF_searchVars(SearchStep)

-----------------------------------------------------------------------------
(* Among the types: an instantiation is given a range of the tuple, of     *)
(* which the unsigned arithmetic never leaves an end (tuple_element of an  *)
(* index beyond the tuple does not compile).                               *)
SearchTypeOK ==
    /\ ids \in Seq(Nat)
    /\ how \in Ways /\ op \in {"Type", "Count"}
    /\ id \in Nat /\ offset \in Nat
    /\ phase \in {"idle", "id", "offset", "done"}
    /\ from \in Nat /\ count \in Nat
    /\ phase \in {"id", "offset"} => from + count <= Size
    /\ result \in Int

(* Type number i of the tuple is the one with the given index k among      *)
(* those that have the id m.                                               *)
IsTheType(i, m, k) ==
    /\ i \in 0..(Size - 1) /\ IdOf(i) = m
    /\ k <= i /\ IdOf(i - k) = m
    /\ i = k \/ IdOf(i - k - 1) # m

NoType(m, k) == \A i \in 0..(Size - 1) : ~IsTheType(i, m, k)

(* Whatever the way to dispatch, the type found is the one with the id and *)
(* the index asked for, and none is found only when there is none (the     *)
(* parameters id and index of the functions of dispatch.h).                *)
FindsTheType ==
    phase = "done" /\ op = "Type" =>
        IF result = NotFound THEN NoType(id, index)
        ELSE IsTheType(result, id, index)

(* dispatchTypeCount returns the number of the types that have the id.     *)
CountsTheTypes ==
    phase = "done" /\ op = "Count" =>
        result = Cardinality({ i \in 0..(Size - 1) : IdOf(i) = id })

(* Every search comes to an end: no instantiation calls itself for ever.   *)
SearchEnds == phase \in {"id", "offset"} ~> phase = "done"

(* The tuples the binary search can handle: no more than two types share   *)
(* an id, but for the first id, which up to four types may share.          *)
Dispatchable(t) ==
    \A i \in 1..(Len(t) - 2) :
        t[i] = t[i + 2] => i <= 2 /\ t[1] = t[i]
=============================================================================
