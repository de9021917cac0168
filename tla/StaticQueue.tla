---------------------------- MODULE StaticQueue ----------------------------
(* comms::util::StaticQueue, comms/include/comms/util/StaticQueue.h: a     *)
(* queue that never allocates. Its elements live in an array of raw cells  *)
(* used as a ring: the object at logical index i is in the cell startIdx_  *)
(* + i, counted modulo the capacity.                                       *)
(*                                                                         *)
(* A cell is modelled with the lifetime of what it holds. Constructing     *)
(* into a cell that holds an object, and assigning to, moving from or      *)
(* destroying one that holds none, are undefined behaviour: they leave the *)
(* cell Broken, and an invariant says that none ever is. A moved object is *)
(* alive but holds nothing one may rely upon.                              *)
(*                                                                         *)
(* Linearised iterators are pointers into the array, modelled as the index *)
(* of a cell; Iterators count elements, modelled as a logical index.       *)
EXTENDS Integers, SequencesExt

CONSTANTS
    Queues,         \* the queues in use
    Capacity,       \* the size of each one's array
    Values,         \* the elements
    Default,        \* a default constructed element
    Raw,            \* no object lives in the cell
    Moved,          \* an object that was moved from
    Broken,         \* what undefined behaviour leaves behind
    Programs        \* which queues a program uses, and which calls on
                    \* positions besides those on either end

ASSUME CapacityAssumption == Capacity \in [Queues -> Nat \ {0}]
ASSUME DefaultAssumption  == Default \in Values
ASSUME LifetimeAssumption ==
    /\ {Raw, Moved, Broken} \cap Values = {}
    /\ Raw # Moved /\ Raw # Broken /\ Moved # Broken

ASSUME ProgramsAssumption ==
    \A p \in Programs :
        /\ p.queues \subseteq Queues
        /\ p.calls \subseteq {"insert", "erase", "eraseIterator", "compare"}

VARIABLES
    program,        \* the program that is running
    queues,         \* the members of each queue
    returned        \* what the latest call on a position, or comparison, gave

vars == <<program, queues, returned>>

Alive == Values \cup {Moved}

NothingReturned == [call |-> "none"]

-----------------------------------------------------------------------------
(* Objects coming to life, changing and dying in the cells of an array.    *)
Construct(cells, i, v) ==
    [cells EXCEPT ![i] = IF @ = Raw /\ v \in Alive THEN v ELSE Broken]

AssignTo(cells, i, v) ==
    [cells EXCEPT ![i] = IF @ \in Alive /\ v \in Alive THEN v ELSE Broken]

Destroy(cells, S) ==
    [i \in DOMAIN cells |->
        IF i \notin S THEN cells[i]
        ELSE IF cells[i] \in Alive THEN Raw ELSE Broken]

MoveOut(cells, i) ==
    [cells EXCEPT ![i] = IF @ \in Alive THEN Moved ELSE Broken]

(* Moves n objects from the cells from, from + step, ... to those that     *)
(* begin at to, in this order: the first ones are move constructed, the    *)
(* others are assigned to objects that are there.                          *)
MoveRun(cells, from, to, step, n, constructed) ==
    LET run[i \in 0..n] ==
            IF i = 0 THEN cells
            ELSE LET src == from + step * (i - 1)
                     dst == to + step * (i - 1)
                     c   == run[i - 1]
                 IN  IF i <= constructed
                     THEN Construct(MoveOut(c, src), dst, c[src])
                     ELSE AssignTo(MoveOut(c, src), dst, c[src])
    IN  run[n]

Lesser(m, n) == IF m < n THEN m ELSE n

-----------------------------------------------------------------------------
(* The ring.                                                               *)
IsEmpty(r) == r.count = 0
IsFull(r)  == r.count = r.capacity

(* elementAtIndex: subtracts the capacity as often as needed, which for an *)
(* index below the capacity is once at most.                               *)
CellAt(r, index) ==
    LET rawIdx == r.startIdx + index
    IN  IF r.capacity <= rawIdx THEN rawIdx - r.capacity ELSE rawIdx

Linearised(r) == IsEmpty(r) \/ r.startIdx + r.count <= r.capacity

(* The two contiguous ranges: first cell, and the one past the last.       *)
ArrayOne(r) == <<r.startIdx, Lesser(r.startIdx + r.count, r.capacity)>>
ArrayTwo(r) == IF Linearised(r)
               THEN <<ArrayOne(r)[2], ArrayOne(r)[2]>>
               ELSE <<0, r.startIdx + r.count - r.capacity>>

InRange(pos, range) == range[1] <= pos /\ pos < range[2]
SizeOf(range) == range[2] - range[1]

(* The elements, the front first.                                          *)
Contents(r) == [i \in 1..r.count |-> r.cells[CellAt(r, i - 1)]]

(* Mutant: the wrap of a cell before the start is off by one.              *)
IndexOf_OffByOne(r, cell) ==
    LET idx == IF cell < r.startIdx
               THEN r.capacity - r.startIdx + cell + 1
               ELSE cell - r.startIdx
    IN  IF r.count <= idx THEN -1 ELSE idx

(* indexOf, for an element that lives in the given cell.                   *)
IndexOf(r, cell) ==
    LET idx == IF cell < r.startIdx
               THEN r.capacity - r.startIdx + cell
               ELSE cell - r.startIdx
    IN  IF r.count <= idx THEN -1 ELSE idx

(* The logical index of the element a linearised iterator points to: the   *)
(* number of elements for the end of the last range, -1 for no element.    *)
Designated(r, pos) ==
    IF InRange(pos, ArrayOne(r)) \/ InRange(pos, ArrayTwo(r))
    THEN IndexOf(r, pos)
    ELSE IF pos = ArrayTwo(r)[2] THEN r.count ELSE -1

-----------------------------------------------------------------------------
(* Pushing and popping.                                                    *)
PushBackNotFull(r, v) ==
    [r EXCEPT !.cells = Construct(@, CellAt(r, r.count), v),
              !.count = @ + 1]

PushFrontNotFull(r, v) ==
    [r EXCEPT !.cells = Construct(@, CellAt(r, r.capacity - 1), v),
              !.startIdx = IF @ = 0 THEN r.capacity - 1 ELSE @ - 1,
              !.count = @ + 1]

(* Mutant: the start is not wrapped when it reaches the end of the array.  *)
PopFront_NoWrap(r) ==
    IF IsEmpty(r) THEN r
    ELSE [r EXCEPT !.cells = Destroy(@, {CellAt(r, 0)}),
                   !.count = @ - 1,
                   !.startIdx = IF r.count = 1 THEN 0 ELSE @ + 1]

PopFront(r) ==
    IF IsEmpty(r) THEN r
    ELSE [r EXCEPT !.cells = Destroy(@, {CellAt(r, 0)}),
                   !.count = @ - 1,
                   !.startIdx = IF r.capacity <= @ + 1 \/ r.count = 1
                                THEN 0 ELSE @ + 1]

PopBack(r) ==
    IF IsEmpty(r) THEN r
    ELSE [r EXCEPT !.cells = Destroy(@, {CellAt(r, r.count - 1)}),
                   !.count = @ - 1]

PopFronts(r, n) ==
    LET popped[i \in 0..n] == IF i = 0 THEN r ELSE PopFront(popped[i - 1])
    IN  popped[n]

PopBacks(r, n) ==
    LET popped[i \in 0..n] == IF i = 0 THEN r ELSE PopBack(popped[i - 1])
    IN  popped[n]

PushBacks(r, seq) ==
    LET pushed[i \in 0..Len(seq)] ==
            IF i = 0 THEN r ELSE PushBackNotFull(pushed[i - 1], seq[i])
    IN  pushed[Len(seq)]

Resized(r, newSize) ==
    IF r.count <= newSize
    THEN PushBacks(r, [i \in 1..(newSize - r.count) |-> Default])
    ELSE PopBacks(r, r.count - newSize)

-----------------------------------------------------------------------------
(* linearise: bringing the elements of a wrapped ring into one range.      *)

(* Moves the range of n elements from the cell from onwards to the cells   *)
(* from to onwards, which lie before it in the direction of step: they are *)
(* raw as far as the range itself, and the cells left over become raw.     *)
MoveRange(cells, from, n, to, step) ==
    LET moved == MoveRun(cells, from, to, step, n,
                         Lesser(n, step * (from - to)))
    IN  Destroy(moved, { from + step * i : i \in
                            { j \in 0..(n - 1) :
                                0 <= step * (from + step * j - to) - n } })

(* lineariseByMove: the first range of n1 elements goes behind the second  *)
(* of n2, into the gap raw cells between them and on, and the second one   *)
(* behind the first. The ranges are followed forwards or, by reverse       *)
(* iterators, backwards.                                                   *)
LineariseByMove(cells, first, n1, second, n2, step, gap) ==
    LET behind == second + step * n2
        onward == behind + step * n1
        end    == onward + step * n2
        space  == step * (first - onward)
        one    == MoveRun(cells, first, behind, step, n1, Lesser(n1, gap))
        two    == MoveRun(one, second, onward, step, n2,
                          IF 0 < space THEN Lesser(space, n2) ELSE 0)
    IN  Destroy(two,
            { first + step * i : i \in
                { j \in 0..(n1 - 1) : 0 <= step * (first + step * j - end) } }
            \cup { second + step * i : i \in 0..(n2 - 1) })

LineariseByMoveOneTwo(r) ==
    LET one == ArrayOne(r)
        two == ArrayTwo(r)
    IN  [r EXCEPT !.cells = LineariseByMove(@, one[1], SizeOf(one), two[1],
                                SizeOf(two), 1, r.capacity - r.count),
                  !.startIdx = SizeOf(two)]

LineariseByMoveTwoOne(r) ==
    LET one == ArrayOne(r)
        two == ArrayTwo(r)
    IN  [r EXCEPT !.cells = LineariseByMove(@, two[2] - 1, SizeOf(two),
                                one[2] - 1, SizeOf(one), -1,
                                r.capacity - r.count),
                  !.startIdx = r.capacity - SizeOf(one) - r.count]

(* Mutant: every cell of the range is left alive.                          *)
ToTheEnd_NoDestroy(r) ==
    [r EXCEPT !.cells = MoveRun(@, r.count - 1, r.capacity - 1, -1, r.count,
                                Lesser(r.count, r.capacity - r.count)),
              !.startIdx = r.capacity - r.count]

(* The elements, which begin at cell 0, go to the end of the array.        *)
ToTheEnd(r) ==
    [r EXCEPT !.cells = MoveRange(@, r.count - 1, r.count,
                                  r.capacity - 1, -1),
              !.startIdx = r.capacity - r.count]

(* Mutant: the rest is not moved to make room for what was popped.         *)
LineariseByPopOne_NoMove(r) ==
    LET n      == SizeOf(ArrayOne(r))
        emptied == PopFronts(r, n)
        back[i \in 0..n] ==
            IF i = 0 THEN emptied
            ELSE PushFrontNotFull(back[i - 1], Contents(r)[n - i + 1])
    IN  back[n]

(* The recursion pops the whole first range; on the way back, element by   *)
(* element, the rest is moved to the end once and each is pushed again.    *)
LineariseByPopOne(r) ==
    LET n      == SizeOf(ArrayOne(r))
        emptied == PopFronts(r, n)
        back[i \in 0..n] ==
            IF i = 0 THEN emptied
            ELSE LET inner == back[i - 1]
                     rest  == IF inner.startIdx = 0
                              THEN ToTheEnd(inner) ELSE inner
                 IN  PushFrontNotFull(rest, Contents(r)[n - i + 1])
    IN  back[n]

(* Mutant: the elements popped last are pushed back last.                  *)
LineariseByPopTwo_WrongOrder(r) ==
    LET n      == SizeOf(ArrayTwo(r))
        emptied == PopBacks(r, n)
        rest   == [emptied EXCEPT
                      !.cells = MoveRange(@, emptied.startIdx,
                                          emptied.count, 0, 1),
                      !.startIdx = 0]
    IN  PushBacks(rest, Reverse(SubSeq(Contents(r), r.count - n + 1, r.count)))

(* The recursion pops the whole second range; the rest is moved to the     *)
(* beginning of the array and the popped ones are pushed again.            *)
LineariseByPopTwo(r) ==
    LET n      == SizeOf(ArrayTwo(r))
        emptied == PopBacks(r, n)
        rest   == IF emptied.startIdx = 0 THEN emptied
                  ELSE [emptied EXCEPT
                            !.cells = MoveRange(@, emptied.startIdx,
                                                emptied.count, 0, 1),
                            !.startIdx = 0]
    IN  PushBacks(rest, SubSeq(Contents(r), r.count - n + 1, r.count))

Linearise(r) ==
    LET one  == SizeOf(ArrayOne(r))
        two  == SizeOf(ArrayTwo(r))
        room == r.capacity - r.count
    IN  CASE Linearised(r)       -> r
          [] ~Linearised(r) /\ two <= room -> LineariseByMoveOneTwo(r)
          [] ~Linearised(r) /\ room < two /\ one <= room ->
                 LineariseByMoveTwoOne(r)
          [] ~Linearised(r) /\ room < two /\ room < one ->
                 IF one < two THEN LineariseByPopOne(r)
                 ELSE LineariseByPopTwo(r)

-----------------------------------------------------------------------------
(* Inserting, erasing, comparing.                                          *)

(* insertNotFull: the new ring and the iterator it returns. Inserting into *)
(* the first range assigns to the position itself although the elements    *)
(* before it have moved by one.                                            *)
InsertNotFull(r, pos, v) ==
    LET one == ArrayOne(r)
        two == ArrayTwo(r)
    IN  IF pos = one[1]
        THEN LET new == PushFrontNotFull(r, v)
             IN  <<new, ArrayOne(new)[1]>>
        ELSE IF pos = two[2]
        THEN LET new == PushBackNotFull(r, v)
             IN  <<new, ArrayTwo(new)[2] - 1>>
        ELSE IF InRange(pos, one)
        THEN LET front == CellAt(r, 0)
                 new   == PushFrontNotFull(
                             [r EXCEPT !.cells = MoveOut(@, front)],
                             r.cells[front])
                 shift == MoveRun(new.cells, one[1] + 1, one[1], 1,
                                  pos - one[1] - 1, 0)
             IN  <<[new EXCEPT !.cells = AssignTo(shift, pos, v)], pos>>
        ELSE LET back  == CellAt(r, r.count - 1)
                 new   == PushBackNotFull(
                             [r EXCEPT !.cells = MoveOut(@, back)],
                             r.cells[back])
                 shift == MoveRun(new.cells, two[2] - 2, two[2] - 1, -1,
                                  two[2] - 1 - pos, 0)
             IN  <<[new EXCEPT !.cells = AssignTo(shift, pos, v)], pos>>

(* The ring without the element in the cell pos: in the first range the    *)
(* elements before it move, in the second those behind it.                 *)
Erased(r, pos) ==
    LET one == ArrayOne(r)
        two == ArrayTwo(r)
    IN  IF InRange(pos, one)
        THEN PopFront([r EXCEPT !.cells =
                MoveRun(@, pos - 1, pos, -1, pos - one[1], 0)])
        ELSE PopBack([r EXCEPT !.cells =
                MoveRun(@, pos + 1, pos, 1, two[2] - pos - 1, 0)])

(* What erase(LinearisedIterator) returns.                                 *)
ErasePosition(r, pos) ==
    LET new == Erased(r, pos)
    IN  IF InRange(pos, ArrayOne(r))
        THEN IF InRange(pos, ArrayOne(new)) THEN pos + 1 ELSE ArrayOne(new)[1]
        ELSE IF ~Linearised(new) THEN pos ELSE ArrayOne(new)[2]

(* What erase(Iterator) returns for the element at a logical index.        *)
EraseIndex(r, index) ==
    LET pos == CellAt(r, index)
        new == Erased(r, pos)
    IN  IF InRange(pos, ArrayOne(r))
        THEN IF InRange(pos, ArrayOne(new)) THEN index + 1 ELSE 0
        ELSE IF ~Linearised(new) THEN index ELSE new.count

(* The cells operator== compares, in order: self's first range against     *)
(* other's, as far as both go; what is left of self's first range, which   *)
(* is taken to be the longer one, against other's second range; and self's *)
(* second range against what follows there.                                *)
Compared(r, o) ==
    LET first == Lesser(SizeOf(ArrayOne(r)), SizeOf(ArrayOne(o)))
        left  == SizeOf(ArrayOne(r)) - first
        second == ArrayTwo(o)[1]
    IN  [i \in 1..first |->
            <<ArrayOne(r)[1] + i - 1, ArrayOne(o)[1] + i - 1>>]
        \o [i \in 1..left |-> <<ArrayOne(r)[1] + first + i - 1, second + i - 1>>]
        \o [i \in 1..SizeOf(ArrayTwo(r)) |->
                <<ArrayTwo(r)[1] + i - 1, second + left + i - 1>>]

(* The answers operator== can give: reading a cell that is raw, moved from *)
(* or beyond the array yields anything.                                    *)
EqualAnswers(r, o) ==
    LET pairs    == Compared(r, o)
        Read(q, i) == IF i \in DOMAIN q.cells THEN q.cells[i] ELSE Raw
        Self(k)  == Read(r, pairs[k][1])
        Other(k) == Read(o, pairs[k][2])
        Known(k) == Self(k) \in Values /\ Other(k) \in Values
        Same(k)  == Known(k) => Self(k) = Other(k)
        Differ   == { k \in DOMAIN pairs : ~Same(k) }
    IN  IF r.count # o.count THEN {FALSE}
        ELSE (IF Differ = {} THEN {TRUE} ELSE {FALSE})
             \cup { FALSE : k \in { j \in DOMAIN pairs : ~Known(j) } }

-----------------------------------------------------------------------------
EmptyQueue(q) == [cells    |-> [i \in 0..(Capacity[q] - 1) |-> Raw],
                  capacity |-> Capacity[q],
                  startIdx |-> 0,
                  count    |-> 0]

Init ==
    /\ program \in Programs
    /\ queues = [q \in Queues |-> EmptyQueue(q)]
    /\ returned = NothingReturned

Change(q, r) == queues' = [queues EXCEPT ![q] = r]

(* Pushing is for queues that are not full.                                *)
PushBack(q) ==
    /\ ~IsFull(queues[q])
    /\ \E v \in Values : Change(q, PushBackNotFull(queues[q], v))
    /\ returned' = NothingReturned

PushFront(q) ==
    /\ ~IsFull(queues[q])
    /\ \E v \in Values : Change(q, PushFrontNotFull(queues[q], v))
    /\ returned' = NothingReturned

(* popFront, popFront(count) and clear.                                    *)
PopFrontCount(q) ==
    /\ \E n \in 1..queues[q].count : Change(q, PopFronts(queues[q], n))
    /\ returned' = NothingReturned

PopBackCount(q) ==
    /\ \E n \in 1..queues[q].count : Change(q, PopBacks(queues[q], n))
    /\ returned' = NothingReturned

Resize(q) ==
    /\ \E newSize \in 0..Capacity[q] : Change(q, Resized(queues[q], newSize))
    /\ returned' = NothingReturned

LineariseQueue(q) ==
    /\ Change(q, Linearise(queues[q]))
    /\ returned' = [call |-> "linearise", queue |-> q]

(* insert, at a position in either range or at the end of the second. The  *)
(* end of the array is the one position it excludes.                       *)
Insert(q) ==
    /\ "insert" \in program.calls
    /\ ~IsFull(queues[q])
    /\ \E pos \in 0..(Capacity[q] - 1), v \in Values :
            LET r      == queues[q]
                result == InsertNotFull(r, pos, v)
            IN  /\ \/ InRange(pos, ArrayOne(r))
                   \/ InRange(pos, ArrayTwo(r))
                   \/ pos = ArrayTwo(r)[2]
                /\ Change(q, result[1])
                /\ returned' = [call   |-> "insert", queue |-> q,
                                at     |-> Designated(r, pos),
                                answer |-> Designated(result[1], result[2])]

Erase(q) ==
    /\ "erase" \in program.calls
    /\ \E index \in 0..(queues[q].count - 1) :
            LET r   == queues[q]
                pos == CellAt(r, index)
                new == Erased(r, pos)
            IN  /\ Change(q, new)
                /\ returned' = [call   |-> "erase", queue |-> q, at |-> index,
                                answer |-> Designated(new,
                                                ErasePosition(r, pos))]

EraseIterator(q) ==
    /\ "eraseIterator" \in program.calls
    /\ \E index \in 0..(queues[q].count - 1) :
            /\ Change(q, Erased(queues[q], CellAt(queues[q], index)))
            /\ returned' = [call   |-> "eraseIterator", queue |-> q,
                            at     |-> index,
                            answer |-> EraseIndex(queues[q], index)]

(* operator=, and the constructors from another queue: what is in the      *)
(* queue is cleared, and the other's elements are copied or moved.         *)
Assign(q, other) ==
    /\ q # other
    /\ queues[other].count <= Capacity[q]
    /\ LET o    == queues[other]
           new  == PushBacks(PopFronts(queues[q], queues[q].count),
                             Contents(o))
           left == [o EXCEPT !.cells =
                        [c \in DOMAIN @ |->
                            IF IndexOf(o, c) = -1 THEN @[c] ELSE Moved]]
       IN  \/ Change(q, new)
           \/ queues' = [queues EXCEPT ![q] = new, ![other] = left]
    /\ returned' = NothingReturned

Compare(q, other) ==
    /\ "compare" \in program.calls
    /\ \E answer \in EqualAnswers(queues[q], queues[other]) :
            returned' = [call |-> "compare", queue |-> q, other |-> other,
                         answer |-> answer]
    /\ UNCHANGED queues

Next ==
    /\ UNCHANGED program
    /\ \E q \in program.queues :
        \/ PushBack(q)
        \/ PushFront(q)
        \/ PopFrontCount(q)
        \/ PopBackCount(q)
        \/ Resize(q)
        \/ LineariseQueue(q)
        \/ Insert(q)
        \/ Erase(q)
        \/ EraseIterator(q)
        \/ \E other \in program.queues : Assign(q, other) \/ Compare(q, other)

Spec == Init /\ [][Next]_vars

-----------------------------------------------------------------------------
Ring(q) == [cells    : [0..(Capacity[q] - 1) -> Alive \cup {Raw, Broken}],
            capacity : {Capacity[q]},
            startIdx : 0..(Capacity[q] - 1),
            count    : 0..Capacity[q]]

TypeOK == \A q \in Queues : queues[q] \in Ring(q)

(* The objects alive in the array are exactly the elements of the queue:   *)
(* whatever pushes, pops, shifts and linearisation did before, no element  *)
(* was destroyed twice or leaked, none was constructed over another, and   *)
(* nothing was assigned to or moved from a cell without an object.         *)
LifetimesMatch ==
    \A q \in Queues :
        LET r        == queues[q]
            Occupied == { CellAt(r, i) : i \in 0..(r.count - 1) }
        IN  \A c \in DOMAIN r.cells :
                IF c \in Occupied THEN r.cells[c] \in Alive
                ELSE r.cells[c] = Raw

(* indexOf is the inverse of element access however the ring is wrapped,   *)
(* and says of a cell without an element that it has none.                 *)
IndexOfInverts ==
    \A q \in Queues :
        LET r == queues[q]
        IN  /\ \A i \in 0..(r.count - 1) : IndexOf(r, CellAt(r, i)) = i
            /\ \A c \in DOMAIN r.cells :
                    r.cells[c] = Raw => IndexOf(r, c) = -1

(* linearise() leaves every ring in one contiguous range, by whichever of  *)
(* its four ways it went.                                                  *)
LinearisedAfterwards ==
    returned.call = "linearise" => Linearised(queues[returned.queue])

(* The ring is a bounded sequence: every operation but insert, wherever    *)
(* the ring is wrapped, does to the elements what it promises, and leaves  *)
(* those of the other queues alone.                                        *)
Deque == INSTANCE BoundedDeque
            WITH items <- [q \in Queues |-> Contents(queues[q])]

StepsAsDeque ==
    [][returned'.call # "insert" =>
        [Deque!Next]_[q \in Queues |-> Contents(queues[q])]]_vars

(* "Insert new element at specified position": the elements before and     *)
(* behind the position are as they were.                                   *)
InsertsAtPosition ==
    [][returned'.call = "insert" =>
        LET q == returned'.queue
        IN  \E v \in Values :
                Contents(queues'[q]) =
                    InsertAt(Contents(queues[q]), returned'.at + 1, v)]_vars
=============================================================================
