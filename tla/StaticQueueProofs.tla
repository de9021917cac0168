------------------------- MODULE StaticQueueProofs -------------------------
(* Proofs about StaticQueue: for queues of any capacity and elements of    *)
(* any kind, objects live in exactly the cells of the ring's elements, and *)
(* every operation but insert does to the elements what BoundedDeque says. *)
(*                                                                         *)
(* The operations are followed cell by cell. What makes the long ones      *)
(* tractable is that a run of moves that does not overwrite what it has    *)
(* still to read is, all in all, a shift of a range.                       *)
EXTENDS StaticQueue, Induction, TLAPS

Cells(cap) == [0..(cap - 1) -> Alive \cup {Raw, Broken}]

AnyRing(cap) ==
    [cells : Cells(cap), capacity : {cap}, startIdx : Int, count : Nat]

(* The cells that ought to hold an element.                                *)
Occupies(r, c) ==
    \/ r.startIdx <= c /\ c < r.startIdx + r.count
    \/ c < r.startIdx + r.count - r.capacity

Sound(r, cap) ==
    /\ r \in AnyRing(cap)
    /\ r.startIdx \in 0..(cap - 1) /\ r.count \in 0..cap
    /\ \A c \in 0..(cap - 1) : IF Occupies(r, c) THEN r.cells[c] \in Alive
                               ELSE r.cells[c] = Raw

(* The element at a logical index.                                         *)
Elem(r, i) == r.cells[CellAt(r, i)]

(* What the values of a cell are to one another.                           *)
LEMMA Lifetimes ==
  /\ Raw \notin Alive /\ Broken \notin Alive /\ Raw # Broken /\ Moved \in Alive
  /\ Default \in Alive /\ Values \subseteq Alive
BY LifetimeAssumption, DefaultAssumption DEF Alive

-----------------------------------------------------------------------------
(* Objects in cells.                                                       *)

(* The operations on objects keep an array an array.                       *)
LEMMA MoveTyped ==
  ASSUME NEW cap \in Nat, NEW cells \in Cells(cap), NEW i \in Int, NEW v
  PROVE  /\ Construct(cells, i, v) \in Cells(cap)
         /\ AssignTo(cells, i, v) \in Cells(cap)
         /\ MoveOut(cells, i) \in Cells(cap)
BY Lifetimes DEF Construct, AssignTo, MoveOut, Cells

(* So does destroying.                                                     *)
LEMMA DestroyTyped ==
  ASSUME NEW cap \in Nat, NEW cells \in Cells(cap), NEW S
  PROVE  Destroy(cells, S) \in Cells(cap)
BY Lifetimes DEF Destroy, Cells

(* Destroying objects that are alive makes their cells raw, and only       *)
(* theirs.                                                                 *)
LEMMA DestroyCells ==
  ASSUME NEW cap \in Nat, NEW cells \in Cells(cap), NEW S,
         \A c \in 0..(cap - 1) : c \in S => cells[c] \in Alive
  PROVE  \A c \in 0..(cap - 1) :
            Destroy(cells, S)[c] = IF c \in S THEN Raw ELSE cells[c]
BY DEF Destroy, Cells

(* The i-th move of a run of which k are constructions.                    *)
MoveOne(c, src, dst, i, k) ==
    IF i <= k THEN Construct(MoveOut(c, src), dst, c[src])
    ELSE AssignTo(MoveOut(c, src), dst, c[src])

(* One move of a run keeps an array an array.                              *)
LEMMA MoveOneTyped ==
  ASSUME NEW cap \in Nat, NEW cells \in Cells(cap),
         NEW src \in Int, NEW dst \in Int, NEW i \in Int, NEW k \in Int
  PROVE  MoveOne(cells, src, dst, i, k) \in Cells(cap)
BY MoveTyped DEF MoveOne

(* One move between two cells: its target gets the object, its source is   *)
(* an object moved from, and the other cells are as they were.             *)
LEMMA MoveOneCells ==
  ASSUME NEW cap \in Nat, NEW cells \in Cells(cap),
         NEW src \in 0..(cap - 1), NEW dst \in 0..(cap - 1), src # dst,
         NEW i \in Int, NEW k \in Int,
         cells[src] \in Alive,
         IF i <= k THEN cells[dst] = Raw ELSE cells[dst] \in Alive
  PROVE  \A c \in 0..(cap - 1) :
            MoveOne(cells, src, dst, i, k)[c] =
                IF c = dst THEN cells[src]
                ELSE IF c = src THEN Moved ELSE cells[c]
<1> DEFINE out == MoveOut(cells, src)
<1>1. /\ out \in Cells(cap)
      /\ \A c \in 0..(cap - 1) : out[c] = IF c = src THEN Moved ELSE cells[c]
  <2>1. out \in Cells(cap)
    BY MoveTyped
  <2> QED
    BY <2>1 DEF MoveOut, Cells
<1> HIDE DEF out
<1>2. CASE i <= k
  <2>1. out[dst] = Raw
    BY <1>1, <1>2
  <2> QED
    BY <1>1, <1>2, <2>1 DEF MoveOne, out, Construct, Cells
<1>3. CASE ~ (i <= k)
  <2>1. out[dst] \in Alive
    BY <1>1, <1>3
  <2> QED
    BY <1>1, <1>3, <2>1 DEF MoveOne, out, AssignTo, Cells
<1> QED
  BY <1>2, <1>3

(* The run of moves is a recursion over their number.                      *)
IsRun(run, cap, cells, from, to, step, n, k) ==
    /\ run \in [0..n -> Cells(cap)]
    /\ run[0] = cells
    /\ \A i \in 1..n : run[i] = MoveOne(run[i - 1], from + step * (i - 1),
                                        to + step * (i - 1), i, k)
    /\ MoveRun(cells, from, to, step, n, k) = run[n]

(* MoveRun is what a sequence of single moves leads to.                    *)
LEMMA MoveRunLoop ==
  ASSUME NEW cap \in Nat, NEW cells \in Cells(cap), NEW from \in Int,
         NEW to \in Int, NEW step \in {-1, 1}, NEW n \in Nat, NEW k \in Int
  PROVE  \E run : IsRun(run, cap, cells, from, to, step, n, k)
<1> DEFINE S       == Cells(cap)
           G(x, i) == MoveOne(x, from + step * (i - 1), to + step * (i - 1), i, k)
           R(f) == f = [i \in 0..n |-> IF i = 0 THEN cells
                        ELSE LET src == from + step * (i - 1)
                                 dst == to + step * (i - 1)
                                 c   == f[i - 1]
                             IN  IF i <= k
                                 THEN Construct(MoveOut(c, src), dst, c[src])
                                 ELSE AssignTo(MoveOut(c, src), dst, c[src])]
           Q(f) == f = [i \in 0..n |-> IF i = 0 THEN cells ELSE G(f[i - 1], i)]
           run  == CHOOSE f : R(f)
           next == [p \in S \X (1..n) |-> G(p[1], p[2])]
<1>1. \A i \in 1..n : step * (i - 1) \in Int
  OBVIOUS
<1>2. \A s \in S, i \in 1..n : G(s, i) \in S
  <2> TAKE s \in S, i \in 1..n
  <2>1. from + step * (i - 1) \in Int /\ to + step * (i - 1) \in Int
    BY <1>1
  <2> HIDE DEF S
  <2> QED
    BY <2>1, MoveOneTyped DEF S
<1>3. \A s \in S, i \in 1..n : next[<<s, i>>] = G(s, i)
  OBVIOUS
<1>4. next \in [S \X (1..n) -> S]
  BY <1>2
<1> HIDE DEF next
<1>5. PICK f : f \in Iterates(S, cells, next, n)
  BY <1>4, IteratesExist
<1>6. /\ f \in [0..n -> S]
      /\ f = [i \in 0..n |-> IF i = 0 THEN cells ELSE next[<<f[i - 1], i>>]]
  BY <1>5 DEF Iterates
<1>7. Q(f)
  <2>1. ASSUME NEW i \in 0..n, i # 0
        PROVE  next[<<f[i - 1], i>>] = G(f[i - 1], i)
    <3>1. i \in 1..n /\ i - 1 \in 0..n
      BY <2>1
    <3>2. f[i - 1] \in S
      BY <1>6, <3>1
    <3> HIDE DEF S, G
    <3> QED
      BY <1>3, <3>1, <3>2
  <2> HIDE DEF G
  <2> QED
    BY <1>6, <2>1
<1>8. R(f)
  BY <1>7, Zenon DEF MoveOne
<1>9. R(run)
  <2> HIDE DEF R
  <2> QED
    BY <1>8, Zenon
<1>10. MoveRun(cells, from, to, step, n, k) = run[n]
  BY Zenon DEF MoveRun
<1>11. Q(run)
  BY <1>9, Zenon DEF MoveOne
<1> HIDE DEF run, R
<1>12. run[0] = cells /\ \A i \in 1..n : run[i] = G(run[i - 1], i)
  <2>1. 0 \in 0..n /\ \A i \in 1..n : i \in 0..n /\ i # 0
    OBVIOUS
  <2> HIDE DEF G
  <2> QED
    BY <1>11, <2>1
<1>13. \A i \in 0..n : run[i] \in S
  <2>1. \A i \in 1..n : run[i - 1] \in S => run[i] \in S
    <3> HIDE DEF S, G
    <3> QED
      BY <1>2, <1>12
  <2> HIDE DEF S, G
  <2> QED
    BY <1>12, <2>1, StaysInside DEF S
<1>14. run \in [0..n -> S]
  BY <1>11, <1>13
<1> QED
  BY <1>10, <1>12, <1>14 DEF IsRun

(* The range of n cells from one cell on, or back from it, can be moved to *)
(* another one, of which the first k cells are raw, in this order; what    *)
(* the cells hold afterwards.                                              *)
ReadyForward(cells, cap, from, to, n, k) ==
    /\ 0 <= from /\ from + n <= cap /\ 0 <= to /\ to + n <= cap
    /\ to < from \/ from + n <= to
    /\ \A c \in 0..(cap - 1) : from <= c /\ c < from + n => cells[c] \in Alive
    /\ \A c \in 0..(cap - 1) : to <= c /\ c < to + n =>
            IF c - to < k THEN cells[c] = Raw ELSE cells[c] \in Alive

ShiftedForward(new, cells, cap, from, to, n) ==
    /\ new \in Cells(cap)
    /\ \A c \in 0..(cap - 1) :
          new[c] = IF to <= c /\ c < to + n THEN cells[c - to + from]
                   ELSE IF from <= c /\ c < from + n THEN Moved ELSE cells[c]

ReadyBackward(cells, cap, from, to, n, k) ==
    /\ from < cap /\ n <= from + 1 /\ to < cap /\ n <= to + 1
    /\ from < to \/ to <= from - n
    /\ \A c \in 0..(cap - 1) : from - n < c /\ c <= from => cells[c] \in Alive
    /\ \A c \in 0..(cap - 1) : to - n < c /\ c <= to =>
            IF to - c < k THEN cells[c] = Raw ELSE cells[c] \in Alive

ShiftedBackward(new, cells, cap, from, to, n) ==
    /\ new \in Cells(cap)
    /\ \A c \in 0..(cap - 1) :
          new[c] = IF to - n < c /\ c <= to THEN cells[c - to + from]
                   ELSE IF from - n < c /\ c <= from THEN Moved ELSE cells[c]

(* A run of moves forwards that does not overwrite what it has still to    *)
(* read constructs exactly in cells without an object and assigns to the   *)
(* others.                                                                 *)
LEMMA RunsForward ==
  ASSUME NEW cap \in Nat, NEW cells \in Cells(cap), NEW from \in Int,
         NEW to \in Int, NEW n \in Nat, NEW k \in Int,
         ReadyForward(cells, cap, from, to, n, k)
  PROVE  ShiftedForward(MoveRun(cells, from, to, 1, n, k), cells, cap, from, to, n)
<1> USE DEF ReadyForward
<1> DEFINE After(x, i) ==
              \A c \in 0..(cap - 1) :
                x[c] = IF to <= c /\ c < to + i THEN cells[c - to + from]
                       ELSE IF from <= c /\ c < from + i THEN Moved ELSE cells[c]
<1>0. 1 \in {-1, 1}
  OBVIOUS
<1>1. PICK run : IsRun(run, cap, cells, from, to, 1, n, k)
  BY <1>0, MoveRunLoop
<1>a. /\ run \in [0..n -> Cells(cap)]
      /\ run[0] = cells
      /\ \A i \in 1..n : run[i] = MoveOne(run[i - 1], from + (1) * (i - 1),
                                          to + (1) * (i - 1), i, k)
      /\ MoveRun(cells, from, to, 1, n, k) = run[n]
  BY <1>1 DEF IsRun
<1>2. ASSUME NEW i \in 1..n, After(run[i - 1], i - 1)
      PROVE  After(run[i], i)
  <2> DEFINE src == from + (i - 1)
             dst == to + (i - 1)
             x   == run[i - 1]
  <2>1. /\ src \in 0..(cap - 1) /\ dst \in 0..(cap - 1) /\ src # dst
        /\ i - 1 \in 0..n /\ x \in Cells(cap)
    BY <1>a
  <2>2. /\ ~ (to <= src /\ src < to + (i - 1)) /\ ~ (from <= src /\ src < from + (i - 1))
        /\ from <= src /\ src < from + n
    OBVIOUS
  <2>3. x[src] = cells[src] /\ cells[src] \in Alive
    <3> HIDE DEF src, dst, x
    <3> QED BY <1>2, <2>1, <2>2 DEF x
  <2>4. /\ ~ (to <= dst /\ dst < to + (i - 1)) /\ to <= dst /\ dst < to + n
        /\ (dst - to < k) <=> (i <= k)
    OBVIOUS
  <2>5. IF i <= k THEN x[dst] = Raw ELSE x[dst] \in Alive
    <3>1. x[dst] = IF from <= dst /\ dst < from + (i - 1) THEN Moved ELSE cells[dst]
      <4> HIDE DEF src, dst, x
      <4> QED BY <1>2, <2>1, <2>4 DEF x
    <3>2. from <= dst /\ dst < from + (i - 1) => cells[dst] \in Alive
      <4>1. from <= dst /\ dst < from + (i - 1) => from <= dst /\ dst < from + n
        OBVIOUS
      <4> HIDE DEF src, dst, x
      <4> QED BY <2>1, <4>1
    <3>3. IF i <= k THEN cells[dst] = Raw ELSE cells[dst] \in Alive
      <4> HIDE DEF src, dst, x
      <4> QED BY <2>1, <2>4
    <3> HIDE DEF src, dst, x
    <3> QED BY <3>1, <3>2, <3>3, Lifetimes
  <2>6. run[i] = MoveOne(x, src, dst, i, k)
    <3>1. /\ from + (1) * (i - 1) = src /\ to + (1) * (i - 1) = dst
      OBVIOUS
    <3> HIDE DEF src, dst
    <3> QED BY <1>a, <3>1
  <2>7. \A c \in 0..(cap - 1) :
            run[i][c] = IF c = dst THEN x[src] ELSE IF c = src THEN Moved ELSE x[c]
    <3>1. i \in Int
      OBVIOUS
    <3> HIDE DEF src, dst, x
    <3> QED BY <2>1, <2>3, <2>5, <2>6, <3>1, MoveOneCells
  <2>8. dst - to + from = src
    OBVIOUS
  <2> SUFFICES ASSUME NEW c \in 0..(cap - 1)
               PROVE  run[i][c] = IF to <= c /\ c < to + i THEN cells[c - to + from]
                                  ELSE IF from <= c /\ c < from + i THEN Moved ELSE cells[c]
    OBVIOUS
  <2>9. x[c] = IF to <= c /\ c < to + (i - 1) THEN cells[c - to + from]
               ELSE IF from <= c /\ c < from + (i - 1) THEN Moved ELSE cells[c]
    BY <1>2
  <2>10. CASE c = dst
    BY <2>3, <2>7, <2>8, <2>10
  <2>11. CASE c # dst /\ c = src
    <3>1. ~ (to <= c /\ c < to + i) /\ from <= c /\ c < from + i
      BY <2>11
    <3> HIDE DEF src, dst, x
    <3> QED BY <2>7, <2>11, <3>1
  <2>12. CASE c # dst /\ c # src
    <3>1. /\ (to <= c /\ c < to + i) <=> (to <= c /\ c < to + (i - 1))
          /\ (from <= c /\ c < from + i) <=> (from <= c /\ c < from + (i - 1))
      BY <2>12
    <3> HIDE DEF src, dst, x
    <3> QED BY <2>7, <2>9, <2>12, <3>1
  <2> QED
    BY <2>10, <2>11, <2>12
<1>3. After(run[0], 0)
  BY <1>a
<1>4. After(run[n], n)
  <2> DEFINE T == { i \in Nat : i <= n => After(run[i], i) }
  <2>1. 0 \in T
    BY <1>3
  <2>2. ASSUME NEW i \in Nat, i \in T PROVE i + 1 \in T
    <3> SUFFICES ASSUME i + 1 <= n PROVE After(run[i + 1], i + 1)
      OBVIOUS
    <3>1. i + 1 \in 1..n /\ (i + 1) - 1 = i /\ After(run[i], i)
      BY <2>2
    <3> HIDE DEF After
    <3> QED BY <1>2, <3>1
  <2> HIDE DEF T
  <2>3. Nat \subseteq T
    BY <2>1, <2>2, SetInduction
  <2> HIDE DEF After
  <2> QED BY <2>3 DEF T
<1> QED
  BY <1>a, <1>4 DEF ShiftedForward

(* A run of moves backwards that does not overwrite what it has still to   *)
(* read constructs exactly in cells without an object and assigns to the   *)
(* others.                                                                 *)
LEMMA RunsBackward ==
  ASSUME NEW cap \in Nat, NEW cells \in Cells(cap), NEW from \in Int,
         NEW to \in Int, NEW n \in Nat, NEW k \in Int,
         ReadyBackward(cells, cap, from, to, n, k)
  PROVE  ShiftedBackward(MoveRun(cells, from, to, -1, n, k), cells, cap, from, to, n)
<1> USE DEF ReadyBackward
<1> DEFINE After(x, i) ==
              \A c \in 0..(cap - 1) :
                x[c] = IF to - i < c /\ c <= to THEN cells[c - to + from]
                       ELSE IF from - i < c /\ c <= from THEN Moved ELSE cells[c]
<1>0. -1 \in {-1, 1}
  OBVIOUS
<1>1. PICK run : IsRun(run, cap, cells, from, to, -1, n, k)
  BY <1>0, MoveRunLoop
<1>a. /\ run \in [0..n -> Cells(cap)]
      /\ run[0] = cells
      /\ \A i \in 1..n : run[i] = MoveOne(run[i - 1], from + (-1) * (i - 1),
                                          to + (-1) * (i - 1), i, k)
      /\ MoveRun(cells, from, to, -1, n, k) = run[n]
  BY <1>1 DEF IsRun
<1>2. ASSUME NEW i \in 1..n, After(run[i - 1], i - 1)
      PROVE  After(run[i], i)
  <2> DEFINE src == from - (i - 1)
             dst == to - (i - 1)
             x   == run[i - 1]
  <2>1. /\ src \in 0..(cap - 1) /\ dst \in 0..(cap - 1) /\ src # dst
        /\ i - 1 \in 0..n /\ x \in Cells(cap)
    BY <1>a
  <2>2. /\ ~ (to - (i - 1) < src /\ src <= to) /\ ~ (from - (i - 1) < src /\ src <= from)
        /\ from - n < src /\ src <= from
    OBVIOUS
  <2>3. x[src] = cells[src] /\ cells[src] \in Alive
    <3> HIDE DEF src, dst, x
    <3> QED BY <1>2, <2>1, <2>2 DEF x
  <2>4. /\ ~ (to - (i - 1) < dst /\ dst <= to) /\ to - n < dst /\ dst <= to
        /\ (to - dst < k) <=> (i <= k)
    OBVIOUS
  <2>5. IF i <= k THEN x[dst] = Raw ELSE x[dst] \in Alive
    <3>1. x[dst] = IF from - (i - 1) < dst /\ dst <= from THEN Moved ELSE cells[dst]
      <4> HIDE DEF src, dst, x
      <4> QED BY <1>2, <2>1, <2>4 DEF x
    <3>2. from - (i - 1) < dst /\ dst <= from => cells[dst] \in Alive
      <4>1. from - (i - 1) < dst /\ dst <= from => from - n < dst /\ dst <= from
        OBVIOUS
      <4> HIDE DEF src, dst, x
      <4> QED BY <2>1, <4>1
    <3>3. IF i <= k THEN cells[dst] = Raw ELSE cells[dst] \in Alive
      <4> HIDE DEF src, dst, x
      <4> QED BY <2>1, <2>4
    <3> HIDE DEF src, dst, x
    <3> QED BY <3>1, <3>2, <3>3, Lifetimes
  <2>6. run[i] = MoveOne(x, src, dst, i, k)
    <3>1. /\ from + (-1) * (i - 1) = src /\ to + (-1) * (i - 1) = dst
      OBVIOUS
    <3> HIDE DEF src, dst
    <3> QED BY <1>a, <3>1
  <2>7. \A c \in 0..(cap - 1) :
            run[i][c] = IF c = dst THEN x[src] ELSE IF c = src THEN Moved ELSE x[c]
    <3>1. i \in Int
      OBVIOUS
    <3> HIDE DEF src, dst, x
    <3> QED BY <2>1, <2>3, <2>5, <2>6, <3>1, MoveOneCells
  <2>8. dst - to + from = src
    OBVIOUS
  <2> SUFFICES ASSUME NEW c \in 0..(cap - 1)
               PROVE  run[i][c] = IF to - i < c /\ c <= to THEN cells[c - to + from]
                                  ELSE IF from - i < c /\ c <= from THEN Moved ELSE cells[c]
    OBVIOUS
  <2>9. x[c] = IF to - (i - 1) < c /\ c <= to THEN cells[c - to + from]
               ELSE IF from - (i - 1) < c /\ c <= from THEN Moved ELSE cells[c]
    BY <1>2
  <2>10. CASE c = dst
    BY <2>3, <2>7, <2>8, <2>10
  <2>11. CASE c # dst /\ c = src
    <3>1. ~ (to - i < c /\ c <= to) /\ from - i < c /\ c <= from
      BY <2>11
    <3> HIDE DEF src, dst, x
    <3> QED BY <2>7, <2>11, <3>1
  <2>12. CASE c # dst /\ c # src
    <3>1. /\ (to - i < c /\ c <= to) <=> (to - (i - 1) < c /\ c <= to)
          /\ (from - i < c /\ c <= from) <=> (from - (i - 1) < c /\ c <= from)
      BY <2>12
    <3> HIDE DEF src, dst, x
    <3> QED BY <2>7, <2>9, <2>12, <3>1
  <2> QED
    BY <2>10, <2>11, <2>12
<1>3. After(run[0], 0)
  BY <1>a
<1>4. After(run[n], n)
  <2> DEFINE T == { i \in Nat : i <= n => After(run[i], i) }
  <2>1. 0 \in T
    BY <1>3
  <2>2. ASSUME NEW i \in Nat, i \in T PROVE i + 1 \in T
    <3> SUFFICES ASSUME i + 1 <= n PROVE After(run[i + 1], i + 1)
      OBVIOUS
    <3>1. i + 1 \in 1..n /\ (i + 1) - 1 = i /\ After(run[i], i)
      BY <2>2
    <3> HIDE DEF After
    <3> QED BY <1>2, <3>1
  <2> HIDE DEF T
  <2>3. Nat \subseteq T
    BY <2>1, <2>2, SetInduction
  <2> HIDE DEF After
  <2> QED BY <2>3 DEF T
<1> QED
  BY <1>a, <1>4 DEF ShiftedBackward

-----------------------------------------------------------------------------
(* The cells of a ring and the indices of its elements.                    *)
LEMMA CellFacts ==
  ASSUME NEW cap \in Nat, NEW r, Sound(r, cap)
  PROVE  /\ \A i \in 0..(cap - 1) :
                /\ CellAt(r, i) \in 0..(cap - 1)
                /\ Occupies(r, CellAt(r, i)) <=> i < r.count
         /\ \A i, j \in 0..(cap - 1) : CellAt(r, i) = CellAt(r, j) => i = j
         /\ \A c \in 0..(cap - 1) :
                LET i == IF c < r.startIdx THEN cap - r.startIdx + c
                         ELSE c - r.startIdx
                IN  i \in 0..(cap - 1) /\ CellAt(r, i) = c
BY DEF Sound, AnyRing, CellAt, Occupies

(* What a sound ring is made of.                                           *)
LEMMA SoundParts ==
  ASSUME NEW cap \in Nat, NEW r, Sound(r, cap)
  PROVE  /\ r.cells \in Cells(cap) /\ r.capacity = cap
         /\ r.startIdx \in 0..(cap - 1) /\ r.count \in 0..cap
         /\ cap \in Nat \ {0}
         /\ \A c \in 0..(cap - 1) : IF Occupies(r, c) THEN r.cells[c] \in Alive
                                    ELSE r.cells[c] = Raw
         /\ \A i \in 0..(r.count - 1) : Elem(r, i) \in Alive
<1>1. /\ r.cells \in Cells(cap) /\ r.capacity = cap
      /\ r.startIdx \in 0..(cap - 1) /\ r.count \in 0..cap
      /\ cap \in Nat \ {0}
      /\ \A c \in 0..(cap - 1) : IF Occupies(r, c) THEN r.cells[c] \in Alive
                                 ELSE r.cells[c] = Raw
  BY DEF Sound, AnyRing
<1>2. ASSUME NEW i \in 0..(r.count - 1) PROVE Elem(r, i) \in Alive
  <2>1. i \in 0..(cap - 1) /\ i < r.count
    BY <1>1
  <2>2. CellAt(r, i) \in 0..(cap - 1) /\ Occupies(r, CellAt(r, i))
    BY <2>1, CellFacts
  <2> QED
    BY <1>1, <2>2 DEF Elem
<1> QED
  BY <1>1, <1>2

(* A ring that has changed.                                                *)
With(r, cells, start, count) ==
    [r EXCEPT !.cells = cells, !.startIdx = start, !.count = count]

Fits(cells, cap, start, count) ==
    \A c \in 0..(cap - 1) :
        IF (start <= c /\ c < start + count) \/ c < start + count - cap
        THEN cells[c] \in Alive ELSE cells[c] = Raw

(* A ring that gets new cells, a new start and a new number of elements is *)
(* sound when the cells fit.                                               *)
LEMMA SoundRing ==
  ASSUME NEW cap \in Nat, NEW r, NEW cells \in Cells(cap),
         NEW start \in 0..(cap - 1), NEW count \in 0..cap, Sound(r, cap),
         Fits(cells, cap, start, count)
  PROVE  /\ Sound(With(r, cells, start, count), cap)
         /\ With(r, cells, start, count).cells = cells
         /\ With(r, cells, start, count).startIdx = start
         /\ With(r, cells, start, count).count = count
<1> DEFINE new == [r EXCEPT !.cells = cells, !.startIdx = start, !.count = count]
<1>1. /\ new \in AnyRing(cap) /\ new.cells = cells /\ new.startIdx = start
      /\ new.count = count /\ new.capacity = cap
  <2>1. r \in AnyRing(cap) /\ start \in Int /\ count \in Nat
    BY DEF Sound
  <2>2. new \in AnyRing(cap)
    BY <2>1 DEF AnyRing
  <2>3. new.cells = cells
    BY <2>1 DEF AnyRing
  <2>4. new.startIdx = start /\ new.count = count
    BY <2>1 DEF AnyRing
  <2> HIDE DEF new
  <2> QED
    BY <2>2, <2>3, <2>4 DEF AnyRing
<1> HIDE DEF new
<1>2. Sound(new, cap)
  BY <1>1 DEF Sound, Occupies, Fits
<1> QED
  BY <1>1, <1>2 DEF new, With

(* pushBack, when there is room: one element more, behind the others.      *)
LEMMA PushedBack ==
  ASSUME NEW cap \in Nat, NEW r, Sound(r, cap), r.count < cap, NEW v \in Alive
  PROVE  LET new == PushBackNotFull(r, v)
         IN  /\ Sound(new, cap) /\ new.startIdx = r.startIdx
             /\ new.count = r.count + 1 /\ Elem(new, r.count) = v
             /\ \A i \in 0..(r.count - 1) : Elem(new, i) = Elem(r, i)
<1> DEFINE at    == CellAt(r, r.count)
           cells == Construct(r.cells, at, v)
           new   == With(r, cells, r.startIdx, r.count + 1)
<1>0. /\ r.cells \in Cells(cap) /\ r.capacity = cap /\ r.count + 1 \in 0..cap
      /\ r.startIdx \in 0..(cap - 1) /\ r.count \in 0..(cap - 1)
      /\ \A c \in 0..(cap - 1) : IF Occupies(r, c) THEN r.cells[c] \in Alive
                                 ELSE r.cells[c] = Raw
  BY SoundParts
<1>1. at \in 0..(cap - 1) /\ ~ Occupies(r, at)
  BY <1>0, CellFacts
<1>2. /\ cells \in Cells(cap)
      /\ \A c \in 0..(cap - 1) : cells[c] = IF c = at THEN v ELSE r.cells[c]
  <2>1. cells \in Cells(cap)
    BY <1>0, <1>1, MoveTyped
  <2>2. r.cells[at] = Raw
    BY <1>0, <1>1
  <2> QED
    BY <1>0, <1>1, <2>1, <2>2 DEF Construct, Cells
<1>3. \A c \in 0..(cap - 1) :
        ((r.startIdx <= c /\ c < r.startIdx + (r.count + 1))
            \/ c < r.startIdx + (r.count + 1) - cap)
        <=> (c = at \/ Occupies(r, c))
  BY <1>0 DEF CellAt, Occupies
<1> HIDE DEF at, cells
<1>4. Fits(cells, cap, r.startIdx, r.count + 1)
  BY <1>0, <1>2, <1>3 DEF Fits
<1>5. /\ Sound(new, cap) /\ new.cells = cells /\ new.startIdx = r.startIdx
      /\ new.count = r.count + 1
  BY <1>0, <1>2, <1>4, SoundRing
<1>6. PushBackNotFull(r, v) = new
  BY DEF PushBackNotFull, With, cells, at, new, Sound, AnyRing
<1>7. \A i \in 0..(cap - 1) : CellAt(new, i) = CellAt(r, i)
  BY <1>5 DEF CellAt, Sound, AnyRing
<1> HIDE DEF new
<1>8. Elem(new, r.count) = v
  BY <1>0, <1>1, <1>2, <1>5, <1>7 DEF Elem, at
<1>9. ASSUME NEW i \in 0..(r.count - 1) PROVE Elem(new, i) = Elem(r, i)
  <2>1. i \in 0..(cap - 1) /\ i # r.count
    BY <1>0
  <2>2. CellAt(r, i) \in 0..(cap - 1) /\ CellAt(r, i) # at
    BY <1>0, <2>1, CellFacts DEF at
  <2> QED
    BY <1>2, <1>5, <1>7, <2>1, <2>2 DEF Elem
<1> QED
  BY <1>5, <1>6, <1>8, <1>9

(* pushFront, when there is room: one element more, before the others.     *)
LEMMA PushedFront ==
  ASSUME NEW cap \in Nat, NEW r, Sound(r, cap), r.count < cap, NEW v \in Alive
  PROVE  LET new == PushFrontNotFull(r, v)
         IN  /\ Sound(new, cap)
             /\ new.startIdx = IF r.startIdx = 0 THEN cap - 1 ELSE r.startIdx - 1
             /\ new.count = r.count + 1 /\ Elem(new, 0) = v
             /\ \A i \in 0..(r.count - 1) : Elem(new, i + 1) = Elem(r, i)
<1> DEFINE at    == CellAt(r, r.capacity - 1)
           cells == Construct(r.cells, at, v)
           start == IF r.startIdx = 0 THEN r.capacity - 1 ELSE r.startIdx - 1
           new   == With(r, cells, start, r.count + 1)
<1>0. /\ r.cells \in Cells(cap) /\ r.capacity = cap /\ r.count + 1 \in 0..cap
      /\ r.startIdx \in 0..(cap - 1) /\ r.count \in 0..(cap - 1)
      /\ \A c \in 0..(cap - 1) : IF Occupies(r, c) THEN r.cells[c] \in Alive
                                 ELSE r.cells[c] = Raw
  BY SoundParts
<1>1. /\ at \in 0..(cap - 1) /\ ~ Occupies(r, at)
      /\ start \in 0..(cap - 1) /\ at = start
  <2>1. cap - 1 \in 0..(cap - 1)
    BY <1>0
  <2>2. at \in 0..(cap - 1) /\ ~ Occupies(r, at)
    BY <1>0, <2>1, CellFacts
  <2> QED
    BY <1>0, <2>2 DEF CellAt
<1>2. /\ cells \in Cells(cap)
      /\ \A c \in 0..(cap - 1) : cells[c] = IF c = at THEN v ELSE r.cells[c]
  <2>1. cells \in Cells(cap)
    BY <1>0, <1>1, MoveTyped
  <2>2. r.cells[at] = Raw
    BY <1>0, <1>1
  <2> QED
    BY <1>0, <1>1, <2>1, <2>2 DEF Construct, Cells
<1>3. \A c \in 0..(cap - 1) :
        ((start <= c /\ c < start + (r.count + 1))
            \/ c < start + (r.count + 1) - cap)
        <=> (c = at \/ Occupies(r, c))
  BY <1>0 DEF CellAt, Occupies
<1> HIDE DEF at, cells
<1>4. Fits(cells, cap, start, r.count + 1)
  <2> HIDE DEF start
  <2> QED BY <1>0, <1>2, <1>3 DEF Fits
<1>5. /\ Sound(new, cap) /\ new.cells = cells /\ new.startIdx = start
      /\ new.count = r.count + 1
  <2> HIDE DEF start
  <2> QED BY <1>0, <1>1, <1>2, <1>4, SoundRing
<1>6. PushFrontNotFull(r, v) = new
  BY DEF PushFrontNotFull, With, cells, at, new, Sound, AnyRing
<1>7. /\ CellAt(new, 0) = at
      /\ \A i \in 0..(r.count - 1) : CellAt(new, i + 1) = CellAt(r, i)
  <2>1. new.capacity = cap
    BY <1>5, SoundParts
  <2> HIDE DEF new
  <2> QED
    BY <1>0, <1>1, <1>5, <2>1 DEF CellAt
<1> HIDE DEF new
<1>8. Elem(new, 0) = v
  BY <1>1, <1>2, <1>5, <1>7 DEF Elem
<1>9. ASSUME NEW i \in 0..(r.count - 1) PROVE Elem(new, i + 1) = Elem(r, i)
  <2>1. i \in 0..(cap - 1) /\ cap - 1 \in 0..(cap - 1) /\ i # cap - 1
    BY <1>0
  <2>2. CellAt(r, i) \in 0..(cap - 1) /\ CellAt(r, i) # at
    BY <1>0, <2>1, CellFacts DEF at
  <2> QED
    BY <1>2, <1>5, <1>7, <2>1, <2>2 DEF Elem
<1> QED
  BY <1>0, <1>5, <1>6, <1>8, <1>9

(* popFront removes the first element and no other.                        *)
LEMMA PoppedFront ==
  ASSUME NEW cap \in Nat, NEW r, Sound(r, cap), r.count > 0
  PROVE  LET new == PopFront(r)
         IN  /\ Sound(new, cap)
             /\ new.startIdx = IF cap <= r.startIdx + 1 \/ r.count = 1
                               THEN 0 ELSE r.startIdx + 1
             /\ new.count = r.count - 1
             /\ \A i \in 0..(r.count - 2) : Elem(new, i) = Elem(r, i + 1)
<1> DEFINE at    == CellAt(r, 0)
           cells == Destroy(r.cells, {at})
           start == IF r.capacity <= r.startIdx + 1 \/ r.count = 1
                    THEN 0 ELSE r.startIdx + 1
           new   == With(r, cells, start, r.count - 1)
<1>0. /\ r.cells \in Cells(cap) /\ r.capacity = cap /\ r.count - 1 \in 0..cap
      /\ r.startIdx \in 0..(cap - 1) /\ r.count \in 1..cap
      /\ \A c \in 0..(cap - 1) : IF Occupies(r, c) THEN r.cells[c] \in Alive
                                 ELSE r.cells[c] = Raw
  BY SoundParts
<1>1. /\ at \in 0..(cap - 1) /\ Occupies(r, at) /\ at = r.startIdx
      /\ start \in 0..(cap - 1)
  BY <1>0 DEF CellAt, Occupies
<1>2. /\ cells \in Cells(cap)
      /\ \A c \in 0..(cap - 1) : cells[c] = IF c = at THEN Raw ELSE r.cells[c]
  <2>1. cells \in Cells(cap)
    BY <1>0, DestroyTyped
  <2>2. \A c \in 0..(cap - 1) : c \in {at} => r.cells[c] \in Alive
    BY <1>0, <1>1
  <2>3. \A c \in 0..(cap - 1) : cells[c] = IF c \in {at} THEN Raw ELSE r.cells[c]
    BY <1>0, <2>2, DestroyCells
  <2> QED
    BY <2>1, <2>3
<1>3. \A c \in 0..(cap - 1) :
        ((start <= c /\ c < start + (r.count - 1))
            \/ c < start + (r.count - 1) - cap)
        <=> (c # at /\ Occupies(r, c))
  <2> TAKE c \in 0..(cap - 1)
  <2>1. Occupies(r, c) <=> \/ r.startIdx <= c /\ c < r.startIdx + r.count
                          \/ c < r.startIdx + r.count - cap
    BY <1>0 DEF Occupies
  <2>2. /\ r.startIdx \in Int /\ r.count \in Int /\ cap \in Int /\ c \in Int
        /\ 0 <= c /\ c <= cap - 1 /\ 0 <= r.startIdx /\ r.startIdx <= cap - 1
        /\ 1 <= r.count /\ r.count <= cap /\ at = r.startIdx
    BY <1>0, <1>1
  <2>3. CASE r.count = 1
    <3>1. start = 0
      BY <2>3
    <3> HIDE DEF at, start
    <3> QED
      BY <2>1, <2>2, <2>3, <3>1
  <2>4. CASE r.count # 1 /\ cap <= r.startIdx + 1
    <3>1. start = 0
      BY <1>0, <2>4
    <3> HIDE DEF at, start
    <3> QED
      BY <2>1, <2>2, <2>4, <3>1
  <2>5. CASE r.count # 1 /\ ~ (cap <= r.startIdx + 1)
    <3>1. start = r.startIdx + 1
      BY <1>0, <2>5
    <3> HIDE DEF at, start
    <3> QED
      BY <2>1, <2>2, <2>5, <3>1
  <2> QED
    BY <2>3, <2>4, <2>5
<1> HIDE DEF at, cells
<1>4. Fits(cells, cap, start, r.count - 1)
  <2> HIDE DEF start
  <2> QED BY <1>0, <1>2, <1>3 DEF Fits
<1>5. /\ Sound(new, cap) /\ new.cells = cells /\ new.startIdx = start
      /\ new.count = r.count - 1
  <2> HIDE DEF start
  <2> QED BY <1>0, <1>1, <1>2, <1>4, SoundRing
<1>6. PopFront(r) = new
  <2>1. ~ IsEmpty(r)
    BY <1>0 DEF IsEmpty
  <2> QED
    BY <2>1 DEF PopFront, With, cells, at, new, Sound, AnyRing
<1>7. \A i \in 0..(r.count - 2) : CellAt(new, i) = CellAt(r, i + 1)
  <2>1. new.capacity = cap
    BY <1>5, SoundParts
  <2> HIDE DEF new
  <2> QED
    BY <1>0, <1>1, <1>5, <2>1 DEF CellAt
<1> HIDE DEF new
<1>8. ASSUME NEW i \in 0..(r.count - 2) PROVE Elem(new, i) = Elem(r, i + 1)
  <2>1. i + 1 \in 0..(cap - 1) /\ 0 \in 0..(cap - 1) /\ i + 1 # 0
    BY <1>0
  <2>2. CellAt(r, i + 1) \in 0..(cap - 1) /\ CellAt(r, i + 1) # at
    BY <1>0, <2>1, CellFacts DEF at
  <2> QED
    BY <1>2, <1>5, <1>7, <2>1, <2>2 DEF Elem
<1> QED
  BY <1>0, <1>5, <1>6, <1>8

(* popBack removes the last element and no other.                          *)
LEMMA PoppedBack ==
  ASSUME NEW cap \in Nat, NEW r, Sound(r, cap), r.count > 0
  PROVE  LET new == PopBack(r)
         IN  /\ Sound(new, cap) /\ new.startIdx = r.startIdx
             /\ new.count = r.count - 1
             /\ \A i \in 0..(r.count - 2) : Elem(new, i) = Elem(r, i)
<1> DEFINE at    == CellAt(r, r.count - 1)
           cells == Destroy(r.cells, {at})
           new   == With(r, cells, r.startIdx, r.count - 1)
<1>0. /\ r.cells \in Cells(cap) /\ r.capacity = cap /\ r.count - 1 \in 0..cap
      /\ r.startIdx \in 0..(cap - 1) /\ r.count \in 1..cap
      /\ \A c \in 0..(cap - 1) : IF Occupies(r, c) THEN r.cells[c] \in Alive
                                 ELSE r.cells[c] = Raw
  BY SoundParts
<1>1. at \in 0..(cap - 1) /\ Occupies(r, at)
  <2>1. r.count - 1 \in 0..(cap - 1)
    BY <1>0
  <2> QED
    BY <1>0, <2>1, CellFacts
<1>2. /\ cells \in Cells(cap)
      /\ \A c \in 0..(cap - 1) : cells[c] = IF c = at THEN Raw ELSE r.cells[c]
  <2>1. cells \in Cells(cap)
    BY <1>0, DestroyTyped
  <2>2. \A c \in 0..(cap - 1) : c \in {at} => r.cells[c] \in Alive
    BY <1>0, <1>1
  <2>3. \A c \in 0..(cap - 1) : cells[c] = IF c \in {at} THEN Raw ELSE r.cells[c]
    BY <1>0, <2>2, DestroyCells
  <2> QED
    BY <2>1, <2>3
<1>3. \A c \in 0..(cap - 1) :
        ((r.startIdx <= c /\ c < r.startIdx + (r.count - 1))
            \/ c < r.startIdx + (r.count - 1) - cap)
        <=> (c # at /\ Occupies(r, c))
  BY <1>0 DEF CellAt, Occupies
<1> HIDE DEF at, cells
<1>4. Fits(cells, cap, r.startIdx, r.count - 1)
  BY <1>0, <1>2, <1>3 DEF Fits
<1>5. /\ Sound(new, cap) /\ new.cells = cells /\ new.startIdx = r.startIdx
      /\ new.count = r.count - 1
  BY <1>0, <1>2, <1>4, SoundRing
<1>6. PopBack(r) = new
  <2>1. ~ IsEmpty(r)
    BY <1>0 DEF IsEmpty
  <2> QED
    BY <2>1 DEF PopBack, With, cells, at, new, Sound, AnyRing
<1>7. \A i \in 0..(cap - 1) : CellAt(new, i) = CellAt(r, i)
  BY <1>5 DEF CellAt, Sound, AnyRing
<1> HIDE DEF new
<1>8. ASSUME NEW i \in 0..(r.count - 2) PROVE Elem(new, i) = Elem(r, i)
  <2>1. i \in 0..(cap - 1) /\ r.count - 1 \in 0..(cap - 1) /\ i # r.count - 1
    BY <1>0
  <2>2. CellAt(r, i) \in 0..(cap - 1) /\ CellAt(r, i) # at
    BY <1>0, <2>1, CellFacts DEF at
  <2> QED
    BY <1>2, <1>5, <1>7, <2>1, <2>2 DEF Elem
<1> QED
  BY <1>0, <1>5, <1>6, <1>8

-----------------------------------------------------------------------------
(* The operations on either end put in terms of the ring's parts.          *)

(* Such a change keeps a ring a ring.                                      *)
LEMMA WithTyped ==
  ASSUME NEW cap \in Nat, NEW r \in AnyRing(cap), NEW cells \in Cells(cap),
         NEW start \in Int, NEW count \in Nat
  PROVE  With(r, cells, start, count) \in AnyRing(cap)
BY DEF With, AnyRing

(* The four operations on either end as changes of three members.          *)
LEMMA AsWith ==
  ASSUME NEW cap \in Nat, NEW r \in AnyRing(cap), NEW v
  PROVE  /\ PushBackNotFull(r, v) =
                With(r, Construct(r.cells, CellAt(r, r.count), v),
                     r.startIdx, r.count + 1)
         /\ PushFrontNotFull(r, v) =
                With(r, Construct(r.cells, CellAt(r, r.capacity - 1), v),
                     IF r.startIdx = 0 THEN r.capacity - 1 ELSE r.startIdx - 1,
                     r.count + 1)
         /\ ~ IsEmpty(r) => PopFront(r) =
                With(r, Destroy(r.cells, {CellAt(r, 0)}),
                     IF r.capacity <= r.startIdx + 1 \/ r.count = 1
                     THEN 0 ELSE r.startIdx + 1,
                     r.count - 1)
         /\ ~ IsEmpty(r) => PopBack(r) =
                With(r, Destroy(r.cells, {CellAt(r, r.count - 1)}),
                     r.startIdx, r.count - 1)
<1>1. PushBackNotFull(r, v) =
        With(r, Construct(r.cells, CellAt(r, r.count), v), r.startIdx, r.count + 1)
  BY DEF PushBackNotFull, With, AnyRing
<1>2. PushFrontNotFull(r, v) =
        With(r, Construct(r.cells, CellAt(r, r.capacity - 1), v),
             IF r.startIdx = 0 THEN r.capacity - 1 ELSE r.startIdx - 1, r.count + 1)
  BY DEF PushFrontNotFull, With, AnyRing
<1>3. ~ IsEmpty(r) => PopFront(r) =
        With(r, Destroy(r.cells, {CellAt(r, 0)}),
             IF r.capacity <= r.startIdx + 1 \/ r.count = 1
             THEN 0 ELSE r.startIdx + 1, r.count - 1)
  BY DEF PopFront, With, AnyRing
<1>4. ~ IsEmpty(r) => PopBack(r) =
        With(r, Destroy(r.cells, {CellAt(r, r.count - 1)}), r.startIdx, r.count - 1)
  BY DEF PopBack, With, AnyRing
<1> QED
  BY <1>1, <1>2, <1>3, <1>4

(* The loops. Whatever ring they meet, a step makes a ring of it.          *)

(* Every step of the loops keeps a ring a ring.                            *)
LEMMA StepTyped ==
  ASSUME NEW cap \in Nat, NEW r \in AnyRing(cap), NEW v
  PROVE  /\ PopFront(r) \in AnyRing(cap)
         /\ PopBack(r) \in AnyRing(cap)
         /\ PushBackNotFull(r, v) \in AnyRing(cap)
         /\ PushFrontNotFull(r, v) \in AnyRing(cap)
<1>1. /\ r.cells \in Cells(cap) /\ r.capacity = cap
      /\ r.startIdx \in Int /\ r.count \in Nat
  BY DEF AnyRing
<1>2. \A i \in Int : CellAt(r, i) \in Int
  BY <1>1 DEF CellAt
<1>3. ASSUME ~ IsEmpty(r)
      PROVE  /\ r.count - 1 \in Nat
             /\ Destroy(r.cells, {CellAt(r, 0)}) \in Cells(cap)
             /\ Destroy(r.cells, {CellAt(r, r.count - 1)}) \in Cells(cap)
             /\ (IF r.capacity <= r.startIdx + 1 \/ r.count = 1
                 THEN 0 ELSE r.startIdx + 1) \in Int
  <2>1. r.count - 1 \in Nat
    BY <1>1, <1>3 DEF IsEmpty
  <2>2. /\ Destroy(r.cells, {CellAt(r, 0)}) \in Cells(cap)
        /\ Destroy(r.cells, {CellAt(r, r.count - 1)}) \in Cells(cap)
    BY <1>1, DestroyTyped
  <2>3. r.startIdx + 1 \in Int
    BY <1>1
  <2> QED
    BY <2>1, <2>2, <2>3
<1>4. /\ Construct(r.cells, CellAt(r, r.count), v) \in Cells(cap)
      /\ Construct(r.cells, CellAt(r, r.capacity - 1), v) \in Cells(cap)
      /\ (IF r.startIdx = 0 THEN r.capacity - 1 ELSE r.startIdx - 1) \in Int
      /\ r.count + 1 \in Nat
  BY <1>1, <1>2, MoveTyped
<1>5. IsEmpty(r) => PopFront(r) = r /\ PopBack(r) = r
  BY DEF PopFront, PopBack
<1>6. PopFront(r) \in AnyRing(cap)
  <2>1. CASE ~ IsEmpty(r)
    <3> DEFINE cells == Destroy(r.cells, {CellAt(r, 0)})
               start == IF r.capacity <= r.startIdx + 1 \/ r.count = 1
                        THEN 0 ELSE r.startIdx + 1
    <3>1. PopFront(r) = With(r, cells, start, r.count - 1)
      BY <2>1, AsWith
    <3>2. cells \in Cells(cap) /\ start \in Int /\ r.count - 1 \in Nat
      BY <1>3, <2>1
    <3> HIDE DEF cells, start
    <3> QED
      BY <1>1, <3>1, <3>2, WithTyped
  <2> QED
    BY <1>5, <2>1
<1>7. PopBack(r) \in AnyRing(cap)
  <2>1. CASE ~ IsEmpty(r)
    <3> DEFINE cells == Destroy(r.cells, {CellAt(r, r.count - 1)})
    <3>1. PopBack(r) = With(r, cells, r.startIdx, r.count - 1)
      BY <2>1, AsWith
    <3>2. cells \in Cells(cap) /\ r.count - 1 \in Nat
      BY <1>3, <2>1
    <3> HIDE DEF cells
    <3> QED
      BY <1>1, <3>1, <3>2, WithTyped
  <2> QED
    BY <1>5, <2>1
<1>8. PushBackNotFull(r, v) \in AnyRing(cap)
  <2> DEFINE cells == Construct(r.cells, CellAt(r, r.count), v)
  <2>1. PushBackNotFull(r, v) = With(r, cells, r.startIdx, r.count + 1)
    BY AsWith
  <2>2. cells \in Cells(cap)
    BY <1>4
  <2> HIDE DEF cells
  <2> QED
    BY <1>1, <1>4, <2>1, <2>2, WithTyped
<1>9. PushFrontNotFull(r, v) \in AnyRing(cap)
  <2> DEFINE cells == Construct(r.cells, CellAt(r, r.capacity - 1), v)
             start == IF r.startIdx = 0 THEN r.capacity - 1 ELSE r.startIdx - 1
  <2>1. PushFrontNotFull(r, v) = With(r, cells, start, r.count + 1)
    BY AsWith
  <2>2. cells \in Cells(cap) /\ start \in Int
    BY <1>4
  <2> HIDE DEF cells, start
  <2> QED
    BY <1>1, <1>4, <2>1, <2>2, WithTyped
<1> QED
  BY <1>6, <1>7, <1>8, <1>9

(* The ring without its first n elements.                                  *)
WithoutFront(new, r, cap, n) ==
    /\ Sound(new, cap) /\ new.count = r.count - n
    /\ new.startIdx = IF n = 0 THEN r.startIdx
                      ELSE IF n = r.count THEN 0 ELSE CellAt(r, n)
    /\ \A i \in 0..(r.count - n - 1) : Elem(new, i) = Elem(r, i + n)

(* Popping n times in front removes the first n elements.                  *)
LEMMA PoppedFronts ==
  ASSUME NEW cap \in Nat, NEW r, Sound(r, cap), NEW n \in 0..r.count
  PROVE  WithoutFront(PopFronts(r, n), r, cap, n)
<1> DEFINE S    == AnyRing(cap)
           R(f) == f = [i \in 0..n |-> IF i = 0 THEN r ELSE PopFront(f[i - 1])]
           h    == CHOOSE f : R(f)
           next == [p \in S \X (1..n) |-> PopFront(p[1])]
<1>0. /\ r.count \in 0..cap /\ n \in Nat /\ r \in S /\ r.startIdx \in 0..(cap - 1)
      /\ r.capacity = cap
  BY DEF Sound, AnyRing
<1>1. next \in [S \X (1..n) -> S]
  <2> HIDE DEF S
  <2> QED BY StepTyped DEF S
<1>2. \A s \in S, i \in 1..n : next[<<s, i>>] = PopFront(s)
  <2> HIDE DEF S
  <2> QED OBVIOUS
<1> HIDE DEF next
<1>3. PICK f : f \in Iterates(S, r, next, n)
  BY <1>0, <1>1, IteratesExist
<1>4. /\ f \in [0..n -> S]
      /\ f = [i \in 0..n |-> IF i = 0 THEN r ELSE next[<<f[i - 1], i>>]]
  BY <1>3 DEF Iterates
<1>5. R(f)
  <2>1. ASSUME NEW i \in 0..n, i # 0
        PROVE  next[<<f[i - 1], i>>] = PopFront(f[i - 1])
    <3>1. i \in 1..n /\ i - 1 \in 0..n
      BY <2>1
    <3>2. f[i - 1] \in S
      BY <1>4, <3>1
    <3> HIDE DEF S
    <3> QED
      BY <1>2, <3>1, <3>2
  <2> QED
    BY <1>4, <2>1
<1>6. R(h)
  <2> HIDE DEF R
  <2> QED
    BY <1>5, Zenon
<1>7. PopFronts(r, n) = h[n]
  BY Zenon DEF PopFronts
<1> HIDE DEF h
<1>8. h[0] = r /\ \A i \in 1..n : h[i] = PopFront(h[i - 1])
  <2>1. 0 \in 0..n /\ \A i \in 1..n : i \in 0..n /\ i # 0
    OBVIOUS
  <2> QED
    BY <1>6, <2>1
<1> HIDE DEF R
<1>9. WithoutFront(h[0], r, cap, 0)
  BY <1>0, <1>8 DEF WithoutFront
<1>10. ASSUME NEW i \in 1..n, WithoutFront(h[i - 1], r, cap, i - 1)
       PROVE  WithoutFront(h[i], r, cap, i)
  <2> DEFINE x == h[i - 1]
             y == h[i]
  <2>1. /\ Sound(x, cap) /\ x.count = r.count - (i - 1)
        /\ x.startIdx = IF i - 1 = 0 THEN r.startIdx
                        ELSE IF i - 1 = r.count THEN 0 ELSE CellAt(r, i - 1)
        /\ \A j \in 0..(r.count - (i - 1) - 1) : Elem(x, j) = Elem(r, j + (i - 1))
    BY <1>10 DEF WithoutFront
  <2>2. x.count > 0 /\ y = PopFront(x)
    BY <1>0, <1>8, <2>1
  <2> HIDE DEF x, y
  <2>3. /\ Sound(y, cap)
        /\ y.startIdx = IF cap <= x.startIdx + 1 \/ x.count = 1
                        THEN 0 ELSE x.startIdx + 1
        /\ y.count = x.count - 1
        /\ \A j \in 0..(x.count - 2) : Elem(y, j) = Elem(x, j + 1)
    BY <2>1, <2>2, PoppedFront
  <2>4. y.startIdx = IF i = r.count THEN 0 ELSE CellAt(r, i)
    BY <1>0, <2>1, <2>3 DEF CellAt
  <2>5. ASSUME NEW j \in 0..(r.count - i - 1) PROVE Elem(y, j) = Elem(r, j + i)
    <3>1. /\ j \in 0..(x.count - 2) /\ j + 1 \in 0..(r.count - (i - 1) - 1)
          /\ (j + 1) + (i - 1) = j + i
      BY <1>0, <2>1
    <3> QED
      BY <2>1, <2>3, <3>1
  <2> QED
    BY <1>0, <2>1, <2>3, <2>4, <2>5 DEF WithoutFront, y
<1>11. WithoutFront(h[n], r, cap, n)
  <2> DEFINE T == { i \in Nat : i <= n => WithoutFront(h[i], r, cap, i) }
  <2>1. 0 \in T
    BY <1>9
  <2>2. ASSUME NEW i \in Nat, i \in T PROVE i + 1 \in T
    <3> SUFFICES ASSUME i + 1 <= n PROVE WithoutFront(h[i + 1], r, cap, i + 1)
      OBVIOUS
    <3>1. i + 1 \in 1..n /\ (i + 1) - 1 = i /\ WithoutFront(h[i], r, cap, i)
      BY <2>2
    <3> QED BY <1>10, <3>1
  <2> HIDE DEF T
  <2>3. Nat \subseteq T
    BY <2>1, <2>2, SetInduction
  <2> QED BY <1>0, <2>3 DEF T
<1> QED
  BY <1>7, <1>11

(* The ring without its last n elements.                                   *)
WithoutBack(new, r, cap, n) ==
    /\ Sound(new, cap) /\ new.count = r.count - n
    /\ new.startIdx = r.startIdx
    /\ \A i \in 0..(r.count - n - 1) : Elem(new, i) = Elem(r, i)

(* Popping n times in the back removes the last n elements.                *)
LEMMA PoppedBacks ==
  ASSUME NEW cap \in Nat, NEW r, Sound(r, cap), NEW n \in 0..r.count
  PROVE  WithoutBack(PopBacks(r, n), r, cap, n)
<1> DEFINE S    == AnyRing(cap)
           R(f) == f = [i \in 0..n |-> IF i = 0 THEN r ELSE PopBack(f[i - 1])]
           h    == CHOOSE f : R(f)
           next == [p \in S \X (1..n) |-> PopBack(p[1])]
<1>0. /\ r.count \in 0..cap /\ n \in Nat /\ r \in S
  BY DEF Sound, AnyRing
<1>1. next \in [S \X (1..n) -> S]
  <2> HIDE DEF S
  <2> QED BY StepTyped DEF S
<1>2. \A s \in S, i \in 1..n : next[<<s, i>>] = PopBack(s)
  <2> HIDE DEF S
  <2> QED OBVIOUS
<1> HIDE DEF next
<1>3. PICK f : f \in Iterates(S, r, next, n)
  BY <1>0, <1>1, IteratesExist
<1>4. /\ f \in [0..n -> S]
      /\ f = [i \in 0..n |-> IF i = 0 THEN r ELSE next[<<f[i - 1], i>>]]
  BY <1>3 DEF Iterates
<1>5. R(f)
  <2>1. ASSUME NEW i \in 0..n, i # 0
        PROVE  next[<<f[i - 1], i>>] = PopBack(f[i - 1])
    <3>1. i \in 1..n /\ i - 1 \in 0..n
      BY <2>1
    <3>2. f[i - 1] \in S
      BY <1>4, <3>1
    <3> HIDE DEF S
    <3> QED
      BY <1>2, <3>1, <3>2
  <2> QED
    BY <1>4, <2>1
<1>6. R(h)
  <2> HIDE DEF R
  <2> QED
    BY <1>5, Zenon
<1>7. PopBacks(r, n) = h[n]
  BY Zenon DEF PopBacks
<1> HIDE DEF h
<1>8. h[0] = r /\ \A i \in 1..n : h[i] = PopBack(h[i - 1])
  <2>1. 0 \in 0..n /\ \A i \in 1..n : i \in 0..n /\ i # 0
    OBVIOUS
  <2> QED
    BY <1>6, <2>1
<1> HIDE DEF R
<1>9. WithoutBack(h[0], r, cap, 0)
  BY <1>0, <1>8 DEF WithoutBack
<1>10. ASSUME NEW i \in 1..n, WithoutBack(h[i - 1], r, cap, i - 1)
       PROVE  WithoutBack(h[i], r, cap, i)
  <2> DEFINE x == h[i - 1]
             y == h[i]
  <2>1. /\ Sound(x, cap) /\ x.count = r.count - (i - 1)
        /\ x.startIdx = r.startIdx
        /\ \A j \in 0..(r.count - (i - 1) - 1) : Elem(x, j) = Elem(r, j)
    BY <1>10 DEF WithoutBack
  <2>2. x.count > 0 /\ y = PopBack(x)
    BY <1>0, <1>8, <2>1
  <2> HIDE DEF x, y
  <2>3. /\ Sound(y, cap) /\ y.startIdx = x.startIdx
        /\ y.count = x.count - 1
        /\ \A j \in 0..(x.count - 2) : Elem(y, j) = Elem(x, j)
    BY <2>1, <2>2, PoppedBack
  <2>4. ASSUME NEW j \in 0..(r.count - i - 1) PROVE Elem(y, j) = Elem(r, j)
    <3>1. j \in 0..(x.count - 2) /\ j \in 0..(r.count - (i - 1) - 1)
      BY <1>0, <2>1
    <3> QED
      BY <2>1, <2>3, <3>1
  <2> QED
    BY <1>0, <2>1, <2>3, <2>4 DEF WithoutBack, y
<1>11. WithoutBack(h[n], r, cap, n)
  <2> DEFINE T == { i \in Nat : i <= n => WithoutBack(h[i], r, cap, i) }
  <2>1. 0 \in T
    BY <1>9
  <2>2. ASSUME NEW i \in Nat, i \in T PROVE i + 1 \in T
    <3> SUFFICES ASSUME i + 1 <= n PROVE WithoutBack(h[i + 1], r, cap, i + 1)
      OBVIOUS
    <3>1. i + 1 \in 1..n /\ (i + 1) - 1 = i /\ WithoutBack(h[i], r, cap, i)
      BY <2>2
    <3> QED BY <1>10, <3>1
  <2> HIDE DEF T
  <2>3. Nat \subseteq T
    BY <2>1, <2>2, SetInduction
  <2> QED BY <1>0, <2>3 DEF T
<1> QED
  BY <1>7, <1>11

(* The ring with the first n elements of a sequence behind its own.        *)
WithBehind(new, r, cap, seq, n) ==
    /\ Sound(new, cap) /\ new.count = r.count + n
    /\ new.startIdx = r.startIdx
    /\ \A i \in 0..(r.count - 1) : Elem(new, i) = Elem(r, i)
    /\ \A i \in 1..n : Elem(new, r.count + i - 1) = seq[i]

(* Pushing a sequence element by element puts it behind the others.        *)
LEMMA PushedBacks ==
  ASSUME NEW cap \in Nat, NEW r, Sound(r, cap), NEW seq \in Seq(Alive),
         r.count + Len(seq) <= cap
  PROVE  WithBehind(PushBacks(r, seq), r, cap, seq, Len(seq))
<1> DEFINE S    == AnyRing(cap)
           n    == Len(seq)
           R(f) == f = [i \in 0..Len(seq) |->
                            IF i = 0 THEN r ELSE PushBackNotFull(f[i - 1], seq[i])]
           h    == CHOOSE f : R(f)
           next == [p \in S \X (1..n) |-> PushBackNotFull(p[1], seq[p[2]])]
<1>0. /\ r.count \in 0..cap /\ n \in Nat /\ r \in S /\ r.count + n <= cap
      /\ \A i \in 1..n : seq[i] \in Alive
  BY DEF Sound, AnyRing
<1> HIDE DEF n
<1>1. next \in [S \X (1..n) -> S]
  <2> HIDE DEF S
  <2> QED BY StepTyped DEF S
<1>2. \A s \in S, i \in 1..n : next[<<s, i>>] = PushBackNotFull(s, seq[i])
  <2> HIDE DEF S
  <2> QED OBVIOUS
<1> HIDE DEF next
<1>3. PICK f : f \in Iterates(S, r, next, n)
  BY <1>0, <1>1, IteratesExist
<1>4. /\ f \in [0..n -> S]
      /\ f = [i \in 0..n |-> IF i = 0 THEN r ELSE next[<<f[i - 1], i>>]]
  BY <1>3 DEF Iterates
<1>5. R(f)
  <2>1. ASSUME NEW i \in 0..n, i # 0
        PROVE  next[<<f[i - 1], i>>] = PushBackNotFull(f[i - 1], seq[i])
    <3>1. i \in 1..n /\ i - 1 \in 0..n
      BY <1>0, <2>1
    <3>2. f[i - 1] \in S
      BY <1>4, <3>1
    <3> HIDE DEF S
    <3> QED
      BY <1>2, <3>1, <3>2
  <2> QED
    BY <1>4, <2>1 DEF n
<1>6. R(h)
  <2> HIDE DEF R
  <2> QED
    BY <1>5, Zenon
<1>7. PushBacks(r, seq) = h[n]
  BY Zenon DEF PushBacks, n
<1> HIDE DEF h
<1>8. h[0] = r /\ \A i \in 1..n : h[i] = PushBackNotFull(h[i - 1], seq[i])
  <2>1. 0 \in 0..n /\ \A i \in 1..n : i \in 0..n /\ i # 0
    BY <1>0
  <2> QED
    BY <1>6, <2>1 DEF n
<1> HIDE DEF R
<1>9. WithBehind(h[0], r, cap, seq, 0)
  BY <1>0, <1>8 DEF WithBehind
<1>10. ASSUME NEW i \in 1..n, WithBehind(h[i - 1], r, cap, seq, i - 1)
       PROVE  WithBehind(h[i], r, cap, seq, i)
  <2> DEFINE x == h[i - 1]
             y == h[i]
  <2>1. /\ Sound(x, cap) /\ x.count = r.count + (i - 1)
        /\ x.startIdx = r.startIdx
        /\ \A j \in 0..(r.count - 1) : Elem(x, j) = Elem(r, j)
        /\ \A j \in 1..(i - 1) : Elem(x, r.count + j - 1) = seq[j]
    BY <1>10 DEF WithBehind
  <2>2. x.count < cap /\ y = PushBackNotFull(x, seq[i]) /\ seq[i] \in Alive
    BY <1>0, <1>8, <2>1
  <2> HIDE DEF x, y
  <2>3. /\ Sound(y, cap) /\ y.startIdx = x.startIdx
        /\ y.count = x.count + 1 /\ Elem(y, x.count) = seq[i]
        /\ \A j \in 0..(x.count - 1) : Elem(y, j) = Elem(x, j)
    BY <2>1, <2>2, PushedBack
  <2>4. ASSUME NEW j \in 0..(r.count - 1) PROVE Elem(y, j) = Elem(r, j)
    <3>1. j \in 0..(x.count - 1)
      BY <1>0, <2>1
    <3> QED
      BY <2>1, <2>3, <3>1
  <2>5. ASSUME NEW j \in 1..i PROVE Elem(y, r.count + j - 1) = seq[j]
    <3>1. CASE j = i
      <4>1. r.count + j - 1 = x.count
        BY <1>0, <2>1, <3>1
      <4> QED
        BY <2>3, <3>1, <4>1
    <3>2. CASE j # i
      <4>1. j \in 1..(i - 1) /\ r.count + j - 1 \in 0..(x.count - 1)
        BY <1>0, <2>1, <3>2
      <4> QED
        BY <2>1, <2>3, <4>1
    <3> QED
      BY <3>1, <3>2
  <2>6. y.count = r.count + i /\ y.startIdx = r.startIdx
    BY <1>0, <2>1, <2>3
  <2> QED
    BY <2>3, <2>4, <2>5, <2>6 DEF WithBehind, y
<1>11. WithBehind(h[n], r, cap, seq, n)
  <2> DEFINE T == { i \in Nat : i <= n => WithBehind(h[i], r, cap, seq, i) }
  <2>1. 0 \in T
    BY <1>9
  <2>2. ASSUME NEW i \in Nat, i \in T PROVE i + 1 \in T
    <3> SUFFICES ASSUME i + 1 <= n PROVE WithBehind(h[i + 1], r, cap, seq, i + 1)
      OBVIOUS
    <3>1. i + 1 \in 1..n /\ (i + 1) - 1 = i /\ WithBehind(h[i], r, cap, seq, i)
      BY <1>0, <2>2
    <3> QED BY <1>10, <3>1
  <2> HIDE DEF T
  <2>3. Nat \subseteq T
    BY <2>1, <2>2, SetInduction
  <2> QED BY <1>0, <2>3 DEF T
<1> QED
  BY <1>7, <1>11 DEF n

(* resize: elements go from the back, or default ones come there.          *)
LEMMA ResizedRing ==
  ASSUME NEW cap \in Nat, NEW r, Sound(r, cap), NEW newSize \in 0..cap
  PROVE  LET new == Resized(r, newSize)
         IN  /\ Sound(new, cap) /\ new.count = newSize
             /\ \A i \in 0..(newSize - 1) :
                    Elem(new, i) = IF i < r.count THEN Elem(r, i) ELSE Default
<1>0. r.count \in 0..cap
  BY DEF Sound
<1>1. CASE r.count <= newSize
  <2> DEFINE n   == newSize - r.count
             seq == [i \in 1..n |-> Default]
  <2>1. n \in Nat /\ r.count + n = newSize
    BY <1>0, <1>1
  <2> HIDE DEF n
  <2>2. seq \in Seq(Alive) /\ Len(seq) = n /\ \A i \in 1..n : seq[i] = Default
    BY <2>1, Lifetimes
  <2>3. Resized(r, newSize) = PushBacks(r, seq)
    BY <1>1, Zenon DEF Resized, n
  <2> HIDE DEF seq
  <2>4. WithBehind(PushBacks(r, seq), r, cap, seq, n)
    BY <1>0, <2>1, <2>2, PushedBacks
  <2> DEFINE new == PushBacks(r, seq)
  <2>5. ASSUME NEW i \in 0..(newSize - 1)
        PROVE  Elem(new, i) = IF i < r.count THEN Elem(r, i) ELSE Default
    <3>1. CASE i < r.count
      <4>1. i \in 0..(r.count - 1)
        BY <1>0, <3>1
      <4> QED
        BY <2>4, <3>1, <4>1 DEF WithBehind
    <3>2. CASE ~ (i < r.count)
      <4>1. i - r.count + 1 \in 1..n /\ r.count + (i - r.count + 1) - 1 = i
        BY <1>0, <2>1, <3>2
      <4>2. Elem(new, r.count + (i - r.count + 1) - 1) = seq[i - r.count + 1]
        BY <2>4, <4>1 DEF WithBehind
      <4> QED
        BY <2>2, <3>2, <4>1, <4>2
    <3> QED
      BY <3>1, <3>2
  <2> QED
    BY <2>1, <2>3, <2>4, <2>5 DEF WithBehind
<1>2. CASE ~ (r.count <= newSize)
  <2> DEFINE n   == r.count - newSize
             new == PopBacks(r, n)
  <2>1. n \in 0..r.count /\ r.count - n = newSize
    BY <1>0, <1>2
  <2>2. Resized(r, newSize) = new
    BY <1>2 DEF Resized
  <2> HIDE DEF n
  <2>3. WithoutBack(new, r, cap, n)
    BY <2>1, PoppedBacks
  <2> HIDE DEF new
  <2>4. \A i \in 0..(newSize - 1) : i < r.count /\ i \in 0..(r.count - n - 1)
    BY <1>0, <1>2, <2>1
  <2> QED
    BY <2>1, <2>2, <2>3, <2>4 DEF WithoutBack
<1> QED
  BY <1>1, <1>2

-----------------------------------------------------------------------------
(* linearise. A range that moves over raw cells leaves raw cells behind.   *)

(* Moving a range towards the beginning of the array is a shift, and what  *)
(* is left of it is raw.                                                   *)
LEMMA MovedDown ==
  ASSUME NEW cap \in Nat, NEW cells \in Cells(cap), NEW from \in Int,
         NEW to \in Int, NEW n \in Nat,
         0 <= to, to < from, from + n <= cap,
         \A c \in 0..(cap - 1) : from <= c /\ c < from + n => cells[c] \in Alive,
         \A c \in 0..(cap - 1) : to <= c /\ c < from => cells[c] = Raw
  PROVE  /\ MoveRange(cells, from, n, to, 1) \in Cells(cap)
         /\ \A c \in 0..(cap - 1) :
                MoveRange(cells, from, n, to, 1)[c] =
                    IF to <= c /\ c < to + n THEN cells[c - to + from]
                    ELSE IF from <= c /\ c < from + n THEN Raw ELSE cells[c]
<1> DEFINE k     == Lesser(n, (1) * (from - to))
           moved == MoveRun(cells, from, to, 1, n, k)
           S     == { from + (1) * i : i \in
                        { j \in 0..(n - 1) : 0 <= (1) * (from + (1) * j - to) - n } }
<1>1. k = IF n < from - to THEN n ELSE from - to
  BY DEF Lesser
<1>2. k \in Int
  BY <1>1
<1> HIDE DEF k
<1>3. /\ 0 <= from /\ to + n <= cap
      /\ \A c \in 0..(cap - 1) : to <= c /\ c < to + n =>
            IF c - to < k THEN cells[c] = Raw ELSE cells[c] \in Alive
  <2>1. ASSUME NEW c \in 0..(cap - 1), to <= c, c < to + n
        PROVE  IF c - to < k THEN cells[c] = Raw ELSE cells[c] \in Alive
    <3>1. CASE c - to < k
      <4>1. c < from
        BY <1>1, <2>1, <3>1
      <4> QED
        BY <2>1, <3>1, <4>1
    <3>2. CASE ~ (c - to < k)
      <4>1. from <= c /\ c < from + n
        BY <1>1, <2>1, <3>2
      <4> QED
        BY <3>2, <4>1
    <3> QED
      BY <3>1, <3>2
  <2> QED
    BY <2>1
<1>4. /\ moved \in Cells(cap)
      /\ \A c \in 0..(cap - 1) :
            moved[c] = IF to <= c /\ c < to + n THEN cells[c - to + from]
                       ELSE IF from <= c /\ c < from + n THEN Moved ELSE cells[c]
  <2>1. ReadyForward(cells, cap, from, to, n, k)
    BY <1>3 DEF ReadyForward
  <2>2. ShiftedForward(moved, cells, cap, from, to, n)
    BY <1>2, <2>1, RunsForward
  <2> QED
    BY <2>2 DEF ShiftedForward
<1>5. \A c \in 0..(cap - 1) :
        c \in S <=> (from <= c /\ c < from + n /\ to + n <= c)
  <2> TAKE c \in 0..(cap - 1)
  <2>1. c \in S => from <= c /\ c < from + n /\ to + n <= c
    OBVIOUS
  <2>2. ASSUME from <= c, c < from + n, to + n <= c PROVE c \in S
    <3>1. c - from \in 0..(n - 1) /\ c = from + (1) * (c - from)
          /\ 0 <= (1) * (from + (1) * (c - from) - to) - n
      BY <2>2
    <3> QED
      BY <3>1
  <2> QED
    BY <2>1, <2>2
<1> HIDE DEF S
<1>6. MoveRange(cells, from, n, to, 1) = Destroy(moved, S)
  BY Zenon DEF MoveRange, S, k
<1> HIDE DEF moved
<1>7. \A c \in 0..(cap - 1) : c \in S => moved[c] \in Alive
  BY <1>4, <1>5, Lifetimes
<1>8. /\ Destroy(moved, S) \in Cells(cap)
      /\ \A c \in 0..(cap - 1) :
            Destroy(moved, S)[c] = IF c \in S THEN Raw ELSE moved[c]
  BY <1>4, <1>7, DestroyTyped, DestroyCells
<1>9. ASSUME NEW c \in 0..(cap - 1)
      PROVE  Destroy(moved, S)[c] =
                IF to <= c /\ c < to + n THEN cells[c - to + from]
                ELSE IF from <= c /\ c < from + n THEN Raw ELSE cells[c]
  BY <1>4, <1>5, <1>8
<1> QED
  BY <1>6, <1>8, <1>9

(* Moving a range towards the end of the array, followed backwards, is a   *)
(* shift, and what is left of it is raw.                                   *)
LEMMA MovedUp ==
  ASSUME NEW cap \in Nat, NEW cells \in Cells(cap), NEW from \in Int,
         NEW to \in Int, NEW n \in Nat,
         from < to, to < cap, n <= from + 1,
         \A c \in 0..(cap - 1) : from - n < c /\ c <= from => cells[c] \in Alive,
         \A c \in 0..(cap - 1) : from < c /\ c <= to => cells[c] = Raw
  PROVE  /\ MoveRange(cells, from, n, to, -1) \in Cells(cap)
         /\ \A c \in 0..(cap - 1) :
                MoveRange(cells, from, n, to, -1)[c] =
                    IF to - n < c /\ c <= to THEN cells[c - to + from]
                    ELSE IF from - n < c /\ c <= from THEN Raw ELSE cells[c]
<1> DEFINE k     == Lesser(n, (-1) * (from - to))
           moved == MoveRun(cells, from, to, -1, n, k)
           S     == { from + (-1) * i : i \in
                        { j \in 0..(n - 1) : 0 <= (-1) * (from + (-1) * j - to) - n } }
<1>1. k = IF n < to - from THEN n ELSE to - from
  BY DEF Lesser
<1>2. k \in Int
  BY <1>1
<1> HIDE DEF k
<1>3. /\ from < cap /\ n <= to + 1
      /\ \A c \in 0..(cap - 1) : to - n < c /\ c <= to =>
            IF to - c < k THEN cells[c] = Raw ELSE cells[c] \in Alive
  <2>1. ASSUME NEW c \in 0..(cap - 1), to - n < c, c <= to
        PROVE  IF to - c < k THEN cells[c] = Raw ELSE cells[c] \in Alive
    <3>1. CASE to - c < k
      <4>1. from < c
        BY <1>1, <2>1, <3>1
      <4> QED
        BY <2>1, <3>1, <4>1
    <3>2. CASE ~ (to - c < k)
      <4>1. from - n < c /\ c <= from
        BY <1>1, <2>1, <3>2
      <4> QED
        BY <3>2, <4>1
    <3> QED
      BY <3>1, <3>2
  <2> QED
    BY <2>1
<1>4. /\ moved \in Cells(cap)
      /\ \A c \in 0..(cap - 1) :
            moved[c] = IF to - n < c /\ c <= to THEN cells[c - to + from]
                       ELSE IF from - n < c /\ c <= from THEN Moved ELSE cells[c]
  <2>1. ReadyBackward(cells, cap, from, to, n, k)
    BY <1>3 DEF ReadyBackward
  <2>2. ShiftedBackward(moved, cells, cap, from, to, n)
    BY <1>2, <2>1, RunsBackward
  <2> QED
    BY <2>2 DEF ShiftedBackward
<1>5. \A c \in 0..(cap - 1) :
        c \in S <=> (from - n < c /\ c <= from /\ c <= to - n)
  <2> TAKE c \in 0..(cap - 1)
  <2>1. c \in S => from - n < c /\ c <= from /\ c <= to - n
    OBVIOUS
  <2>2. ASSUME from - n < c, c <= from, c <= to - n PROVE c \in S
    <3>1. from - c \in 0..(n - 1) /\ c = from + (-1) * (from - c)
          /\ 0 <= (-1) * (from + (-1) * (from - c) - to) - n
      BY <2>2
    <3> QED
      BY <3>1
  <2> QED
    BY <2>1, <2>2
<1> HIDE DEF S
<1>6. MoveRange(cells, from, n, to, -1) = Destroy(moved, S)
  BY Zenon DEF MoveRange, S, k
<1> HIDE DEF moved
<1>7. \A c \in 0..(cap - 1) : c \in S => moved[c] \in Alive
  BY <1>4, <1>5, Lifetimes
<1>8. /\ Destroy(moved, S) \in Cells(cap)
      /\ \A c \in 0..(cap - 1) :
            Destroy(moved, S)[c] = IF c \in S THEN Raw ELSE moved[c]
  BY <1>4, <1>7, DestroyTyped, DestroyCells
<1>9. ASSUME NEW c \in 0..(cap - 1)
      PROVE  Destroy(moved, S)[c] =
                IF to - n < c /\ c <= to THEN cells[c - to + from]
                ELSE IF from - n < c /\ c <= from THEN Raw ELSE cells[c]
  BY <1>4, <1>5, <1>8
<1> QED
  BY <1>6, <1>8, <1>9

(* The elements of a part of a sequence.                                   *)
LEMMA SubSequence ==
  ASSUME NEW S, NEW s \in Seq(S), NEW m \in 1..(Len(s) + 1),
         NEW n \in (m - 1)..Len(s)
  PROVE  /\ SubSeq(s, m, n) \in Seq(S)
         /\ Len(SubSeq(s, m, n)) = n - m + 1
         /\ \A i \in 1..(n - m + 1) : SubSeq(s, m, n)[i] = s[m + i - 1]
OBVIOUS

(* The contents of a sound ring are a sequence of live objects.            *)
LEMMA ContentsFacts ==
  ASSUME NEW cap \in Nat, NEW r, Sound(r, cap)
  PROVE  /\ Contents(r) \in Seq(Alive) /\ Len(Contents(r)) = r.count
         /\ \A i \in 1..r.count : Contents(r)[i] = Elem(r, i - 1)
<1>1. r.count \in Nat /\ \A i \in 0..(r.count - 1) : Elem(r, i) \in Alive
  BY SoundParts
<1>2. Contents(r) = [i \in 1..r.count |-> Elem(r, i - 1)]
  BY DEF Contents, Elem
<1>3. \A i \in 1..r.count : i - 1 \in 0..(r.count - 1)
  BY <1>1
<1>4. Contents(r) \in [1..r.count -> Alive]
  BY <1>1, <1>2, <1>3
<1> QED
  BY <1>1, <1>2, <1>4, FunctionIsSequence

(* The elements are the same and at the same indices.                      *)
SameElements(new, r, cap) ==
    /\ Sound(new, cap) /\ new.count = r.count
    /\ \A i \in 0..(r.count - 1) : Elem(new, i) = Elem(r, i)

(* A ring that has moved as a whole.                                       *)
LEMMA MovedRing ==
  ASSUME NEW cap \in Nat, NEW r, Sound(r, cap), NEW cells \in Cells(cap),
         NEW start \in 0..(cap - 1),
         r.startIdx + r.count <= cap, start + r.count <= cap,
         \A c \in 0..(cap - 1) :
            cells[c] = IF start <= c /\ c < start + r.count
                       THEN r.cells[c - start + r.startIdx]
                       ELSE IF r.startIdx <= c /\ c < r.startIdx + r.count
                       THEN Raw ELSE r.cells[c]
  PROVE  /\ SameElements(With(r, cells, start, r.count), r, cap)
         /\ With(r, cells, start, r.count).startIdx = start
<1> DEFINE new == With(r, cells, start, r.count)
<1>1. /\ r.cells \in Cells(cap) /\ r.capacity = cap /\ r.count \in 0..cap
      /\ r.startIdx \in 0..(cap - 1)
      /\ \A c \in 0..(cap - 1) : IF Occupies(r, c) THEN r.cells[c] \in Alive
                                 ELSE r.cells[c] = Raw
  BY SoundParts
<1>2. \A c \in 0..(cap - 1) :
        Occupies(r, c) <=> r.startIdx <= c /\ c < r.startIdx + r.count
  BY <1>1 DEF Occupies
<1>3. ASSUME NEW c \in 0..(cap - 1), start <= c, c < start + r.count
      PROVE  cells[c] = r.cells[c - start + r.startIdx] /\ cells[c] \in Alive
  <2>1. c - start + r.startIdx \in 0..(cap - 1) /\ Occupies(r, c - start + r.startIdx)
    BY <1>1, <1>3 DEF Occupies
  <2>2. r.cells[c - start + r.startIdx] \in Alive
    BY <1>1, <2>1
  <2> QED
    BY <1>3, <2>2
<1>4. \A c \in 0..(cap - 1) :
        ~ (start <= c /\ c < start + r.count) => cells[c] = Raw
  BY <1>1, <1>2
<1>5. Fits(cells, cap, start, r.count)
  <2>1. \A c \in 0..(cap - 1) : ~ (c < start + r.count - cap)
    BY <1>1
  <2> QED
    BY <1>3, <1>4, <2>1 DEF Fits
<1>6. /\ Sound(new, cap) /\ new.cells = cells /\ new.startIdx = start
      /\ new.count = r.count
  BY <1>1, <1>5, SoundRing
<1>7. new.capacity = cap
  BY <1>6, SoundParts
<1> HIDE DEF new
<1>8. ASSUME NEW i \in 0..(r.count - 1) PROVE Elem(new, i) = Elem(r, i)
  <2>1. /\ CellAt(new, i) = start + i /\ CellAt(r, i) = r.startIdx + i
        /\ start + i \in 0..(cap - 1) /\ start <= start + i /\ start + i < start + r.count
        /\ (start + i) - start + r.startIdx = r.startIdx + i
    BY <1>1, <1>6, <1>7 DEF CellAt
  <2>2. cells[start + i] = r.cells[r.startIdx + i]
    BY <1>3, <2>1
  <2> QED
    BY <1>6, <2>1, <2>2 DEF Elem
<1> QED
  BY <1>6, <1>8 DEF SameElements, new

(* Moving the elements to the end of the array changes none of them.       *)
LEMMA GoneToTheEnd ==
  ASSUME NEW cap \in Nat, NEW r, Sound(r, cap),
         r.startIdx = 0, 0 < r.count, r.count < cap
  PROVE  /\ SameElements(ToTheEnd(r), r, cap)
         /\ ToTheEnd(r).startIdx = cap - r.count
<1> DEFINE cells == MoveRange(r.cells, r.count - 1, r.count, r.capacity - 1, -1)
           start == cap - r.count
<1>1. /\ r.cells \in Cells(cap) /\ r.capacity = cap /\ r.count \in 0..cap
      /\ \A c \in 0..(cap - 1) : IF Occupies(r, c) THEN r.cells[c] \in Alive
                                 ELSE r.cells[c] = Raw
  BY SoundParts
<1>2. \A c \in 0..(cap - 1) : Occupies(r, c) <=> c < r.count
  BY <1>1 DEF Occupies
<1>3. /\ \A c \in 0..(cap - 1) :
            (r.count - 1) - r.count < c /\ c <= r.count - 1 => r.cells[c] \in Alive
      /\ \A c \in 0..(cap - 1) :
            r.count - 1 < c /\ c <= cap - 1 => r.cells[c] = Raw
  BY <1>1, <1>2
<1>4. /\ r.count - 1 \in Int /\ cap - 1 \in Int /\ r.count \in Nat
      /\ r.count - 1 < cap - 1 /\ cap - 1 < cap /\ r.count <= (r.count - 1) + 1
  BY <1>1
<1>5. /\ cells \in Cells(cap)
      /\ \A c \in 0..(cap - 1) :
            cells[c] = IF (cap - 1) - r.count < c /\ c <= cap - 1
                       THEN r.cells[c - (cap - 1) + (r.count - 1)]
                       ELSE IF (r.count - 1) - r.count < c /\ c <= r.count - 1
                       THEN Raw ELSE r.cells[c]
  BY <1>1, <1>3, <1>4, MovedUp
<1> HIDE DEF cells
<1>6. \A c \in 0..(cap - 1) :
        cells[c] = IF start <= c /\ c < start + r.count
                   THEN r.cells[c - start + r.startIdx]
                   ELSE IF r.startIdx <= c /\ c < r.startIdx + r.count
                   THEN Raw ELSE r.cells[c]
  <2> TAKE c \in 0..(cap - 1)
  <2>1. /\ ((cap - 1) - r.count < c /\ c <= cap - 1)
                <=> (start <= c /\ c < start + r.count)
        /\ ((r.count - 1) - r.count < c /\ c <= r.count - 1)
                <=> (r.startIdx <= c /\ c < r.startIdx + r.count)
        /\ c - (cap - 1) + (r.count - 1) = c - start + r.startIdx
    BY <1>1
  <2> HIDE DEF start
  <2> QED
    BY <1>5, <2>1
<1>7. start \in 0..(cap - 1) /\ r.startIdx + r.count <= cap /\ start + r.count <= cap
  BY <1>1
<1>8. ToTheEnd(r) = With(r, cells, start, r.count)
  BY <1>1 DEF ToTheEnd, With, cells, Sound, AnyRing
<1> HIDE DEF start
<1>9. /\ SameElements(With(r, cells, start, r.count), r, cap)
      /\ With(r, cells, start, r.count).startIdx = start
  BY <1>5, <1>6, <1>7, MovedRing
<1> QED
  BY <1>8, <1>9 DEF start

(* It keeps a ring a ring even where it is not to be used.                 *)
LEMMA ToTheEndTyped ==
  ASSUME NEW cap \in Nat, NEW r \in AnyRing(cap)
  PROVE  ToTheEnd(r) \in AnyRing(cap)
<1> DEFINE cells == MoveRange(r.cells, r.count - 1, r.count, r.capacity - 1, -1)
           k     == Lesser(r.count, (-1) * ((r.count - 1) - (r.capacity - 1)))
           moved == MoveRun(r.cells, r.count - 1, r.capacity - 1, -1, r.count, k)
<1>1. /\ r.cells \in Cells(cap) /\ r.capacity = cap
      /\ r.startIdx \in Int /\ r.count \in Nat
  BY DEF AnyRing
<1>2. k \in Int /\ -1 \in {-1, 1} /\ r.count - 1 \in Int /\ r.capacity - 1 \in Int
  BY <1>1 DEF Lesser
<1>3. PICK run : IsRun(run, cap, r.cells, r.count - 1, r.capacity - 1, -1, r.count, k)
  <2> HIDE DEF k
  <2> QED
    BY <1>1, <1>2, MoveRunLoop
<1>4. moved \in Cells(cap)
  <2>1. run[r.count] \in Cells(cap) /\ moved = run[r.count]
    BY <1>1, <1>3 DEF IsRun
  <2> QED
    BY <2>1
<1>5. cells \in Cells(cap)
  <2> DEFINE S == { (r.count - 1) + (-1) * i : i \in
                        { j \in 0..(r.count - 1) :
                            0 <= (-1) * ((r.count - 1) + (-1) * j - (r.capacity - 1))
                                 - r.count } }
  <2>1. cells = Destroy(moved, S)
    BY Zenon DEF MoveRange
  <2> HIDE DEF S, moved
  <2> QED
    BY <1>4, <2>1, DestroyTyped
<1>6. ToTheEnd(r) = With(r, cells, r.capacity - r.count, r.count)
  BY DEF ToTheEnd, With, AnyRing
<1> HIDE DEF cells
<1>7. r.capacity - r.count \in Int
  BY <1>1
<1> QED
  BY <1>1, <1>5, <1>6, <1>7, WithTyped

(* What a ring that is wrapped looks like.                                 *)
LEMMA Wrapped ==
  ASSUME NEW cap \in Nat, NEW r, Sound(r, cap), ~ Linearised(r)
  PROVE  /\ cap < r.startIdx + r.count /\ 0 < r.count /\ 0 < r.startIdx
         /\ ArrayOne(r) = <<r.startIdx, cap>>
         /\ ArrayTwo(r) = <<0, r.startIdx + r.count - cap>>
         /\ SizeOf(ArrayOne(r)) = cap - r.startIdx
         /\ SizeOf(ArrayTwo(r)) = r.startIdx + r.count - cap
<1>1. /\ r.capacity = cap /\ r.count \in 0..cap /\ r.startIdx \in 0..(cap - 1)
  BY SoundParts
<1>2. cap < r.startIdx + r.count /\ 0 < r.count /\ 0 < r.startIdx
  BY <1>1 DEF Linearised, IsEmpty
<1>3. ArrayOne(r) = <<r.startIdx, cap>>
  BY <1>1, <1>2 DEF ArrayOne, Lesser
<1>4. ArrayTwo(r) = <<0, r.startIdx + r.count - cap>>
  BY <1>1 DEF ArrayTwo
<1> QED
  BY <1>1, <1>2, <1>3, <1>4 DEF SizeOf

(* The rest with the last i elements of the first range put back.          *)
PutBack(x, r, cap, n, i) ==
    /\ Sound(x, cap) /\ x.count = r.count - n + i
    /\ IF i = 0 THEN x.startIdx = 0 ELSE x.startIdx + x.count = cap
    /\ \A j \in 0..(r.count - n + i - 1) : Elem(x, j) = Elem(r, n - i + j)

(* linearise(), when it pops the first range: the same elements, in one    *)
(* range.                                                                  *)
LEMMA LinearisedByPopOne ==
  ASSUME NEW cap \in Nat, NEW r, Sound(r, cap), ~ Linearised(r)
  PROVE  /\ SameElements(LineariseByPopOne(r), r, cap)
         /\ Linearised(LineariseByPopOne(r))
<1> DEFINE S      == AnyRing(cap)
           n      == SizeOf(ArrayOne(r))
           first  == PopFronts(r, n)
           G(x, i) == PushFrontNotFull(IF x.startIdx = 0 THEN ToTheEnd(x) ELSE x,
                                       Contents(r)[n - i + 1])
           R(f)   == f = [i \in 0..n |->
                            IF i = 0 THEN first
                            ELSE LET inner == f[i - 1]
                                     rest  == IF inner.startIdx = 0
                                              THEN ToTheEnd(inner) ELSE inner
                                 IN  PushFrontNotFull(rest, Contents(r)[n - i + 1])]
           Q(f)   == f = [i \in 0..n |-> IF i = 0 THEN first ELSE G(f[i - 1], i)]
           h      == CHOOSE f : R(f)
           next   == [p \in S \X (1..n) |-> G(p[1], p[2])]
<1>0. /\ n = cap - r.startIdx /\ n \in 1..(r.count - 1) /\ n \in Nat /\ n \in 0..r.count
      /\ r.count \in 0..cap /\ r.startIdx \in 0..(cap - 1) /\ r.capacity = cap
  BY SoundParts, Wrapped
<1>a. \A i \in 1..n : /\ Contents(r)[n - i + 1] = Elem(r, n - i)
                      /\ Elem(r, n - i) \in Alive
  <2> TAKE i \in 1..n
  <2>1. n - i + 1 \in 1..r.count /\ (n - i + 1) - 1 = n - i /\ n - i \in 0..(r.count - 1)
    BY <1>0
  <2> QED
    BY <2>1, ContentsFacts, SoundParts
<1>b. WithoutFront(first, r, cap, n)
  <2> HIDE DEF n
  <2> QED
    BY <1>0, PoppedFronts
<1> HIDE DEF n
<1>c. first \in S
  BY <1>b DEF WithoutFront, Sound
<1> HIDE DEF first
<1>1. \A s \in S, i \in 1..n : G(s, i) \in S
  <2> TAKE s \in S, i \in 1..n
  <2>1. (IF s.startIdx = 0 THEN ToTheEnd(s) ELSE s) \in AnyRing(cap)
    BY ToTheEndTyped
  <2> QED
    BY <2>1, StepTyped
<1>2. \A s \in S, i \in 1..n : next[<<s, i>>] = G(s, i)
  <2> HIDE DEF S, G
  <2> QED OBVIOUS
<1>d. next \in [S \X (1..n) -> S]
  <2> HIDE DEF S, G
  <2> QED BY <1>1
<1> HIDE DEF next
<1>3. PICK f : f \in Iterates(S, first, next, n)
  <2>1. n \in Nat
    BY <1>0
  <2> HIDE DEF S, G, R, Q, h
  <2>2. Iterates(S, first, next, n) # {}
    BY <1>c, <1>d, <2>1, IteratesExist
  <2> QED
    BY <2>2
<1>4. /\ f \in [0..n -> S]
      /\ f = [i \in 0..n |-> IF i = 0 THEN first ELSE next[<<f[i - 1], i>>]]
  BY <1>3 DEF Iterates
<1>5. Q(f)
  <2>1. ASSUME NEW i \in 0..n, i # 0
        PROVE  next[<<f[i - 1], i>>] = G(f[i - 1], i)
    <3>1. i \in 1..n /\ i - 1 \in 0..n
      BY <1>0, <2>1
    <3>2. f[i - 1] \in S
      BY <1>4, <3>1
    <3> HIDE DEF S, G
    <3> QED
      BY <1>2, <3>1, <3>2
  <2> HIDE DEF G
  <2> QED
    BY <1>4, <2>1
<1>e. R(f)
  BY <1>5, Zenon
<1>6. R(h)
  <2> HIDE DEF R
  <2> QED
    BY <1>e, Zenon
<1>7. LineariseByPopOne(r) = h[n]
  BY Zenon DEF LineariseByPopOne, n, first
<1>f. Q(h)
  BY <1>6, Zenon
<1> HIDE DEF h, R
<1>8. h[0] = first /\ \A i \in 1..n : h[i] = G(h[i - 1], i)
  <2>1. 0 \in 0..n /\ \A i \in 1..n : i \in 0..n /\ i # 0
    BY <1>0
  <2> HIDE DEF G
  <2> QED
    BY <1>f, <2>1
<1>9. PutBack(h[0], r, cap, n, 0)
  <2>1. first.startIdx = 0
    BY <1>0, <1>b DEF WithoutFront, CellAt
  <2>2. ASSUME NEW j \in 0..(r.count - n + 0 - 1)
        PROVE  Elem(first, j) = Elem(r, n - 0 + j)
    <3>1. j \in 0..(r.count - n - 1) /\ n - 0 + j = j + n
      BY <1>0
    <3> QED
      BY <1>b, <3>1 DEF WithoutFront
  <2>3. Sound(first, cap) /\ first.count = r.count - n + 0
    BY <1>0, <1>b DEF WithoutFront
  <2>4. PutBack(first, r, cap, n, 0)
    BY <2>1, <2>2, <2>3 DEF PutBack
  <2> QED
    BY <1>8, <2>4
<1>10. ASSUME NEW i \in 1..n, PutBack(h[i - 1], r, cap, n, i - 1)
       PROVE  PutBack(h[i], r, cap, n, i)
  <2> DEFINE x == h[i - 1]
             z == IF x.startIdx = 0 THEN ToTheEnd(x) ELSE x
             y == h[i]
             e == Elem(r, n - i)
  <2>1. /\ Sound(x, cap) /\ x.count = r.count - n + (i - 1)
        /\ IF i - 1 = 0 THEN x.startIdx = 0 ELSE x.startIdx + x.count = cap
        /\ \A j \in 0..(r.count - n + (i - 1) - 1) : Elem(x, j) = Elem(r, n - (i - 1) + j)
    BY <1>10 DEF PutBack
  <2>2. y = PushFrontNotFull(z, e) /\ e \in Alive
    BY <1>8, <1>a
  <2> HIDE DEF x, y, e
  <2>3. /\ 0 < x.count /\ x.count < cap /\ x.startIdx \in 0..(cap - 1)
        /\ x.count \in Nat
    BY <1>0, <2>1, SoundParts
  <2>4. SameElements(z, x, cap) /\ z.startIdx + z.count = cap /\ z.startIdx # 0
    <3>1. CASE x.startIdx = 0
      <4>1. SameElements(ToTheEnd(x), x, cap) /\ ToTheEnd(x).startIdx = cap - x.count
        BY <2>1, <2>3, <3>1, GoneToTheEnd
      <4>2. z = ToTheEnd(x)
        BY <3>1
      <4>3. z.count = x.count /\ z.startIdx = cap - x.count
        BY <4>1, <4>2 DEF SameElements
      <4> HIDE DEF z
      <4> QED
        BY <2>3, <4>1, <4>2, <4>3
    <3>2. CASE x.startIdx # 0
      BY <1>0, <2>1, <2>3, <3>2 DEF SameElements
    <3> QED
      BY <3>1, <3>2
  <2> HIDE DEF z
  <2>5. Sound(z, cap) /\ z.count = x.count /\ z.count < cap
    BY <2>3, <2>4 DEF SameElements
  <2>6. /\ Sound(y, cap)
        /\ y.startIdx = IF z.startIdx = 0 THEN cap - 1 ELSE z.startIdx - 1
        /\ y.count = z.count + 1 /\ Elem(y, 0) = e
        /\ \A j \in 0..(z.count - 1) : Elem(y, j + 1) = Elem(z, j)
    BY <2>2, <2>5, PushedFront
  <2>7. y.count = r.count - n + i /\ y.startIdx + y.count = cap
    <3>1. z.startIdx \in 0..(cap - 1)
      BY <2>5, SoundParts
    <3> QED
      BY <1>0, <2>1, <2>4, <2>5, <2>6, <3>1
  <2>8. ASSUME NEW j \in 0..(r.count - n + i - 1) PROVE Elem(y, j) = Elem(r, n - i + j)
    <3>1. CASE j = 0
      BY <1>0, <2>6, <3>1 DEF e
    <3>2. CASE j # 0
      <4>1. /\ j - 1 \in 0..(z.count - 1) /\ (j - 1) + 1 = j
            /\ j - 1 \in 0..(x.count - 1)
            /\ j - 1 \in 0..(r.count - n + (i - 1) - 1)
            /\ n - (i - 1) + (j - 1) = n - i + j
        BY <1>0, <2>1, <2>5, <3>2
      <4>2. Elem(y, j) = Elem(z, j - 1)
        BY <2>6, <4>1
      <4>3. Elem(z, j - 1) = Elem(x, j - 1)
        BY <2>4, <4>1 DEF SameElements
      <4> QED
        BY <2>1, <4>1, <4>2, <4>3
    <3> QED
      BY <3>1, <3>2
  <2>9. i # 0
    OBVIOUS
  <2> QED
    BY <2>6, <2>7, <2>8, <2>9 DEF PutBack, y
<1>11. PutBack(h[n], r, cap, n, n)
  <2> DEFINE T == { i \in Nat : i <= n => PutBack(h[i], r, cap, n, i) }
  <2>1. 0 \in T
    BY <1>9
  <2>2. ASSUME NEW i \in Nat, i \in T PROVE i + 1 \in T
    <3> SUFFICES ASSUME i + 1 <= n PROVE PutBack(h[i + 1], r, cap, n, i + 1)
      OBVIOUS
    <3>1. i + 1 \in 1..n /\ (i + 1) - 1 = i /\ PutBack(h[i], r, cap, n, i)
      BY <1>0, <2>2
    <3> QED BY <1>10, <3>1
  <2> HIDE DEF T
  <2>3. Nat \subseteq T
    BY <2>1, <2>2, SetInduction
  <2> QED BY <1>0, <2>3 DEF T
<1> DEFINE end == h[n]
<1>12. /\ Sound(end, cap) /\ end.count = r.count /\ end.startIdx + end.count = cap
       /\ \A j \in 0..(r.count - 1) : Elem(end, j) = Elem(r, j)
  <2>1. /\ Sound(end, cap) /\ end.count = r.count - n + n
        /\ IF n = 0 THEN end.startIdx = 0 ELSE end.startIdx + end.count = cap
        /\ \A j \in 0..(r.count - n + n - 1) : Elem(end, j) = Elem(r, n - n + j)
    BY <1>11 DEF PutBack
  <2>2. r.count - n + n = r.count /\ n # 0 /\ \A j \in 0..(r.count - 1) : n - n + j = j
    BY <1>0
  <2> HIDE DEF end
  <2>3. ASSUME NEW j \in 0..(r.count - 1) PROVE Elem(end, j) = Elem(r, j)
    <3>1. j \in 0..(r.count - n + n - 1) /\ n - n + j = j
      BY <1>0, <2>2
    <3> QED
      BY <2>1, <3>1
  <2>4. end.count = r.count /\ end.startIdx + end.count = cap
    BY <2>1, <2>2
  <2> QED
    BY <2>1, <2>3, <2>4
<1> HIDE DEF end
<1>13. end.capacity = cap
  BY <1>12, SoundParts
<1>14. SameElements(end, r, cap) /\ Linearised(end)
  BY <1>0, <1>12, <1>13 DEF SameElements, Linearised
<1> QED
  BY <1>7, <1>14 DEF end

(* linearise(), when it pops the second range: the same elements, in one   *)
(* range.                                                                  *)
LEMMA LinearisedByPopTwo ==
  ASSUME NEW cap \in Nat, NEW r, Sound(r, cap), ~ Linearised(r)
  PROVE  /\ SameElements(LineariseByPopTwo(r), r, cap)
         /\ Linearised(LineariseByPopTwo(r))
<1> DEFINE n     == SizeOf(ArrayTwo(r))
           first == PopBacks(r, n)
           cells == MoveRange(first.cells, first.startIdx, first.count, 0, 1)
           rest  == With(first, cells, 0, first.count)
           seq   == SubSeq(Contents(r), r.count - n + 1, r.count)
           end   == PushBacks(rest, seq)
<1>0. /\ n = r.startIdx + r.count - cap /\ n \in 1..r.count /\ n \in 0..r.count
      /\ r.count \in 1..cap /\ r.startIdx \in 1..(cap - 1) /\ r.capacity = cap
  BY SoundParts, Wrapped
<1> HIDE DEF n
<1>1. WithoutBack(first, r, cap, n)
  BY <1>0, PoppedBacks
<1> HIDE DEF first
<1>2. /\ Sound(first, cap) /\ first.count = cap - r.startIdx
      /\ first.startIdx = r.startIdx /\ first.count \in 1..(cap - 1)
      /\ \A j \in 0..(r.count - n - 1) : Elem(first, j) = Elem(r, j)
  BY <1>0, <1>1 DEF WithoutBack
<1>3. /\ first.cells \in Cells(cap) /\ first.capacity = cap
      /\ \A c \in 0..(cap - 1) : IF Occupies(first, c) THEN first.cells[c] \in Alive
                                 ELSE first.cells[c] = Raw
  BY <1>2, SoundParts
<1>4. \A c \in 0..(cap - 1) : Occupies(first, c) <=> first.startIdx <= c
  BY <1>0, <1>2, <1>3 DEF Occupies
<1>5. /\ first.startIdx \in Int /\ 0 \in Int /\ first.count \in Nat /\ 0 <= 0
      /\ 0 < first.startIdx /\ first.startIdx + first.count <= cap
      /\ \A c \in 0..(cap - 1) :
            first.startIdx <= c /\ c < first.startIdx + first.count
                => first.cells[c] \in Alive
      /\ \A c \in 0..(cap - 1) :
            0 <= c /\ c < first.startIdx => first.cells[c] = Raw
  BY <1>0, <1>2, <1>3, <1>4
<1>6. /\ cells \in Cells(cap)
      /\ \A c \in 0..(cap - 1) :
            cells[c] = IF 0 <= c /\ c < 0 + first.count
                       THEN first.cells[c - 0 + first.startIdx]
                       ELSE IF first.startIdx <= c /\ c < first.startIdx + first.count
                       THEN Raw ELSE first.cells[c]
  BY <1>3, <1>5, MovedDown
<1> HIDE DEF cells
<1>7. /\ 0 \in 0..(cap - 1) /\ 0 + first.count <= cap
  BY <1>0, <1>2
<1>8. SameElements(rest, first, cap) /\ rest.startIdx = 0
  BY <1>2, <1>5, <1>6, <1>7, MovedRing
<1>9. LineariseByPopTwo(r) = end
  <2>1. rest = [first EXCEPT !.cells = cells, !.startIdx = 0]
    BY <1>2 DEF With, Sound, AnyRing
  <2>2. first.startIdx # 0
    BY <1>0, <1>2
  <2> HIDE DEF rest
  <2>3. rest = IF first.startIdx = 0 THEN first
               ELSE [first EXCEPT
                        !.cells = MoveRange(@, first.startIdx, first.count, 0, 1),
                        !.startIdx = 0]
    BY <2>1, <2>2 DEF cells
  <2> QED
    BY <2>3, Zenon DEF LineariseByPopTwo, n, first
<1> HIDE DEF rest
<1>10. Sound(rest, cap) /\ rest.count = first.count /\ rest.count + n = r.count
       /\ r.count - n = rest.count
  BY <1>0, <1>2, <1>8 DEF SameElements
<1>11. /\ seq \in Seq(Alive) /\ Len(seq) = n
       /\ \A i \in 1..n : seq[i] = Elem(r, rest.count + i - 1)
  <2>1. /\ Contents(r) \in Seq(Alive) /\ Len(Contents(r)) = r.count
        /\ \A i \in 1..r.count : Contents(r)[i] = Elem(r, i - 1)
    BY ContentsFacts
  <2>2. /\ seq \in Seq(Alive) /\ Len(seq) = n
        /\ \A i \in 1..n : seq[i] = Contents(r)[r.count - n + i]
    <3> DEFINE s == Contents(r)
               m == r.count - n + 1
    <3>1. /\ s \in Seq(Alive) /\ m \in 1..(Len(s) + 1) /\ r.count \in (m - 1)..Len(s)
          /\ r.count - m + 1 = n /\ \A i \in 1..n : m + i - 1 = r.count - n + i
      <4>1. r.count \in Nat /\ n \in Nat /\ 1 <= n /\ n <= r.count
        BY <1>0
      <4>2. s \in Seq(Alive) /\ Len(s) = r.count
        BY <2>1
      <4> HIDE DEF s
      <4>3. m \in 1..(r.count + 1) /\ r.count \in (m - 1)..r.count
        BY <4>1
      <4>4. r.count - m + 1 = n /\ \A i \in 1..n : m + i - 1 = r.count - n + i
        BY <4>1
      <4> HIDE DEF m
      <4> QED
        BY <4>2, <4>3, <4>4
    <3> HIDE DEF s, m
    <3>2. /\ SubSeq(s, m, r.count) \in Seq(Alive)
          /\ Len(SubSeq(s, m, r.count)) = r.count - m + 1
          /\ \A i \in 1..(r.count - m + 1) :
                SubSeq(s, m, r.count)[i] = s[m + i - 1]
      BY <3>1, SubSequence
    <3> QED
      BY <3>1, <3>2 DEF s, m
  <2>3. \A i \in 1..n : /\ r.count - n + i \in 1..r.count
                        /\ (r.count - n + i) - 1 = rest.count + i - 1
    BY <1>0, <1>10
  <2> HIDE DEF seq
  <2> QED
    BY <2>1, <2>2, <2>3
<1> HIDE DEF seq
<1>12. WithBehind(end, rest, cap, seq, n)
  BY <1>0, <1>10, <1>11, PushedBacks
<1> HIDE DEF end
<1>13. ASSUME NEW i \in 0..(r.count - 1) PROVE Elem(end, i) = Elem(r, i)
  <2>1. CASE i < rest.count
    <3>1. i \in 0..(rest.count - 1) /\ i \in 0..(first.count - 1)
          /\ i \in 0..(r.count - n - 1)
      BY <1>0, <1>2, <1>10, <2>1
    <3> QED
      BY <1>2, <1>8, <1>12, <3>1 DEF WithBehind, SameElements
  <2>2. CASE ~ (i < rest.count)
    <3>1. i - rest.count + 1 \in 1..n /\ rest.count + (i - rest.count + 1) - 1 = i
      BY <1>0, <1>2, <1>10, <2>2
    <3>2. Elem(end, rest.count + (i - rest.count + 1) - 1) = seq[i - rest.count + 1]
      BY <1>12, <3>1 DEF WithBehind
    <3> QED
      BY <1>11, <3>1, <3>2
  <2> QED
    BY <2>1, <2>2
<1>14. Sound(end, cap) /\ end.count = r.count /\ end.startIdx = 0
  BY <1>8, <1>10, <1>12 DEF WithBehind
<1>15. SameElements(end, r, cap) /\ Linearised(end)
  <2>1. end.capacity = cap
    BY <1>14, SoundParts
  <2> QED
    BY <1>0, <1>13, <1>14, <2>1 DEF SameElements, Linearised
<1> QED
  BY <1>9, <1>15

(* The elements have been laid out in one range of a new array.            *)
LEMMA LaidOut ==
  ASSUME NEW cap \in Nat, NEW r, Sound(r, cap), NEW cells \in Cells(cap),
         NEW start \in 0..(cap - 1), start + r.count <= cap,
         \A i \in 0..(r.count - 1) : cells[start + i] = Elem(r, i),
         \A c \in 0..(cap - 1) :
            ~ (start <= c /\ c < start + r.count) => cells[c] = Raw
  PROVE  /\ SameElements(With(r, cells, start, r.count), r, cap)
         /\ Linearised(With(r, cells, start, r.count))
<1> DEFINE new == With(r, cells, start, r.count)
<1>1. /\ r.count \in 0..cap /\ \A i \in 0..(r.count - 1) : Elem(r, i) \in Alive
  BY SoundParts
<1>2. Fits(cells, cap, start, r.count)
  <2>1. ASSUME NEW c \in 0..(cap - 1), start <= c, c < start + r.count
        PROVE  cells[c] \in Alive
    <3>1. c - start \in 0..(r.count - 1) /\ start + (c - start) = c
      BY <1>1, <2>1
    <3>2. cells[start + (c - start)] = Elem(r, c - start)
      BY <3>1
    <3> QED
      BY <1>1, <3>1, <3>2
  <2>2. \A c \in 0..(cap - 1) : ~ (c < start + r.count - cap)
    BY <1>1
  <2> QED
    BY <2>1, <2>2 DEF Fits
<1>3. /\ Sound(new, cap) /\ new.cells = cells /\ new.startIdx = start
      /\ new.count = r.count
  BY <1>1, <1>2, SoundRing
<1>4. new.capacity = cap
  BY <1>3, SoundParts
<1> HIDE DEF new
<1>5. ASSUME NEW i \in 0..(r.count - 1) PROVE Elem(new, i) = Elem(r, i)
  <2>1. CellAt(new, i) = start + i
    BY <1>1, <1>3, <1>4 DEF CellAt
  <2> QED
    BY <1>3, <2>1 DEF Elem
<1> QED
  BY <1>3, <1>4, <1>5 DEF SameElements, Linearised, new

(* The cells of a wrapped ring, and of the one made of it by               *)
(* lineariseByMove, followed forwards.                                     *)
Gapped(cells, cap, s, n2) ==
    \A c \in 0..(cap - 1) : IF s <= c \/ c < n2 THEN cells[c] \in Alive
                            ELSE cells[c] = Raw

JoinedForwards(new, cells, cap, s, n1, n2) ==
    /\ new \in Cells(cap)
    /\ \A c \in 0..(cap - 1) :
          new[c] = IF n2 <= c /\ c < n1 + n2 THEN cells[c - n2 + s]
                   ELSE IF n1 + n2 <= c /\ c < n1 + n2 + n2
                   THEN cells[c - (n1 + n2)] ELSE Raw

(* lineariseByMove, followed forwards: n1 cells from s on go behind the n2 *)
(* at the beginning, and these behind them.                                *)
LEMMA MovedForwards ==
  ASSUME NEW cap \in Nat, NEW cells \in Cells(cap), NEW s \in 1..(cap - 1),
         NEW n1 \in Nat, NEW n2 \in Nat, NEW gap \in Nat,
         n1 = cap - s, 0 < n2, gap = cap - (n1 + n2), n2 <= gap,
         Gapped(cells, cap, s, n2)
  PROVE  JoinedForwards(LineariseByMove(cells, s, n1, 0, n2, 1, gap),
                        cells, cap, s, n1, n2)
<1> USE DEF Gapped
<1> DEFINE behind == 0 + (1) * n2
           onward == behind + (1) * n1
           end    == onward + (1) * n2
           space  == (1) * (s - onward)
           k1     == Lesser(n1, gap)
           k2     == IF 0 < space THEN Lesser(space, n2) ELSE 0
           one    == MoveRun(cells, s, behind, 1, n1, k1)
           two    == MoveRun(one, 0, onward, 1, n2, k2)
           S      == { s + (1) * i : i \in
                        { j \in 0..(n1 - 1) : 0 <= (1) * (s + (1) * j - end) } }
                     \cup { 0 + (1) * i : i \in 0..(n2 - 1) }
<1>1. /\ behind = n2 /\ onward = n1 + n2 /\ end = n1 + n2 + n2
      /\ space = s - (n1 + n2) /\ s = n2 + gap
      /\ behind \in Int /\ onward \in Int /\ end \in Int
  OBVIOUS
<1>2. LineariseByMove(cells, s, n1, 0, n2, 1, gap) = Destroy(two, S)
  BY Zenon DEF LineariseByMove
<1>3. \A c \in 0..(cap - 1) :
        c \in S <=> (s <= c /\ n1 + n2 + n2 <= c) \/ c < n2
  <2> TAKE c \in 0..(cap - 1)
  <2>1. c \in S => (s <= c /\ n1 + n2 + n2 <= c) \/ c < n2
    OBVIOUS
  <2>2. ASSUME s <= c, n1 + n2 + n2 <= c PROVE c \in S
    <3>1. c - s \in 0..(n1 - 1) /\ c = s + (1) * (c - s)
          /\ 0 <= (1) * (s + (1) * (c - s) - end)
      BY <2>2
    <3> QED
      BY <3>1
  <2>3. ASSUME c < n2 PROVE c \in S
    <3>1. c \in 0..(n2 - 1) /\ c = 0 + (1) * c
      BY <2>3
    <3> QED
      BY <3>1
  <2> QED
    BY <2>1, <2>2, <2>3
<1> HIDE DEF S
<1>4. k1 = IF n1 < gap THEN n1 ELSE gap
  BY DEF Lesser
<1>5. k2 = IF 0 < space THEN IF space < n2 THEN space ELSE n2 ELSE 0
  BY DEF Lesser
<1>6. k1 \in Int /\ k2 \in Int
  BY <1>1, <1>4, <1>5
<1> HIDE DEF k1, k2, behind, onward, end, space
<1>7. ShiftedForward(one, cells, cap, s, behind, n1)
  <2>1. \A c \in 0..(cap - 1) : behind <= c /\ c < behind + n1 =>
            IF c - behind < k1 THEN cells[c] = Raw ELSE cells[c] \in Alive
    <3> TAKE c \in 0..(cap - 1)
    <3>1. behind <= c /\ c < behind + n1 => (c - behind < k1 <=> ~ (s <= c \/ c < n2))
      BY <1>1, <1>4
    <3> QED
      BY <3>1
  <2>2. ReadyForward(cells, cap, s, behind, n1, k1)
    BY <1>1, <2>1 DEF ReadyForward
  <2> QED
    BY <1>1, <1>6, <2>2, RunsForward
<1>8. /\ one \in Cells(cap)
      /\ \A c \in 0..(cap - 1) :
            one[c] = IF n2 <= c /\ c < n1 + n2 THEN cells[c - n2 + s]
                     ELSE IF s <= c THEN Moved ELSE cells[c]
  <2>1. \A c \in 0..(cap - 1) :
            /\ (behind <= c /\ c < behind + n1) <=> (n2 <= c /\ c < n1 + n2)
            /\ (s <= c /\ c < s + n1) <=> (s <= c)
            /\ c - behind + s = c - n2 + s
    BY <1>1
  <2> HIDE DEF one
  <2> QED
    BY <1>7, <2>1 DEF ShiftedForward
<1> HIDE DEF one
<1>9. ShiftedForward(two, one, cap, 0, onward, n2)
  <2>1. \A c \in 0..(cap - 1) : 0 <= c /\ c < 0 + n2 => one[c] \in Alive
    <3> TAKE c \in 0..(cap - 1)
    <3>1. c < 0 + n2 => ~ (n2 <= c /\ c < n1 + n2) /\ ~ (s <= c) /\ c < n2
      BY <1>1
    <3> QED
      BY <1>8, <3>1
  <2>2. \A c \in 0..(cap - 1) : onward <= c /\ c < onward + n2 =>
            IF c - onward < k2 THEN one[c] = Raw ELSE one[c] \in Alive
    <3> TAKE c \in 0..(cap - 1)
    <3>1. onward <= c /\ c < onward + n2 =>
            ~ (n2 <= c /\ c < n1 + n2) /\ ~ (c < n2) /\ (c - onward < k2 <=> ~ (s <= c))
      BY <1>1, <1>5
    <3> QED
      BY <1>8, <3>1, Lifetimes
  <2>3. ReadyForward(one, cap, 0, onward, n2, k2)
    BY <1>1, <2>1, <2>2 DEF ReadyForward
  <2> QED
    BY <1>1, <1>6, <1>8, <2>3, RunsForward
<1>10. /\ two \in Cells(cap)
       /\ \A c \in 0..(cap - 1) :
            two[c] = IF n1 + n2 <= c /\ c < n1 + n2 + n2 THEN one[c - (n1 + n2)]
                     ELSE IF c < n2 THEN Moved ELSE one[c]
  <2>1. \A c \in 0..(cap - 1) :
            /\ (onward <= c /\ c < onward + n2) <=> (n1 + n2 <= c /\ c < n1 + n2 + n2)
            /\ (0 <= c /\ c < 0 + n2) <=> (c < n2)
            /\ c - onward + 0 = c - (n1 + n2)
    BY <1>1
  <2> HIDE DEF two
  <2> QED
    BY <1>9, <2>1 DEF ShiftedForward
<1> HIDE DEF two
<1>11. \A c \in 0..(cap - 1) : c \in S => two[c] \in Alive
  <2> TAKE c \in 0..(cap - 1)
  <2>1. c \in S => /\ ~ (n1 + n2 <= c /\ c < n1 + n2 + n2)
                   /\ c < n2 \/ (~ (n2 <= c /\ c < n1 + n2) /\ s <= c)
    BY <1>1, <1>3
  <2> QED
    BY <1>8, <1>10, <2>1, Lifetimes
<1>12. /\ Destroy(two, S) \in Cells(cap)
       /\ \A c \in 0..(cap - 1) : Destroy(two, S)[c] = IF c \in S THEN Raw ELSE two[c]
  BY <1>10, <1>11, DestroyTyped, DestroyCells
<1>13. ASSUME NEW c \in 0..(cap - 1)
       PROVE  Destroy(two, S)[c] =
                IF n2 <= c /\ c < n1 + n2 THEN cells[c - n2 + s]
                ELSE IF n1 + n2 <= c /\ c < n1 + n2 + n2
                THEN cells[c - (n1 + n2)] ELSE Raw
  <2>1. CASE n2 <= c /\ c < n1 + n2
    <3>1. ~ (c \in S) /\ ~ (n1 + n2 <= c) /\ ~ (c < n2)
      BY <1>1, <1>3, <2>1
    <3> QED
      BY <1>8, <1>10, <1>12, <2>1, <3>1
  <2>2. CASE n1 + n2 <= c /\ c < n1 + n2 + n2
    <3>1. /\ ~ (c \in S) /\ ~ (n2 <= c /\ c < n1 + n2)
          /\ c - (n1 + n2) \in 0..(cap - 1) /\ c - (n1 + n2) < n2
          /\ ~ (s <= c - (n1 + n2))
      BY <1>1, <1>3, <2>2
    <3>2. one[c - (n1 + n2)] = cells[c - (n1 + n2)]
      BY <1>8, <3>1
    <3>3. two[c] = one[c - (n1 + n2)]
      BY <1>10, <2>2
    <3> QED
      BY <1>12, <2>2, <3>1, <3>2, <3>3
  <2>3. CASE ~ (n2 <= c /\ c < n1 + n2) /\ ~ (n1 + n2 <= c /\ c < n1 + n2 + n2)
    <3>1. CASE c \in S
      BY <1>12, <2>3, <3>1
    <3>2. CASE ~ (c \in S)
      <4>1. ~ (c < n2) /\ ~ (s <= c)
        BY <1>1, <1>3, <2>3, <3>2
      <4>2. two[c] = one[c] /\ one[c] = cells[c] /\ cells[c] = Raw
        BY <1>8, <1>10, <2>3, <4>1
      <4> QED
        BY <1>12, <2>3, <3>2, <4>2
    <3> QED
      BY <3>1, <3>2
  <2> QED
    BY <2>1, <2>2, <2>3
<1> QED
  BY <1>2, <1>12, <1>13 DEF JoinedForwards

(* linearise(), when the gap takes the second range: the same elements, in *)
(* one range.                                                              *)
LEMMA LinearisedByMoveOneTwo ==
  ASSUME NEW cap \in Nat, NEW r, Sound(r, cap), ~ Linearised(r),
         SizeOf(ArrayTwo(r)) <= cap - r.count
  PROVE  /\ SameElements(LineariseByMoveOneTwo(r), r, cap)
         /\ Linearised(LineariseByMoveOneTwo(r))
<1> DEFINE s   == r.startIdx
           n1  == cap - s
           n2  == s + r.count - cap
           gap == cap - r.count
           cells == LineariseByMove(r.cells, s, n1, 0, n2, 1, gap)
<1>1. /\ r.cells \in Cells(cap) /\ r.capacity = cap /\ r.count \in 0..cap
      /\ s \in 1..(cap - 1) /\ n1 \in Nat /\ n2 \in Nat /\ gap \in Nat
      /\ 0 < n2 /\ gap = cap - (n1 + n2) /\ n2 <= gap /\ n1 + n2 = r.count
      /\ n2 \in 0..(cap - 1) /\ 0 < n1
  BY SoundParts, Wrapped
<1>2. LineariseByMoveOneTwo(r) = With(r, cells, n2, r.count)
  <2>1. /\ ArrayOne(r)[1] = s /\ SizeOf(ArrayOne(r)) = n1
        /\ ArrayTwo(r)[1] = 0 /\ SizeOf(ArrayTwo(r)) = n2
    BY Wrapped
  <2>2. r \in AnyRing(cap)
    BY DEF Sound
  <2> HIDE DEF s, n1, n2
  <2> QED
    BY <1>1, <2>1, <2>2 DEF LineariseByMoveOneTwo, With, AnyRing
<1>3. Gapped(r.cells, cap, s, n2)
  <2>1. \A c \in 0..(cap - 1) : Occupies(r, c) <=> s <= c \/ c < n2
    BY <1>1 DEF Occupies
  <2> QED
    BY <2>1, SoundParts DEF Gapped
<1>4. /\ cells \in Cells(cap)
      /\ \A c \in 0..(cap - 1) :
            cells[c] = IF n2 <= c /\ c < n1 + n2 THEN r.cells[c - n2 + s]
                       ELSE IF n1 + n2 <= c /\ c < n1 + n2 + n2
                       THEN r.cells[c - (n1 + n2)] ELSE Raw
  <2>0. n1 = cap - s
    OBVIOUS
  <2> HIDE DEF s, n1, n2, gap
  <2>1. JoinedForwards(cells, r.cells, cap, s, n1, n2)
    BY <1>1, <1>3, <2>0, MovedForwards
  <2> QED
    BY <2>1 DEF JoinedForwards
<1>5. ASSUME NEW i \in 0..(r.count - 1) PROVE cells[n2 + i] = Elem(r, i)
  <2>1. CASE i < n1
    <3>1. CellAt(r, i) = s + i
      BY <1>1, <2>1 DEF CellAt
    <3>2. /\ n2 + i \in 0..(cap - 1) /\ n2 <= n2 + i /\ n2 + i < n1 + n2
          /\ (n2 + i) - n2 + s = s + i
      BY <1>1, <2>1
    <3> HIDE DEF cells, s, n1, n2
    <3> QED
      BY <1>4, <3>1, <3>2 DEF Elem
  <2>2. CASE ~ (i < n1)
    <3>1. CellAt(r, i) = i - n1
      BY <1>1, <2>2 DEF CellAt
    <3>2. /\ n2 + i \in 0..(cap - 1) /\ ~ (n2 + i < n1 + n2)
          /\ n1 + n2 <= n2 + i /\ n2 + i < n1 + n2 + n2
          /\ (n2 + i) - (n1 + n2) = i - n1
      BY <1>1, <2>2
    <3> HIDE DEF cells, s, n1, n2
    <3> QED
      BY <1>4, <3>1, <3>2 DEF Elem
  <2> QED
    BY <2>1, <2>2
<1>6. ASSUME NEW c \in 0..(cap - 1), ~ (n2 <= c /\ c < n2 + r.count)
      PROVE  cells[c] = Raw
  <2>1. ~ (n2 <= c /\ c < n1 + n2) /\ ~ (n1 + n2 <= c /\ c < n1 + n2 + n2)
    BY <1>1, <1>6
  <2> HIDE DEF cells, s, n1, n2
  <2> QED
    BY <1>4, <2>1
<1>7. n2 + r.count <= cap
  BY <1>1
<1> HIDE DEF cells, s, n1, n2
<1> QED
  BY <1>1, <1>2, <1>4, <1>5, <1>6, <1>7, LaidOut

JoinedBackwards(new, cells, cap, s, n1, n2) ==
    /\ new \in Cells(cap)
    /\ \A c \in 0..(cap - 1) :
          new[c] = IF s - n2 <= c /\ c < s THEN cells[c - s + n2]
                   ELSE IF s - n2 - n1 <= c /\ c < s - n2
                   THEN cells[c - s + n2 + cap] ELSE Raw

(* lineariseByMove, followed backwards by reverse iterators: the n2 cells  *)
(* at the beginning go before the n1 from s on, and these before them.     *)
LEMMA MovedBackwards ==
  ASSUME NEW cap \in Nat, NEW cells \in Cells(cap), NEW s \in 1..(cap - 1),
         NEW n1 \in Nat, NEW n2 \in Nat, NEW gap \in Nat,
         n1 = cap - s, 0 < n2, gap = cap - (n1 + n2), n1 <= gap,
         Gapped(cells, cap, s, n2)
  PROVE  JoinedBackwards(LineariseByMove(cells, n2 - 1, n2, cap - 1, n1, -1, gap),
                         cells, cap, s, n1, n2)
<1> USE DEF Gapped
<1> DEFINE behind == (cap - 1) + (-1) * n1
           onward == behind + (-1) * n2
           end    == onward + (-1) * n1
           space  == (-1) * ((n2 - 1) - onward)
           k1     == Lesser(n2, gap)
           k2     == IF 0 < space THEN Lesser(space, n1) ELSE 0
           one    == MoveRun(cells, n2 - 1, behind, -1, n2, k1)
           two    == MoveRun(one, cap - 1, onward, -1, n1, k2)
           S      == { (n2 - 1) + (-1) * i : i \in
                        { j \in 0..(n2 - 1) :
                            0 <= (-1) * ((n2 - 1) + (-1) * j - end) } }
                     \cup { (cap - 1) + (-1) * i : i \in 0..(n1 - 1) }
<1>1. /\ behind = s - 1 /\ onward = s - 1 - n2 /\ end = s - 1 - n2 - n1
      /\ space = s - n2 - n2 /\ s = n2 + gap
      /\ behind \in Int /\ onward \in Int /\ end \in Int
  OBVIOUS
<1>2. LineariseByMove(cells, n2 - 1, n2, cap - 1, n1, -1, gap) = Destroy(two, S)
  BY Zenon DEF LineariseByMove
<1>3. \A c \in 0..(cap - 1) :
        c \in S <=> (c < n2 /\ c < s - n2 - n1) \/ s <= c
  <2> TAKE c \in 0..(cap - 1)
  <2>1. c \in S => (c < n2 /\ c < s - n2 - n1) \/ s <= c
    OBVIOUS
  <2>2. ASSUME c < n2, c < s - n2 - n1 PROVE c \in S
    <3>1. n2 - 1 - c \in 0..(n2 - 1) /\ c = (n2 - 1) + (-1) * (n2 - 1 - c)
          /\ 0 <= (-1) * ((n2 - 1) + (-1) * (n2 - 1 - c) - end)
      BY <2>2
    <3> QED
      BY <3>1
  <2>3. ASSUME s <= c PROVE c \in S
    <3>1. cap - 1 - c \in 0..(n1 - 1) /\ c = (cap - 1) + (-1) * (cap - 1 - c)
      BY <2>3
    <3> QED
      BY <3>1
  <2> QED
    BY <2>1, <2>2, <2>3
<1> HIDE DEF S
<1>4. k1 = IF n2 < gap THEN n2 ELSE gap
  BY DEF Lesser
<1>5. k2 = IF 0 < space THEN IF space < n1 THEN space ELSE n1 ELSE 0
  BY DEF Lesser
<1>6. k1 \in Int /\ k2 \in Int /\ n2 - 1 \in Int /\ cap - 1 \in Int
  BY <1>1, <1>4, <1>5
<1> HIDE DEF k1, k2, behind, onward, end, space
<1>7. ShiftedBackward(one, cells, cap, n2 - 1, behind, n2)
  <2>1. \A c \in 0..(cap - 1) : behind - n2 < c /\ c <= behind =>
            IF behind - c < k1 THEN cells[c] = Raw ELSE cells[c] \in Alive
    <3> TAKE c \in 0..(cap - 1)
    <3>1. behind - n2 < c /\ c <= behind => (behind - c < k1 <=> ~ (s <= c \/ c < n2))
      BY <1>1, <1>4
    <3> QED
      BY <3>1
  <2>2. \A c \in 0..(cap - 1) : c <= n2 - 1 => cells[c] \in Alive
    <3> TAKE c \in 0..(cap - 1)
    <3>1. c <= n2 - 1 => c < n2
      OBVIOUS
    <3> QED
      BY <3>1
  <2>3. ReadyBackward(cells, cap, n2 - 1, behind, n2, k1)
    BY <1>1, <2>1, <2>2 DEF ReadyBackward
  <2> QED
    BY <1>1, <1>6, <2>3, RunsBackward
<1>8. /\ one \in Cells(cap)
      /\ \A c \in 0..(cap - 1) :
            one[c] = IF s - n2 <= c /\ c < s THEN cells[c - s + n2]
                     ELSE IF c < n2 THEN Moved ELSE cells[c]
  <2>1. \A c \in 0..(cap - 1) :
            /\ (behind - n2 < c /\ c <= behind) <=> (s - n2 <= c /\ c < s)
            /\ ((n2 - 1) - n2 < c /\ c <= n2 - 1) <=> (c < n2)
            /\ c - behind + (n2 - 1) = c - s + n2
    BY <1>1
  <2> HIDE DEF one
  <2> QED
    BY <1>7, <2>1 DEF ShiftedBackward
<1> HIDE DEF one
<1>9. ShiftedBackward(two, one, cap, cap - 1, onward, n1)
  <2>1. \A c \in 0..(cap - 1) : (cap - 1) - n1 < c /\ c <= cap - 1 => one[c] \in Alive
    <3> TAKE c \in 0..(cap - 1)
    <3>1. (cap - 1) - n1 < c => ~ (s - n2 <= c /\ c < s) /\ ~ (c < n2) /\ s <= c
      BY <1>1
    <3> QED
      BY <1>8, <3>1
  <2>2. \A c \in 0..(cap - 1) : onward - n1 < c /\ c <= onward =>
            IF onward - c < k2 THEN one[c] = Raw ELSE one[c] \in Alive
    <3> TAKE c \in 0..(cap - 1)
    <3>1. onward - n1 < c /\ c <= onward =>
            ~ (s - n2 <= c /\ c < s) /\ ~ (s <= c) /\ (onward - c < k2 <=> ~ (c < n2))
      BY <1>1, <1>5
    <3> QED
      BY <1>8, <3>1, Lifetimes
  <2>3. ReadyBackward(one, cap, cap - 1, onward, n1, k2)
    BY <1>1, <2>1, <2>2 DEF ReadyBackward
  <2> QED
    BY <1>1, <1>6, <1>8, <2>3, RunsBackward
<1>10. /\ two \in Cells(cap)
       /\ \A c \in 0..(cap - 1) :
            two[c] = IF s - n2 - n1 <= c /\ c < s - n2 THEN one[c - s + n2 + cap]
                     ELSE IF s <= c THEN Moved ELSE one[c]
  <2>1. \A c \in 0..(cap - 1) :
            /\ (onward - n1 < c /\ c <= onward) <=> (s - n2 - n1 <= c /\ c < s - n2)
            /\ ((cap - 1) - n1 < c /\ c <= cap - 1) <=> (s <= c)
            /\ c - onward + (cap - 1) = c - s + n2 + cap
    BY <1>1
  <2> HIDE DEF two
  <2> QED
    BY <1>9, <2>1 DEF ShiftedBackward
<1> HIDE DEF two
<1>11. \A c \in 0..(cap - 1) : c \in S => two[c] \in Alive
  <2> TAKE c \in 0..(cap - 1)
  <2>1. c \in S => /\ ~ (s - n2 - n1 <= c /\ c < s - n2)
                   /\ s <= c \/ (~ (s - n2 <= c /\ c < s) /\ c < n2)
    BY <1>1, <1>3
  <2> QED
    BY <1>8, <1>10, <2>1, Lifetimes
<1>12. /\ Destroy(two, S) \in Cells(cap)
       /\ \A c \in 0..(cap - 1) : Destroy(two, S)[c] = IF c \in S THEN Raw ELSE two[c]
  BY <1>10, <1>11, DestroyTyped, DestroyCells
<1>13. ASSUME NEW c \in 0..(cap - 1)
       PROVE  Destroy(two, S)[c] =
                IF s - n2 <= c /\ c < s THEN cells[c - s + n2]
                ELSE IF s - n2 - n1 <= c /\ c < s - n2
                THEN cells[c - s + n2 + cap] ELSE Raw
  <2>1. CASE s - n2 <= c /\ c < s
    <3>1. ~ (c \in S) /\ ~ (c < s - n2) /\ ~ (s <= c)
      BY <1>1, <1>3, <2>1
    <3> QED
      BY <1>8, <1>10, <1>12, <2>1, <3>1
  <2>2. CASE s - n2 - n1 <= c /\ c < s - n2
    <3>1. /\ ~ (c \in S) /\ ~ (s - n2 <= c /\ c < s)
          /\ c - s + n2 + cap \in 0..(cap - 1) /\ s <= c - s + n2 + cap
          /\ ~ (c - s + n2 + cap < n2) /\ ~ (c - s + n2 + cap < s)
      BY <1>1, <1>3, <2>2
    <3>2. one[c - s + n2 + cap] = cells[c - s + n2 + cap]
      BY <1>8, <3>1
    <3>3. two[c] = one[c - s + n2 + cap]
      BY <1>10, <2>2
    <3> QED
      BY <1>12, <2>2, <3>1, <3>2, <3>3
  <2>3. CASE ~ (s - n2 <= c /\ c < s) /\ ~ (s - n2 - n1 <= c /\ c < s - n2)
    <3>1. CASE c \in S
      BY <1>12, <2>3, <3>1
    <3>2. CASE ~ (c \in S)
      <4>1. ~ (c < n2) /\ ~ (s <= c)
        BY <1>1, <1>3, <2>3, <3>2
      <4>2. two[c] = one[c] /\ one[c] = cells[c] /\ cells[c] = Raw
        BY <1>8, <1>10, <2>3, <4>1
      <4> QED
        BY <1>12, <2>3, <3>2, <4>2
    <3> QED
      BY <3>1, <3>2
  <2> QED
    BY <2>1, <2>2, <2>3
<1> QED
  BY <1>2, <1>12, <1>13 DEF JoinedBackwards

(* linearise(), when the gap takes the first range: the elements end up    *)
(* right before where they began.                                          *)
LEMMA LinearisedByMoveTwoOne ==
  ASSUME NEW cap \in Nat, NEW r, Sound(r, cap), ~ Linearised(r),
         SizeOf(ArrayOne(r)) <= cap - r.count
  PROVE  /\ SameElements(LineariseByMoveTwoOne(r), r, cap)
         /\ Linearised(LineariseByMoveTwoOne(r))
<1> DEFINE s   == r.startIdx
           n1  == cap - s
           n2  == s + r.count - cap
           gap == cap - r.count
           at  == cap - n1 - r.count
           cells == LineariseByMove(r.cells, n2 - 1, n2, cap - 1, n1, -1, gap)
<1>1. /\ r.cells \in Cells(cap) /\ r.capacity = cap /\ r.count \in 0..cap
      /\ s \in 1..(cap - 1) /\ n1 \in Nat /\ n2 \in Nat /\ gap \in Nat
      /\ 0 < n2 /\ gap = cap - (n1 + n2) /\ n1 <= gap /\ n1 + n2 = r.count
      /\ at \in 0..(cap - 1) /\ 0 < n1 /\ at = s - n2 - n1
  BY SoundParts, Wrapped
<1>2. LineariseByMoveTwoOne(r) = With(r, cells, at, r.count)
  <2>1. /\ ArrayOne(r)[2] = cap /\ SizeOf(ArrayOne(r)) = n1
        /\ ArrayTwo(r)[2] = n2 /\ SizeOf(ArrayTwo(r)) = n2
    BY Wrapped
  <2>2. r \in AnyRing(cap)
    BY DEF Sound
  <2> HIDE DEF s, n1, n2
  <2> QED
    BY <1>1, <2>1, <2>2 DEF LineariseByMoveTwoOne, With, AnyRing
<1>3. Gapped(r.cells, cap, s, n2)
  <2>1. \A c \in 0..(cap - 1) : Occupies(r, c) <=> s <= c \/ c < n2
    BY <1>1 DEF Occupies
  <2> QED
    BY <2>1, SoundParts DEF Gapped
<1>4. /\ cells \in Cells(cap)
      /\ \A c \in 0..(cap - 1) :
            cells[c] = IF s - n2 <= c /\ c < s THEN r.cells[c - s + n2]
                       ELSE IF s - n2 - n1 <= c /\ c < s - n2
                       THEN r.cells[c - s + n2 + cap] ELSE Raw
  <2>0. n1 = cap - s
    OBVIOUS
  <2> HIDE DEF s, n1, n2, gap
  <2>1. JoinedBackwards(cells, r.cells, cap, s, n1, n2)
    BY <1>1, <1>3, <2>0, MovedBackwards
  <2> QED
    BY <2>1 DEF JoinedBackwards
<1>5. ASSUME NEW i \in 0..(r.count - 1) PROVE cells[at + i] = Elem(r, i)
  <2>1. CASE i < n1
    <3>1. CellAt(r, i) = s + i
      BY <1>1, <2>1 DEF CellAt
    <3>2. /\ at + i \in 0..(cap - 1) /\ ~ (s - n2 <= at + i)
          /\ s - n2 - n1 <= at + i /\ at + i < s - n2
          /\ (at + i) - s + n2 + cap = s + i
      BY <1>1, <2>1
    <3> HIDE DEF cells, s, n1, n2, at
    <3> QED
      BY <1>4, <3>1, <3>2 DEF Elem
  <2>2. CASE ~ (i < n1)
    <3>1. CellAt(r, i) = i - n1
      BY <1>1, <2>2 DEF CellAt
    <3>2. /\ at + i \in 0..(cap - 1) /\ s - n2 <= at + i /\ at + i < s
          /\ (at + i) - s + n2 = i - n1
      BY <1>1, <2>2
    <3> HIDE DEF cells, s, n1, n2, at
    <3> QED
      BY <1>4, <3>1, <3>2 DEF Elem
  <2> QED
    BY <2>1, <2>2
<1>6. ASSUME NEW c \in 0..(cap - 1), ~ (at <= c /\ c < at + r.count)
      PROVE  cells[c] = Raw
  <2>1. ~ (s - n2 <= c /\ c < s) /\ ~ (s - n2 - n1 <= c /\ c < s - n2)
    BY <1>1, <1>6
  <2> HIDE DEF cells, s, n1, n2, at
  <2> QED
    BY <1>4, <2>1
<1>7. at + r.count <= cap
  BY <1>1
<1> HIDE DEF cells, s, n1, n2, at
<1> QED
  BY <1>1, <1>2, <1>4, <1>5, <1>6, <1>7, LaidOut

(* linearise() by whichever way: the same elements, in one range.          *)
LEMMA LinearisedRing ==
  ASSUME NEW cap \in Nat, NEW r, Sound(r, cap)
  PROVE  SameElements(Linearise(r), r, cap) /\ Linearised(Linearise(r))
<1> DEFINE n1   == SizeOf(ArrayOne(r))
           n2   == SizeOf(ArrayTwo(r))
           room == cap - r.count
<1>0. r.capacity = cap
  BY SoundParts
<1>1. CASE Linearised(r)
  <2>1. Linearise(r) = r
    BY <1>1 DEF Linearise
  <2> QED
    BY <1>1, <2>1 DEF SameElements
<1>2. CASE ~ Linearised(r)
  <2>0. n1 \in Int /\ n2 \in Int /\ room \in Int
    BY <1>2, Wrapped, SoundParts
  <2>1. CASE n2 <= room
    <3>1. Linearise(r) = LineariseByMoveOneTwo(r)
      BY <1>0, <1>2, <2>0, <2>1 DEF Linearise
    <3> QED
      BY <1>2, <2>1, <3>1, LinearisedByMoveOneTwo
  <2>2. CASE room < n2 /\ n1 <= room
    <3>1. Linearise(r) = LineariseByMoveTwoOne(r)
      BY <1>0, <1>2, <2>0, <2>2 DEF Linearise
    <3> QED
      BY <1>2, <2>2, <3>1, LinearisedByMoveTwoOne
  <2>3. CASE room < n2 /\ room < n1
    <3>1. Linearise(r) = IF n1 < n2 THEN LineariseByPopOne(r) ELSE LineariseByPopTwo(r)
      BY <1>0, <1>2, <2>0, <2>3 DEF Linearise
    <3>2. CASE n1 < n2
      BY <1>2, <3>1, <3>2, LinearisedByPopOne
    <3>3. CASE ~ (n1 < n2)
      BY <1>2, <3>1, <3>3, LinearisedByPopTwo
    <3> QED
      BY <3>2, <3>3
  <2> QED
    BY <2>0, <2>1, <2>2, <2>3
<1> QED
  BY <1>1, <1>2

-----------------------------------------------------------------------------
(* Inserting and erasing.                                                  *)

(* The cells of a ring hold other objects, where there were objects.       *)
LEMMA Refilled ==
  ASSUME NEW cap \in Nat, NEW r, Sound(r, cap), NEW cells \in Cells(cap),
         \A c \in 0..(cap - 1) :
            IF Occupies(r, c) THEN cells[c] \in Alive ELSE cells[c] = Raw
  PROVE  LET new == [r EXCEPT !.cells = cells]
         IN  /\ Sound(new, cap) /\ new.cells = cells
             /\ new.startIdx = r.startIdx /\ new.count = r.count
             /\ \A c \in 0..(cap - 1) : Occupies(new, c) <=> Occupies(r, c)
             /\ \A i \in 0..(cap - 1) : Elem(new, i) = cells[CellAt(r, i)]
<1> DEFINE new == With(r, cells, r.startIdx, r.count)
<1>1. /\ r.startIdx \in 0..(cap - 1) /\ r.count \in 0..cap /\ r.capacity = cap
      /\ r \in AnyRing(cap)
  BY SoundParts DEF Sound
<1>2. [r EXCEPT !.cells = cells] = new
  BY <1>1 DEF With, AnyRing
<1>3. Fits(cells, cap, r.startIdx, r.count)
  BY <1>1 DEF Fits, Occupies
<1>4. /\ Sound(new, cap) /\ new.cells = cells /\ new.startIdx = r.startIdx
      /\ new.count = r.count
  BY <1>1, <1>3, SoundRing
<1>5. new.capacity = cap
  BY <1>4, SoundParts
<1> HIDE DEF new
<1>6. \A c \in 0..(cap - 1) : Occupies(new, c) <=> Occupies(r, c)
  BY <1>1, <1>4, <1>5 DEF Occupies
<1>7. \A i \in 0..(cap - 1) : Elem(new, i) = cells[CellAt(r, i)]
  BY <1>1, <1>4, <1>5 DEF Elem, CellAt
<1> QED
  BY <1>2, <1>4, <1>6, <1>7

(* The ranges of a ring, and the cells that are not in the first one.      *)
LEMMA Ranges ==
  ASSUME NEW cap \in Nat, NEW r, Sound(r, cap)
  PROVE  /\ ArrayOne(r)[1] = r.startIdx
         /\ ArrayOne(r)[2] = IF r.startIdx + r.count < cap
                             THEN r.startIdx + r.count ELSE cap
         /\ ArrayTwo(r)[1] = IF Linearised(r) THEN ArrayOne(r)[2] ELSE 0
         /\ ArrayTwo(r)[2] = IF Linearised(r) THEN ArrayOne(r)[2]
                             ELSE r.startIdx + r.count - cap
         /\ Linearised(r) <=> r.startIdx + r.count <= cap
<1>1. /\ r.startIdx \in 0..(cap - 1) /\ r.count \in 0..cap /\ r.capacity = cap
  BY SoundParts
<1>2. /\ ArrayOne(r)[1] = r.startIdx
      /\ ArrayOne(r)[2] = IF r.startIdx + r.count < cap
                          THEN r.startIdx + r.count ELSE cap
  BY <1>1 DEF ArrayOne, Lesser
<1>3. Linearised(r) <=> r.startIdx + r.count <= cap
  BY <1>1 DEF Linearised, IsEmpty
<1> QED
  BY <1>1, <1>2, <1>3 DEF ArrayTwo

(* The elements without the one at an index.                               *)
WithoutIndex(new, r, cap, index) ==
    /\ Sound(new, cap) /\ new.count = r.count - 1
    /\ \A j \in 0..(r.count - 2) :
          Elem(new, j) = IF j < index THEN Elem(r, j) ELSE Elem(r, j + 1)

(* Erasing removes one element, in whichever range it is.                  *)
LEMMA ErasedElement ==
  ASSUME NEW cap \in Nat, NEW r, Sound(r, cap), NEW index \in 0..(r.count - 1)
  PROVE  WithoutIndex(Erased(r, CellAt(r, index)), r, cap, index)
<1> DEFINE s   == r.startIdx
           pos == CellAt(r, index)
<1>0. /\ s \in 0..(cap - 1) /\ r.count \in 1..cap /\ r.capacity = cap
      /\ r.cells \in Cells(cap) /\ index \in 0..(cap - 1)
      /\ \A c \in 0..(cap - 1) : IF Occupies(r, c) THEN r.cells[c] \in Alive
                                 ELSE r.cells[c] = Raw
  BY SoundParts
<1>1. pos = IF s + index < cap THEN s + index ELSE s + index - cap
  BY <1>0 DEF CellAt
<1>2. CASE InRange(pos, ArrayOne(r))
  <2> DEFINE n     == pos - s
             cells == MoveRun(r.cells, pos - 1, pos, -1, n, 0)
             mid   == [r EXCEPT !.cells = cells]
  <2>1. /\ s <= pos /\ pos < s + r.count /\ pos < cap /\ n = index /\ n \in Nat
        /\ pos - 1 \in Int /\ pos \in 0..(cap - 1) /\ s + index = pos
    BY <1>0, <1>1, <1>2, Ranges DEF InRange
  <2>2. Erased(r, pos) = PopFront(mid)
    <3>1. ArrayOne(r)[1] = s
      BY Ranges
    <3> QED
      BY <1>2, <3>1 DEF Erased
  <2> HIDE DEF pos, n
  <2>3. ShiftedBackward(cells, r.cells, cap, pos - 1, pos, n)
    <3>1. \A c \in 0..(cap - 1) : s <= c /\ c <= pos => r.cells[c] \in Alive
      BY <1>0, <2>1 DEF Occupies
    <3>2. \A c \in 0..(cap - 1) : (pos - 1) - n < c => s <= c
      BY <1>0, <2>1
    <3>3. \A c \in 0..(cap - 1) : pos - n < c /\ c <= pos =>
              s <= c /\ c <= pos /\ ~ (pos - c < 0)
      BY <1>0, <2>1
    <3>4. \A c \in 0..(cap - 1) : c <= pos - 1 => c <= pos
      BY <2>1
    <3>5. ReadyBackward(r.cells, cap, pos - 1, pos, n, 0)
      BY <1>0, <2>1, <3>1, <3>2, <3>3, <3>4 DEF ReadyBackward
    <3>6. /\ pos - 1 \in Int /\ pos \in Int /\ n \in Nat /\ 0 \in Int
          /\ r.cells \in Cells(cap)
      BY <1>0, <2>1
    <3> QED
      BY <3>5, <3>6, RunsBackward
  <2>4. /\ cells \in Cells(cap)
        /\ \A c \in 0..(cap - 1) :
              cells[c] = IF s < c /\ c <= pos THEN r.cells[c - 1]
                         ELSE IF s <= c /\ c < pos THEN Moved ELSE r.cells[c]
    <3>1. \A c \in 0..(cap - 1) :
            /\ (pos - n < c /\ c <= pos) <=> (s < c /\ c <= pos)
            /\ ((pos - 1) - n < c /\ c <= pos - 1) <=> (s <= c /\ c < pos)
            /\ c - pos + (pos - 1) = c - 1
      BY <1>0, <2>1
    <3> HIDE DEF cells, s
    <3> QED
      BY <2>3, <3>1 DEF ShiftedBackward
  <2> HIDE DEF cells
  <2>5. ASSUME NEW c \in 0..(cap - 1)
        PROVE  IF Occupies(r, c) THEN cells[c] \in Alive ELSE cells[c] = Raw
    <3>1. ASSUME s < c, c <= pos
          PROVE  /\ Occupies(r, c) /\ c - 1 \in 0..(cap - 1) /\ Occupies(r, c - 1)
      BY <1>0, <2>1, <3>1 DEF Occupies
    <3>2. s <= c /\ c < pos => Occupies(r, c)
      BY <1>0, <2>1 DEF Occupies
    <3>3. CASE s < c /\ c <= pos
      <4>1. /\ Occupies(r, c) /\ r.cells[c - 1] \in Alive
        BY <1>0, <3>1, <3>3
      <4> QED
        BY <2>4, <3>3, <4>1
    <3>4. CASE ~ (s < c /\ c <= pos)
      BY <1>0, <2>4, <3>2, <3>4, Lifetimes
    <3> QED
      BY <3>3, <3>4
  <2>6. /\ Sound(mid, cap) /\ mid.count = r.count
        /\ \A i \in 0..(cap - 1) : Elem(mid, i) = cells[CellAt(r, i)]
    BY <2>4, <2>5, Refilled
  <2> HIDE DEF mid
  <2>7. ASSUME NEW i \in 0..(r.count - 1)
        PROVE  i > 0 => Elem(mid, i) = IF i <= index THEN Elem(r, i - 1) ELSE Elem(r, i)
    <3>0. i \in 0..(cap - 1) /\ Elem(mid, i) = cells[CellAt(r, i)]
      BY <1>0, <2>6
    <3>1. CASE 0 < i /\ i <= index
      <4>1. /\ CellAt(r, i) = s + i /\ CellAt(r, i - 1) = s + i - 1
            /\ s < s + i /\ s + i <= pos /\ s + i \in 0..(cap - 1)
        BY <1>0, <2>1, <3>1 DEF CellAt
      <4>2. cells[s + i] = r.cells[s + i - 1]
        <5>1. s + i - 1 = (s + i) - 1
          BY <1>0
        <5> HIDE DEF s
        <5> QED
          BY <2>4, <4>1, <5>1
      <4> QED
        BY <3>0, <3>1, <4>1, <4>2 DEF Elem
    <3>2. CASE index < i
      <4>1. /\ ~ (s < CellAt(r, i) /\ CellAt(r, i) <= pos)
            /\ ~ (s <= CellAt(r, i) /\ CellAt(r, i) < pos)
            /\ CellAt(r, i) \in 0..(cap - 1)
        BY <1>0, <2>1, <3>0, <3>2 DEF CellAt
      <4>2. cells[CellAt(r, i)] = r.cells[CellAt(r, i)]
        BY <2>4, <4>1
      <4> QED
        BY <3>0, <3>2, <4>2 DEF Elem
    <3> QED
      BY <3>0, <3>1, <3>2
  <2>8. /\ Sound(PopFront(mid), cap) /\ PopFront(mid).count = r.count - 1
        /\ \A i \in 0..(r.count - 2) : Elem(PopFront(mid), i) = Elem(mid, i + 1)
    <3>1. mid.count > 0
      BY <1>0, <2>6
    <3> QED
      BY <2>6, <3>1, PoppedFront
  <2>9. ASSUME NEW j \in 0..(r.count - 2)
        PROVE  Elem(PopFront(mid), j) = IF j < index THEN Elem(r, j) ELSE Elem(r, j + 1)
    <3>1. /\ j + 1 \in 0..(r.count - 1) /\ j + 1 > 0 /\ (j + 1) - 1 = j
          /\ j + 1 <= index <=> j < index
      BY <1>0
    <3> QED
      BY <2>7, <2>8, <3>1
  <2> QED
    BY <2>2, <2>8, <2>9 DEF WithoutIndex, pos
<1>3. CASE ~ InRange(pos, ArrayOne(r))
  <2> DEFINE end   == s + r.count - cap
             n     == end - pos - 1
             cells == MoveRun(r.cells, pos + 1, pos, 1, n, 0)
             mid   == [r EXCEPT !.cells = cells]
  <2>1. /\ pos \in 0..(cap - 1) /\ pos < end /\ n \in Nat /\ pos + 1 \in Int
        /\ index = cap - s + pos /\ ~ Linearised(r) /\ end <= s /\ end \in Int
    BY <1>0, <1>1, <1>3, Ranges DEF InRange
  <2>2. Erased(r, pos) = PopBack(mid)
    <3>1. ArrayTwo(r)[2] = end
      BY <2>1, Ranges
    <3> HIDE DEF end
    <3> QED
      BY <1>3, <3>1 DEF Erased
  <2> HIDE DEF pos, n
  <2>3. ShiftedForward(cells, r.cells, cap, pos + 1, pos, n)
    <3>1. \A c \in 0..(cap - 1) : c < end => r.cells[c] \in Alive
      BY <1>0, <2>1 DEF Occupies
    <3>2. \A c \in 0..(cap - 1) : c < pos + 1 + n => c < end
      BY <1>0, <2>1 DEF n
    <3>3. \A c \in 0..(cap - 1) : pos <= c /\ c < pos + n => c < end /\ ~ (c - pos < 0)
      BY <1>0, <2>1 DEF n
    <3>4. pos + 1 + n <= cap /\ pos + n <= cap
      BY <1>0, <2>1 DEF n
    <3>5. ReadyForward(r.cells, cap, pos + 1, pos, n, 0)
      BY <1>0, <2>1, <3>1, <3>2, <3>3, <3>4 DEF ReadyForward
    <3> HIDE DEF s, end
    <3> QED
      BY <1>0, <2>1, <3>5, RunsForward
  <2>4. /\ cells \in Cells(cap)
        /\ \A c \in 0..(cap - 1) :
              cells[c] = IF pos <= c /\ c < end - 1 THEN r.cells[c + 1]
                         ELSE IF pos < c /\ c < end THEN Moved ELSE r.cells[c]
    <3>1. \A c \in 0..(cap - 1) :
            /\ (pos <= c /\ c < pos + n) <=> (pos <= c /\ c < end - 1)
            /\ (pos + 1 <= c /\ c < pos + 1 + n) <=> (pos < c /\ c < end)
            /\ c - pos + (pos + 1) = c + 1
      BY <1>0, <2>1 DEF n
    <3> HIDE DEF cells, s, end
    <3> QED
      BY <2>3, <3>1 DEF ShiftedForward
  <2> HIDE DEF cells
  <2>5. ASSUME NEW c \in 0..(cap - 1)
        PROVE  IF Occupies(r, c) THEN cells[c] \in Alive ELSE cells[c] = Raw
    <3>1. ASSUME pos <= c, c < end - 1
          PROVE  /\ Occupies(r, c) /\ c + 1 \in 0..(cap - 1) /\ Occupies(r, c + 1)
      BY <1>0, <2>1, <3>1 DEF Occupies
    <3>2. pos < c /\ c < end => Occupies(r, c)
      BY <1>0, <2>1 DEF Occupies
    <3>3. CASE pos <= c /\ c < end - 1
      <4>1. /\ Occupies(r, c) /\ r.cells[c + 1] \in Alive
        BY <1>0, <3>1, <3>3
      <4> QED
        BY <2>4, <3>3, <4>1
    <3>4. CASE ~ (pos <= c /\ c < end - 1)
      BY <1>0, <2>4, <3>2, <3>4, Lifetimes
    <3> QED
      BY <3>3, <3>4
  <2>6. /\ Sound(mid, cap) /\ mid.count = r.count
        /\ \A i \in 0..(cap - 1) : Elem(mid, i) = cells[CellAt(r, i)]
    BY <2>4, <2>5, Refilled
  <2> HIDE DEF mid
  <2>7. ASSUME NEW i \in 0..(r.count - 2)
        PROVE  Elem(mid, i) = IF i < index THEN Elem(r, i) ELSE Elem(r, i + 1)
    <3>0. i \in 0..(cap - 1) /\ Elem(mid, i) = cells[CellAt(r, i)]
      BY <1>0, <2>6
    <3>1. CASE i < index
      <4>1. /\ ~ (pos <= CellAt(r, i) /\ CellAt(r, i) < end - 1)
            /\ ~ (pos < CellAt(r, i) /\ CellAt(r, i) < end)
            /\ CellAt(r, i) \in 0..(cap - 1)
        BY <1>0, <2>1, <3>0, <3>1 DEF CellAt
      <4>2. cells[CellAt(r, i)] = r.cells[CellAt(r, i)]
        BY <2>4, <4>1
      <4> QED
        BY <3>0, <3>1, <4>2 DEF Elem
    <3>2. CASE index <= i
      <4>1. /\ CellAt(r, i) = s + i - cap /\ CellAt(r, i + 1) = s + i - cap + 1
            /\ pos <= s + i - cap /\ s + i - cap < end - 1
            /\ s + i - cap \in 0..(cap - 1)
        BY <1>0, <2>1, <3>2 DEF CellAt
      <4>2. cells[s + i - cap] = r.cells[s + i - cap + 1]
        BY <2>4, <4>1
      <4>3. ~ (i < index)
        BY <3>2, <2>1, <1>0
      <4> QED
        BY <3>0, <4>1, <4>2, <4>3 DEF Elem
    <3> QED
      BY <1>0, <3>1, <3>2
  <2>8. /\ Sound(PopBack(mid), cap) /\ PopBack(mid).count = r.count - 1
        /\ \A i \in 0..(r.count - 2) : Elem(PopBack(mid), i) = Elem(mid, i)
    <3>1. mid.count > 0
      BY <1>0, <2>6
    <3> QED
      BY <2>6, <3>1, PoppedBack
  <2> QED
    BY <2>2, <2>7, <2>8 DEF WithoutIndex, pos
<1> QED
  BY <1>2, <1>3

(* A ring of which an element has been moved from.                         *)
LEMMA MovedFrom ==
  ASSUME NEW cap \in Nat, NEW r, Sound(r, cap), NEW i \in 0..(r.count - 1)
  PROVE  LET new == [r EXCEPT !.cells = MoveOut(@, CellAt(r, i))]
         IN  /\ Sound(new, cap) /\ new.startIdx = r.startIdx
             /\ new.count = r.count
<1> DEFINE at    == CellAt(r, i)
           cells == MoveOut(r.cells, at)
<1>1. /\ r.cells \in Cells(cap) /\ r.count \in 0..cap
      /\ \A c \in 0..(cap - 1) : IF Occupies(r, c) THEN r.cells[c] \in Alive
                                 ELSE r.cells[c] = Raw
      /\ r \in AnyRing(cap) /\ i \in 0..(cap - 1) /\ i < r.count
  BY SoundParts DEF Sound
<1>2. at \in 0..(cap - 1) /\ Occupies(r, at) /\ r.cells[at] \in Alive /\ at \in Int
  BY <1>1, CellFacts
<1> HIDE DEF at
<1>3. cells \in Cells(cap)
  BY <1>1, <1>2, MoveTyped
<1>4. \A c \in 0..(cap - 1) : cells[c] = IF c = at THEN Moved ELSE r.cells[c]
  BY <1>1, <1>2 DEF MoveOut, Cells
<1> HIDE DEF cells
<1>5. \A c \in 0..(cap - 1) :
        IF Occupies(r, c) THEN cells[c] \in Alive ELSE cells[c] = Raw
  BY <1>1, <1>2, <1>4, Lifetimes
<1>6. [r EXCEPT !.cells = MoveOut(@, CellAt(r, i))] = [r EXCEPT !.cells = cells]
  BY <1>1 DEF AnyRing, cells, at
<1> QED
  BY <1>3, <1>5, <1>6, Refilled

(* A ring of which the object in one cell is assigned another.             *)
LEMMA AssignedTo ==
  ASSUME NEW cap \in Nat, NEW r, Sound(r, cap), NEW cells \in Cells(cap),
         \A c \in 0..(cap - 1) :
            IF Occupies(r, c) THEN cells[c] \in Alive ELSE cells[c] = Raw,
         NEW pos \in 0..(cap - 1), Occupies(r, pos), NEW v \in Alive
  PROVE  Sound([r EXCEPT !.cells = AssignTo(cells, pos, v)], cap)
<1> DEFINE new == AssignTo(cells, pos, v)
<1>1. new \in Cells(cap)
  BY MoveTyped
<1>2. \A c \in 0..(cap - 1) : new[c] = IF c = pos THEN v ELSE cells[c]
  BY DEF AssignTo, Cells
<1> HIDE DEF new
<1>3. \A c \in 0..(cap - 1) :
        IF Occupies(r, c) THEN new[c] \in Alive ELSE new[c] = Raw
  BY <1>2
<1>4. Sound([r EXCEPT !.cells = new], cap)
  BY <1>1, <1>3, Refilled
<1> QED
  BY <1>4 DEF new

(* Inserting, wherever insert() allows it, keeps the objects of the array  *)
(* and the elements of the ring the same cells.                            *)
LEMMA InsertedRing ==
  ASSUME NEW cap \in Nat, NEW r, Sound(r, cap), ~ IsFull(r), NEW v \in Alive,
         NEW pos \in 0..(cap - 1),
         \/ InRange(pos, ArrayOne(r))
         \/ InRange(pos, ArrayTwo(r))
         \/ pos = ArrayTwo(r)[2]
  PROVE  Sound(InsertNotFull(r, pos, v)[1], cap)
<1> DEFINE s   == r.startIdx
           one == ArrayOne(r)
           two == ArrayTwo(r)
<1>0. /\ s \in 0..(cap - 1) /\ r.count \in 0..(cap - 1) /\ r.capacity = cap
      /\ r.cells \in Cells(cap) /\ r.count < cap
      /\ \A c \in 0..(cap - 1) : IF Occupies(r, c) THEN r.cells[c] \in Alive
                                 ELSE r.cells[c] = Raw
  BY SoundParts DEF IsFull
<1>1. CASE pos = one[1]
  <2>1. Sound(PushFrontNotFull(r, v), cap)
    BY <1>0, PushedFront
  <2> QED
    BY <1>1, <2>1 DEF InsertNotFull
<1>2. CASE pos # one[1] /\ pos = two[2]
  <2>1. Sound(PushBackNotFull(r, v), cap)
    BY <1>0, PushedBack
  <2> QED
    BY <1>2, <2>1 DEF InsertNotFull
<1>3. CASE pos # one[1] /\ pos # two[2] /\ InRange(pos, one)
  <2> DEFINE front == CellAt(r, 0)
             mid   == [r EXCEPT !.cells = MoveOut(@, front)]
             new   == PushFrontNotFull(mid, r.cells[front])
             n     == pos - s - 1
             cells == MoveRun(new.cells, s + 1, s, 1, n, 0)
  <2>1. /\ s < pos /\ pos < s + r.count /\ n \in Nat /\ s + 1 \in Int /\ s \in Int
        /\ 0 < r.count /\ 0 \in 0..(r.count - 1) /\ 0 \in Int
    BY <1>0, <1>3, Ranges DEF InRange
  <2>2. InsertNotFull(r, pos, v)[1] = [new EXCEPT !.cells = AssignTo(cells, pos, v)]
    <3>1. one[1] = s
      BY Ranges
    <3>2. InsertNotFull(r, pos, v) =
            <<[new EXCEPT !.cells = AssignTo(cells, pos, v)], pos>>
      <4> HIDE DEF s, mid, new
      <4> QED
        BY <1>3, <3>1 DEF InsertNotFull, mid, new
    <3> HIDE DEF new, cells
    <3> QED
      BY <3>2
  <2>3. /\ Sound(mid, cap) /\ mid.startIdx = s /\ mid.count = r.count
    BY <2>1, MovedFrom
  <2>4. r.cells[front] \in Alive
    BY <2>1, SoundParts DEF Elem
  <2> HIDE DEF mid, front
  <2>5. /\ Sound(new, cap) /\ new.count = r.count + 1
        /\ new.startIdx = IF s = 0 THEN cap - 1 ELSE s - 1
    BY <1>0, <2>3, <2>4, PushedFront
  <2> HIDE DEF new
  <2>6. /\ new.cells \in Cells(cap) /\ new.capacity = cap
        /\ \A c \in 0..(cap - 1) : IF Occupies(new, c) THEN new.cells[c] \in Alive
                                   ELSE new.cells[c] = Raw
    <3> HIDE DEF cells, n
    <3>1. Sound(new, cap)
      BY <2>5
    <3> QED
      BY <3>1, SoundParts
  <2>7. \A c \in 0..(cap - 1) : s <= c /\ c <= pos => Occupies(new, c)
    BY <1>0, <2>1, <2>5, <2>6 DEF Occupies
  <2>8. ShiftedForward(cells, new.cells, cap, s + 1, s, n)
    <3>1. \A c \in 0..(cap - 1) :
            /\ s + 1 <= c /\ c < s + 1 + n => s <= c /\ c <= pos
            /\ s <= c /\ c < s + n => s <= c /\ c <= pos /\ ~ (c - s < 0)
      BY <1>0, <2>1
    <3>2. \A c \in 0..(cap - 1) : s <= c /\ c <= pos => new.cells[c] \in Alive
      BY <2>6, <2>7
    <3>3. 0 <= s + 1 /\ s + 1 + n <= cap /\ 0 <= s /\ s + n <= cap /\ s < s + 1
      BY <1>0, <2>1
    <3> HIDE DEF n
    <3>4. ReadyForward(new.cells, cap, s + 1, s, n, 0)
      BY <3>1, <3>2, <3>3 DEF ReadyForward
    <3> HIDE DEF s
    <3> QED
      BY <2>1, <2>6, <3>4, RunsForward
  <2>9. /\ cells \in Cells(cap)
        /\ \A c \in 0..(cap - 1) :
              IF Occupies(new, c) THEN cells[c] \in Alive ELSE cells[c] = Raw
    <3> HIDE DEF cells
    <3>1. /\ cells \in Cells(cap)
          /\ \A c \in 0..(cap - 1) :
                cells[c] = IF s <= c /\ c < s + n THEN new.cells[c - s + (s + 1)]
                           ELSE IF s + 1 <= c /\ c < s + 1 + n THEN Moved
                           ELSE new.cells[c]
      BY <2>8 DEF ShiftedForward
    <3>2. ASSUME NEW c \in 0..(cap - 1)
          PROVE  IF Occupies(new, c) THEN cells[c] \in Alive ELSE cells[c] = Raw
      <4>1. CASE s <= c /\ c < s + n
        <5>1. /\ s <= c /\ c <= pos /\ c - s + (s + 1) \in 0..(cap - 1)
              /\ s <= c - s + (s + 1) /\ c - s + (s + 1) <= pos
          BY <1>0, <2>1, <4>1
        <5>2. Occupies(new, c) /\ new.cells[c - s + (s + 1)] \in Alive
          BY <2>6, <2>7, <5>1
        <5> QED
          BY <3>1, <4>1, <5>2
      <4>2. CASE ~ (s <= c /\ c < s + n) /\ s + 1 <= c /\ c < s + 1 + n
        <5>1. s <= c /\ c <= pos
          BY <1>0, <2>1, <4>2
        <5> QED
          BY <2>7, <3>1, <4>2, <5>1, Lifetimes
      <4>3. CASE ~ (s <= c /\ c < s + n) /\ ~ (s + 1 <= c /\ c < s + 1 + n)
        <5>1. cells[c] = new.cells[c]
          BY <3>1, <4>3
        <5> QED
          BY <2>6, <5>1
      <4> QED
        BY <4>1, <4>2, <4>3
    <3> QED
      BY <3>1, <3>2
  <2> HIDE DEF cells
  <2>10. Occupies(new, pos)
    BY <2>1, <2>7, <1>0
  <2> QED
    BY <2>2, <2>5, <2>9, <2>10, AssignedTo
<1>4. CASE pos # one[1] /\ pos # two[2] /\ ~ InRange(pos, one)
  <2> DEFINE end   == s + r.count - cap
             last  == r.count - 1
             back  == CellAt(r, last)
             mid   == [r EXCEPT !.cells = MoveOut(@, back)]
             new   == PushBackNotFull(mid, r.cells[back])
             n     == end - 1 - pos
             cells == MoveRun(new.cells, end - 2, end - 1, -1, n, 0)
  <2>1. /\ ~ Linearised(r) /\ two[2] = end /\ pos < end
    <3>1. InRange(pos, two)
      BY <1>4
    <3>2. pos < two[2] /\ two[1] <= pos
      BY <3>1 DEF InRange
    <3>3. ~ Linearised(r)
      <4>1. ASSUME Linearised(r) PROVE FALSE
        <5>1. two[1] = two[2] /\ two[2] \in Int
          BY <1>0, <4>1, Ranges
        <5> QED
          BY <3>2, <5>1
      <4> QED
        BY <4>1
    <3> QED
      BY <3>2, <3>3, Ranges
  <2>2. /\ n \in Nat /\ end - 2 \in Int /\ end - 1 \in Int /\ 0 \in Int
        /\ last \in 0..(r.count - 1) /\ end \in 1..(cap - 1) /\ end <= s
    BY <1>0, <2>1
  <2>3. InsertNotFull(r, pos, v)[1] = [new EXCEPT !.cells = AssignTo(cells, pos, v)]
    <3>1. InsertNotFull(r, pos, v) =
            <<[new EXCEPT !.cells = AssignTo(cells, pos, v)], pos>>
      <4>1. two[2] - 2 = end - 2 /\ two[2] - 1 = end - 1
            /\ two[2] - 1 - pos = n
        BY <2>1
      <4> HIDE DEF s, mid, new, n, end
      <4> QED
        BY <1>4, <2>1, <4>1 DEF InsertNotFull, mid, new
    <3> HIDE DEF new, cells
    <3> QED
      BY <3>1
  <2>4. /\ Sound(mid, cap) /\ mid.startIdx = s /\ mid.count = r.count
    <3> HIDE DEF last
    <3> QED
      BY <2>2, MovedFrom
  <2>5. r.cells[back] \in Alive
    <3> HIDE DEF last
    <3> QED
      BY <2>2, SoundParts DEF Elem
  <2> HIDE DEF mid, back, last
  <2>6. /\ Sound(new, cap) /\ new.count = r.count + 1 /\ new.startIdx = s
    BY <1>0, <2>4, <2>5, PushedBack
  <2> HIDE DEF new
  <2>7. /\ new.cells \in Cells(cap) /\ new.capacity = cap
        /\ \A c \in 0..(cap - 1) : IF Occupies(new, c) THEN new.cells[c] \in Alive
                                   ELSE new.cells[c] = Raw
    <3> HIDE DEF cells, n
    <3> QED
      BY <2>6, SoundParts
  <2>8. \A c \in 0..(cap - 1) : c < end => Occupies(new, c)
    BY <1>0, <2>6, <2>7 DEF Occupies
  <2>9. ShiftedBackward(cells, new.cells, cap, end - 2, end - 1, n)
    <3>1. \A c \in 0..(cap - 1) :
            /\ c <= end - 2 => c < end
            /\ (end - 1) - n < c /\ c <= end - 1 => c < end /\ ~ ((end - 1) - c < 0)
      BY <2>2
    <3>2. \A c \in 0..(cap - 1) : c < end => new.cells[c] \in Alive
      BY <2>7, <2>8
    <3>3. /\ end - 2 < cap /\ n <= (end - 2) + 1 /\ end - 1 < cap
          /\ n <= (end - 1) + 1 /\ end - 2 < end - 1
      BY <1>0, <2>2
    <3> HIDE DEF n
    <3>4. ReadyBackward(new.cells, cap, end - 2, end - 1, n, 0)
      <4> HIDE DEF end
      <4> QED
        BY <3>1, <3>2, <3>3 DEF ReadyBackward
    <3> HIDE DEF end
    <3> QED
      BY <2>2, <2>7, <3>4, RunsBackward
  <2>10. /\ cells \in Cells(cap)
         /\ \A c \in 0..(cap - 1) :
              IF Occupies(new, c) THEN cells[c] \in Alive ELSE cells[c] = Raw
    <3> HIDE DEF cells
    <3>1. /\ cells \in Cells(cap)
          /\ \A c \in 0..(cap - 1) :
                cells[c] = IF (end - 1) - n < c /\ c <= end - 1
                           THEN new.cells[c - (end - 1) + (end - 2)]
                           ELSE IF (end - 2) - n < c /\ c <= end - 2 THEN Moved
                           ELSE new.cells[c]
      <4> HIDE DEF n, end
      <4> QED
        BY <2>9 DEF ShiftedBackward
    <3>2. ASSUME NEW c \in 0..(cap - 1)
          PROVE  IF Occupies(new, c) THEN cells[c] \in Alive ELSE cells[c] = Raw
      <4>1. CASE (end - 1) - n < c /\ c <= end - 1
        <5>1. /\ c < end /\ c - (end - 1) + (end - 2) \in 0..(cap - 1)
              /\ c - (end - 1) + (end - 2) < end
          BY <1>0, <2>1, <2>2, <4>1
        <5>2. Occupies(new, c) /\ new.cells[c - (end - 1) + (end - 2)] \in Alive
          BY <2>7, <2>8, <5>1
        <5> QED
          BY <3>1, <4>1, <5>2
      <4>2. CASE /\ ~ ((end - 1) - n < c /\ c <= end - 1)
                 /\ (end - 2) - n < c /\ c <= end - 2
        <5>1. c < end
          BY <2>2, <4>2
        <5> QED
          BY <2>8, <3>1, <4>2, <5>1, Lifetimes
      <4>3. CASE /\ ~ ((end - 1) - n < c /\ c <= end - 1)
                 /\ ~ ((end - 2) - n < c /\ c <= end - 2)
        <5>1. cells[c] = new.cells[c]
          BY <3>1, <4>3
        <5> QED
          BY <2>7, <5>1
      <4> QED
        BY <4>1, <4>2, <4>3
    <3> QED
      BY <3>1, <3>2
  <2> HIDE DEF cells
  <2>11. Occupies(new, pos)
    BY <2>1, <2>8
  <2> QED
    BY <2>3, <2>6, <2>10, <2>11, AssignedTo
<1> QED
  BY <1>1, <1>2, <1>3, <1>4

-----------------------------------------------------------------------------
(* Looking up and assigning.                                               *)

(* indexOf finds the index of every element, and no other cell has one.    *)
LEMMA IndexOfCells ==
  ASSUME NEW cap \in Nat, NEW r, Sound(r, cap)
  PROVE  /\ \A i \in 0..(r.count - 1) : IndexOf(r, CellAt(r, i)) = i
         /\ \A c \in 0..(cap - 1) : IndexOf(r, c) = -1 <=> ~ Occupies(r, c)
<1>1. /\ r.startIdx \in 0..(cap - 1) /\ r.count \in 0..cap /\ r.capacity = cap
  BY SoundParts
<1>2. ASSUME NEW i \in 0..(r.count - 1) PROVE IndexOf(r, CellAt(r, i)) = i
  BY <1>1 DEF IndexOf, CellAt
<1>3. ASSUME NEW c \in 0..(cap - 1) PROVE IndexOf(r, c) = -1 <=> ~ Occupies(r, c)
  BY <1>1 DEF IndexOf, Occupies
<1> QED
  BY <1>2, <1>3

(* A ring whose elements have been moved to another queue.                 *)
AllMoved(o) == [o EXCEPT !.cells = [c \in DOMAIN @ |->
                    IF IndexOf(o, c) = -1 THEN @[c] ELSE Moved]]

(* A ring that was moved from has as many elements, all of them moved.     *)
LEMMA MovedElements ==
  ASSUME NEW cap \in Nat, NEW r, Sound(r, cap)
  PROVE  /\ Sound(AllMoved(r), cap) /\ AllMoved(r).count = r.count
         /\ \A i \in 0..(r.count - 1) : Elem(AllMoved(r), i) = Moved
<1> DEFINE cells == [c \in DOMAIN r.cells |->
                        IF IndexOf(r, c) = -1 THEN r.cells[c] ELSE Moved]
           new   == [r EXCEPT !.cells = cells]
<1>1. /\ r.cells \in Cells(cap) /\ r \in AnyRing(cap) /\ r.count \in 0..cap
      /\ \A c \in 0..(cap - 1) : IF Occupies(r, c) THEN r.cells[c] \in Alive
                                 ELSE r.cells[c] = Raw
  BY SoundParts DEF Sound
<1>2. DOMAIN r.cells = 0..(cap - 1)
  BY <1>1 DEF Cells
<1>3. \A c \in 0..(cap - 1) :
        cells[c] = IF Occupies(r, c) THEN Moved ELSE r.cells[c]
  BY <1>2, IndexOfCells
<1>4. cells \in Cells(cap)
  BY <1>1, <1>2, Lifetimes DEF Cells
<1> HIDE DEF cells
<1>5. \A c \in 0..(cap - 1) :
        IF Occupies(r, c) THEN cells[c] \in Alive ELSE cells[c] = Raw
  BY <1>1, <1>3, Lifetimes
<1>6. /\ Sound(new, cap) /\ new.count = r.count
      /\ \A i \in 0..(cap - 1) : Elem(new, i) = cells[CellAt(r, i)]
  BY <1>4, <1>5, Refilled
<1>7. AllMoved(r) = new
  BY <1>1 DEF AllMoved, AnyRing, cells
<1> HIDE DEF new
<1>8. ASSUME NEW i \in 0..(r.count - 1) PROVE Elem(new, i) = Moved
  <2>1. i \in 0..(cap - 1) /\ i < r.count
    BY <1>1
  <2>2. CellAt(r, i) \in 0..(cap - 1) /\ Occupies(r, CellAt(r, i))
    BY <2>1, CellFacts
  <2> QED
    BY <1>3, <1>6, <2>1, <2>2
<1> QED
  BY <1>6, <1>7, <1>8

(* A ring that is given the elements of another.                           *)
Given(r, o) == PushBacks(PopFronts(r, r.count), Contents(o))

(* An assigned ring has the elements of the other, in its own array.       *)
LEMMA GivenElements ==
  ASSUME NEW cap \in Nat, NEW r, Sound(r, cap),
         NEW size \in Nat, NEW o, Sound(o, size), o.count <= cap
  PROVE  /\ Sound(Given(r, o), cap) /\ Given(r, o).count = o.count
         /\ \A i \in 0..(o.count - 1) : Elem(Given(r, o), i) = Elem(o, i)
<1> DEFINE empty == PopFronts(r, r.count)
           seq   == Contents(o)
           new   == PushBacks(empty, seq)
<1>1. r.count \in 0..cap /\ o.count \in 0..size
  BY SoundParts
<1>2. r.count \in 0..r.count
  BY <1>1
<1>3. WithoutFront(empty, r, cap, r.count)
  BY <1>2, PoppedFronts
<1>4. Sound(empty, cap) /\ empty.count = 0
  BY <1>1, <1>3 DEF WithoutFront
<1>5. /\ seq \in Seq(Alive) /\ Len(seq) = o.count
      /\ \A i \in 1..o.count : seq[i] = Elem(o, i - 1)
  BY ContentsFacts
<1> HIDE DEF empty, seq
<1>6. WithBehind(new, empty, cap, seq, Len(seq))
  BY <1>1, <1>4, <1>5, PushedBacks
<1> HIDE DEF new
<1>7. /\ Sound(new, cap) /\ new.count = o.count
      /\ \A i \in 1..o.count : Elem(new, 0 + i - 1) = seq[i]
  BY <1>1, <1>4, <1>5, <1>6 DEF WithBehind
<1>8. ASSUME NEW i \in 0..(o.count - 1) PROVE Elem(new, i) = Elem(o, i)
  <2>1. i + 1 \in 1..o.count /\ (i + 1) - 1 = i /\ 0 + (i + 1) - 1 = i
    BY <1>1
  <2> QED
    BY <1>5, <1>7, <2>1
<1> QED
  BY <1>7, <1>8 DEF Given, new, empty, seq

-----------------------------------------------------------------------------
(* The steps of the specification.                                         *)
RingsSound(f) ==
    /\ f = [q \in Queues |-> f[q]]
    /\ \A q \in Queues : Sound(f[q], Capacity[q])

(* Replacing one ring by a sound one.                                      *)
LEMMA RingChanged ==
  ASSUME NEW f, RingsSound(f), NEW q \in Queues, NEW r, Sound(r, Capacity[q])
  PROVE  /\ RingsSound([f EXCEPT ![q] = r])
         /\ [f EXCEPT ![q] = r][q] = r
         /\ \A p \in Queues : p # q => [f EXCEPT ![q] = r][p] = f[p]
<1> DEFINE g == [f EXCEPT ![q] = r]
<1>1. /\ \A p \in Queues : g[p] = IF p = q THEN r ELSE f[p]
      /\ g = [p \in Queues |-> g[p]]
  BY Zenon DEF RingsSound
<1> HIDE DEF g
<1>2. RingsSound(g)
  BY <1>1 DEF RingsSound
<1> QED
  BY <1>1, <1>2 DEF g

(* A queue begins sound.                                                   *)
LEMMA EmptyRing ==
  ASSUME NEW q \in Queues
  PROVE  Sound(EmptyQueue(q), Capacity[q])
<1>1. Capacity[q] \in Nat \ {0}
  BY CapacityAssumption
<1> QED
  BY <1>1 DEF EmptyQueue, Sound, AnyRing, Cells, Occupies

(* The inductive invariant: every ring is sound, and linear right after    *)
(* linearise().                                                            *)
RingInv ==
    /\ program \in Programs
    /\ RingsSound(queues)
    /\ returned.call = "linearise" =>
            returned.queue \in Queues /\ Linearised(queues[returned.queue])

(* The invariant holds in the beginning.                                   *)
LEMMA InitSound ==
  Init => RingInv
<1> SUFFICES ASSUME Init PROVE RingInv
  OBVIOUS
<1>1. \A q \in Queues : queues[q] = EmptyQueue(q)
  BY DEF Init
<1>2. RingsSound(queues)
  <2>1. queues = [q \in Queues |-> queues[q]]
    BY Zenon DEF Init
  <2> QED
    BY <1>1, <2>1, EmptyRing DEF RingsSound
<1>3. returned.call # "linearise"
  BY DEF Init, NothingReturned
<1> QED
  BY <1>2, <1>3 DEF RingInv, Init

(* What a step that changes one queue leaves sound.                        *)
LEMMA ChangeSound ==
  ASSUME RingInv, NEW q \in Queues, NEW r, Sound(r, Capacity[q]),
         Change(q, r)
  PROVE  /\ RingsSound(queues') /\ queues'[q] = r
         /\ \A p \in Queues : p # q => queues'[p] = queues[p]
<1>1. RingsSound(queues) /\ queues' = [queues EXCEPT ![q] = r]
  BY Zenon DEF RingInv, Change
<1>2. /\ RingsSound([queues EXCEPT ![q] = r])
      /\ [queues EXCEPT ![q] = r][q] = r
      /\ \A p \in Queues : p # q => [queues EXCEPT ![q] = r][p] = queues[p]
  <2>1. PICK f : f = queues /\ RingsSound(f)
    BY <1>1
  <2>2. /\ RingsSound([f EXCEPT ![q] = r]) /\ [f EXCEPT ![q] = r][q] = r
        /\ \A p \in Queues : p # q => [f EXCEPT ![q] = r][p] = f[p]
    BY <2>1, RingChanged
  <2> QED
    BY Zenon, <2>1, <2>2
<1> QED
  BY Zenon, <1>1, <1>2

(* Every step keeps the invariant: one case per operation.                 *)
LEMMA NextSound ==
  RingInv /\ [Next]_vars => RingInv'
<1> SUFFICES ASSUME RingInv, [Next]_vars PROVE RingInv'
  OBVIOUS
<1>0. /\ \A q \in Queues : Capacity[q] \in Nat /\ Sound(queues[q], Capacity[q])
      /\ \A q \in Queues : queues[q].capacity = Capacity[q]
                           /\ queues[q].count \in 0..Capacity[q]
  <2>1. \A q \in Queues : Capacity[q] \in Nat /\ Sound(queues[q], Capacity[q])
    BY CapacityAssumption DEF RingInv, RingsSound
  <2> QED
    BY <2>1, SoundParts
<1>1. CASE UNCHANGED vars
  BY <1>1 DEF vars, RingInv
<1>2. CASE Next
  <2>0. program' = program /\ program \in Programs
    BY <1>2 DEF Next, RingInv
  <2>1. program.queues \subseteq Queues
    BY <2>0, ProgramsAssumption
  <2>2. PICK q \in program.queues :
            \/ PushBack(q) \/ PushFront(q) \/ PopFrontCount(q) \/ PopBackCount(q)
            \/ Resize(q) \/ LineariseQueue(q) \/ Insert(q) \/ Erase(q)
            \/ EraseIterator(q)
            \/ \E other \in program.queues : Assign(q, other) \/ Compare(q, other)
    BY <1>2 DEF Next
  <2> DEFINE cap == Capacity[q]
             r   == queues[q]
  <2>3. /\ q \in Queues /\ cap \in Nat /\ Sound(r, cap)
        /\ r.capacity = cap /\ r.count \in 0..cap
    BY <1>0, <2>1, <2>2
  <2>4. ASSUME RingsSound(queues'), returned'.call # "linearise" PROVE RingInv'
    BY <2>0, <2>4 DEF RingInv
  <2>5. NothingReturned.call # "linearise"
    BY DEF NothingReturned
  <2>6. CASE PushBack(q)
    <3>1. PICK v \in Values : Change(q, PushBackNotFull(r, v))
      BY <2>6 DEF PushBack
    <3>2. r.count < cap /\ v \in Alive
      BY <2>3, <2>6 DEF PushBack, IsFull, Alive
    <3>3. Sound(PushBackNotFull(r, v), cap)
      BY <2>3, <3>2, PushedBack
    <3>4. RingsSound(queues')
      BY <2>3, <3>1, <3>3, ChangeSound
    <3> QED
      BY <2>4, <2>5, <2>6, <3>4 DEF PushBack
  <2>7. CASE PushFront(q)
    <3>1. PICK v \in Values : Change(q, PushFrontNotFull(r, v))
      BY <2>7 DEF PushFront
    <3>2. r.count < cap /\ v \in Alive
      BY <2>3, <2>7 DEF PushFront, IsFull, Alive
    <3>3. Sound(PushFrontNotFull(r, v), cap)
      BY <2>3, <3>2, PushedFront
    <3>4. RingsSound(queues')
      BY <2>3, <3>1, <3>3, ChangeSound
    <3> QED
      BY <2>4, <2>5, <2>7, <3>4 DEF PushFront
  <2>8. CASE PopFrontCount(q)
    <3>1. PICK n \in 1..r.count : Change(q, PopFronts(r, n))
      BY <2>8 DEF PopFrontCount
    <3>2. n \in 0..r.count
      BY <2>3
    <3>3. WithoutFront(PopFronts(r, n), r, cap, n)
      BY <2>3, <3>2, PoppedFronts
    <3>4. RingsSound(queues')
      BY <2>3, <3>1, <3>3, ChangeSound DEF WithoutFront
    <3> QED
      BY <2>4, <2>5, <2>8, <3>4 DEF PopFrontCount
  <2>9. CASE PopBackCount(q)
    <3>1. PICK n \in 1..r.count : Change(q, PopBacks(r, n))
      BY <2>9 DEF PopBackCount
    <3>2. n \in 0..r.count
      BY <2>3
    <3>3. WithoutBack(PopBacks(r, n), r, cap, n)
      BY <2>3, <3>2, PoppedBacks
    <3>4. RingsSound(queues')
      BY <2>3, <3>1, <3>3, ChangeSound DEF WithoutBack
    <3> QED
      BY <2>4, <2>5, <2>9, <3>4 DEF PopBackCount
  <2>10. CASE Resize(q)
    <3>1. PICK newSize \in 0..cap : Change(q, Resized(r, newSize))
      BY <2>10 DEF Resize
    <3>2. Sound(Resized(r, newSize), cap)
      BY <2>3, ResizedRing
    <3>3. RingsSound(queues')
      BY <2>3, <3>1, <3>2, ChangeSound
    <3> QED
      BY <2>4, <2>5, <2>10, <3>3 DEF Resize
  <2>11. CASE LineariseQueue(q)
    <3>1. Sound(Linearise(r), cap) /\ Linearised(Linearise(r))
      BY <2>3, LinearisedRing DEF SameElements
    <3>2. Change(q, Linearise(r))
      BY <2>11 DEF LineariseQueue
    <3>3. RingsSound(queues') /\ queues'[q] = Linearise(r)
      BY <2>3, <3>1, <3>2, ChangeSound
    <3>4. returned'.queue = q
      BY <2>11 DEF LineariseQueue
    <3> QED
      BY <2>0, <2>3, <3>1, <3>3, <3>4 DEF RingInv
  <2>12. CASE Insert(q)
    <3>1. PICK pos \in 0..(cap - 1), v \in Values :
            /\ \/ InRange(pos, ArrayOne(r))
               \/ InRange(pos, ArrayTwo(r))
               \/ pos = ArrayTwo(r)[2]
            /\ Change(q, InsertNotFull(r, pos, v)[1])
            /\ returned' = [call   |-> "insert", queue |-> q,
                            at     |-> Designated(r, pos),
                            answer |-> Designated(InsertNotFull(r, pos, v)[1],
                                                  InsertNotFull(r, pos, v)[2])]
      BY <2>12 DEF Insert
    <3>2. ~ IsFull(r) /\ v \in Alive
      BY <2>12 DEF Insert, Alive
    <3>3. Sound(InsertNotFull(r, pos, v)[1], cap)
      BY <2>3, <3>1, <3>2, InsertedRing
    <3>4. RingsSound(queues')
      BY <2>3, <3>1, <3>3, ChangeSound
    <3>5. returned'.call # "linearise"
      BY <3>1
    <3> QED
      BY <2>4, <3>4, <3>5
  <2>13. CASE Erase(q)
    <3>1. PICK index \in 0..(r.count - 1) :
            /\ Change(q, Erased(r, CellAt(r, index)))
            /\ returned'.call = "erase"
      BY <2>13 DEF Erase
    <3>2. WithoutIndex(Erased(r, CellAt(r, index)), r, cap, index)
      BY <2>3, ErasedElement
    <3>3. RingsSound(queues')
      BY <2>3, <3>1, <3>2, ChangeSound DEF WithoutIndex
    <3>4. returned'.call # "linearise"
      BY <3>1
    <3> QED
      BY <2>4, <3>3, <3>4
  <2>14. CASE EraseIterator(q)
    <3>1. PICK index \in 0..(r.count - 1) :
            /\ Change(q, Erased(r, CellAt(r, index)))
            /\ returned'.call = "eraseIterator"
      BY <2>14 DEF EraseIterator
    <3>2. WithoutIndex(Erased(r, CellAt(r, index)), r, cap, index)
      BY <2>3, ErasedElement
    <3>3. RingsSound(queues')
      BY <2>3, <3>1, <3>2, ChangeSound DEF WithoutIndex
    <3>4. returned'.call # "linearise"
      BY <3>1
    <3> QED
      BY <2>4, <3>3, <3>4
  <2>15. ASSUME NEW other \in program.queues, Assign(q, other) PROVE RingInv'
    <3> DEFINE o == queues[other]
    <3>1. /\ other \in Queues /\ q # other /\ o.count <= cap
          /\ Capacity[other] \in Nat /\ Sound(o, Capacity[other])
      BY <1>0, <2>1, <2>15 DEF Assign
    <3>2. Sound(Given(r, o), cap) /\ Sound(AllMoved(o), Capacity[other])
      BY <2>3, <3>1, GivenElements, MovedElements
    <3>3. \/ queues' = [queues EXCEPT ![q] = Given(r, o)]
          \/ queues' = [queues EXCEPT ![q] = Given(r, o), ![other] = AllMoved(o)]
      BY Zenon, <2>15 DEF Assign, Change, Given, AllMoved
    <3> DEFINE f == [queues EXCEPT ![q] = Given(r, o)]
    <3>4. RingsSound(f)
      BY <2>3, <3>2, RingChanged DEF RingInv
    <3>5. RingsSound([f EXCEPT ![other] = AllMoved(o)])
      <4> HIDE DEF f
      <4> QED
        BY <3>1, <3>2, <3>4, RingChanged
    <3>6. RingsSound(queues')
      <4> HIDE DEF o, r
      <4> QED
        BY <3>3, <3>4, <3>5
    <3> QED
      BY <2>4, <2>5, <2>15, <3>6 DEF Assign
  <2>16. ASSUME NEW other \in program.queues, Compare(q, other) PROVE RingInv'
    <3>1. queues' = queues /\ returned'.call = "compare"
      BY <2>16 DEF Compare
    <3> QED
      BY <2>4, <3>1 DEF RingInv
  <2> QED
    BY <2>2, <2>6, <2>7, <2>8, <2>9, <2>10, <2>11, <2>12, <2>13, <2>14, <2>15, <2>16
<1> QED
  BY <1>1, <1>2

(* In every reachable state the rings are sound.                           *)
THEOREM RingsStaySound ==
  Spec => []RingInv
BY InitSound, NextSound, PTL DEF Spec

(* TypeOK: a start inside the array, at most as many elements as cells,    *)
(* and in every cell an object, no object or what undefined behaviour      *)
(* leaves.                                                                 *)
THEOREM Typed ==
  Spec => []TypeOK
<1>1. RingInv => TypeOK
  <2> SUFFICES ASSUME RingInv, NEW q \in Queues PROVE queues[q] \in Ring(q)
    BY DEF TypeOK
  <2>1. Capacity[q] \in Nat /\ Sound(queues[q], Capacity[q])
    BY CapacityAssumption DEF RingInv, RingsSound
  <2> QED
    BY <2>1 DEF Sound, AnyRing, Ring, Cells
<1> QED
  BY <1>1, RingsStaySound, PTL

(* LifetimesMatch: whatever was called, the objects alive in an array are  *)
(* exactly the elements of the queue; no undefined behaviour was met.      *)
THEOREM LifetimesAlwaysMatch ==
  Spec => []LifetimesMatch
<1>1. RingInv => LifetimesMatch
  <2> SUFFICES ASSUME RingInv, NEW q \in Queues, NEW c \in DOMAIN queues[q].cells
               PROVE  IF c \in { CellAt(queues[q], i) : i \in 0..(queues[q].count - 1) }
                      THEN queues[q].cells[c] \in Alive
                      ELSE queues[q].cells[c] = Raw
    BY DEF LifetimesMatch
  <2> DEFINE r == queues[q]
             cap == Capacity[q]
             Occupied == { CellAt(r, i) : i \in 0..(r.count - 1) }
  <2>1. cap \in Nat /\ Sound(r, cap)
    BY CapacityAssumption DEF RingInv, RingsSound
  <2> HIDE DEF r, cap
  <2>2. /\ r.cells \in Cells(cap) /\ r.count \in 0..cap /\ r.startIdx \in 0..(cap - 1)
        /\ \A d \in 0..(cap - 1) : IF Occupies(r, d) THEN r.cells[d] \in Alive
                                   ELSE r.cells[d] = Raw
    BY <2>1, SoundParts
  <2>3. c \in 0..(cap - 1)
    BY <2>2 DEF Cells, r
  <2>4. ASSUME Occupies(r, c) PROVE c \in Occupied
    <3> DEFINE i == IF c < r.startIdx THEN cap - r.startIdx + c ELSE c - r.startIdx
    <3>1. i \in 0..(cap - 1) /\ CellAt(r, i) = c
      BY <2>1, <2>3, CellFacts
    <3> HIDE DEF i
    <3>2. i < r.count
      BY <2>1, <2>4, <3>1, CellFacts
    <3>3. i \in 0..(r.count - 1)
      BY <2>2, <3>1, <3>2
    <3> QED
      BY <3>1, <3>3
  <2>5. ASSUME c \in Occupied PROVE Occupies(r, c)
    <3>1. PICK i \in 0..(r.count - 1) : c = CellAt(r, i)
      BY <2>5
    <3>2. i \in 0..(cap - 1) /\ i < r.count
      BY <2>1, <2>2
    <3> QED
      BY <2>1, <3>1, <3>2, CellFacts
  <2>6. IF c \in Occupied THEN r.cells[c] \in Alive ELSE r.cells[c] = Raw
    <3> HIDE DEF Occupied
    <3> QED
      BY <2>2, <2>3, <2>4, <2>5
  <2> QED
    BY <2>6 DEF r
<1> QED
  BY <1>1, RingsStaySound, PTL

(* IndexOfInverts: indexOf is the inverse of element access, however the   *)
(* ring is wrapped.                                                        *)
THEOREM IndexOfAlwaysInverts ==
  Spec => []IndexOfInverts
<1>1. RingInv => IndexOfInverts
  <2> SUFFICES ASSUME RingInv, NEW q \in Queues
               PROVE  /\ \A i \in 0..(queues[q].count - 1) :
                            IndexOf(queues[q], CellAt(queues[q], i)) = i
                      /\ \A c \in DOMAIN queues[q].cells :
                            queues[q].cells[c] = Raw => IndexOf(queues[q], c) = -1
    BY DEF IndexOfInverts
  <2> DEFINE r == queues[q]
             cap == Capacity[q]
  <2>1. cap \in Nat /\ Sound(r, cap)
    BY CapacityAssumption DEF RingInv, RingsSound
  <2> HIDE DEF r, cap
  <2>2. \A i \in 0..(r.count - 1) : IndexOf(r, CellAt(r, i)) = i
    BY <2>1, IndexOfCells
  <2>3. ASSUME NEW c \in DOMAIN r.cells, r.cells[c] = Raw PROVE IndexOf(r, c) = -1
    <3>1. c \in 0..(cap - 1)
      BY <2>1, SoundParts DEF Cells
    <3>2. ~ Occupies(r, c)
      BY <2>1, <2>3, <3>1, SoundParts, Lifetimes
    <3> QED
      BY <2>1, <3>1, <3>2, IndexOfCells
  <2> QED
    BY <2>2, <2>3 DEF r
<1> QED
  BY <1>1, RingsStaySound, PTL

(* LinearisedAfterwards: linearise(), by whichever of its four ways,       *)
(* leaves the elements in one contiguous range.                            *)
THEOREM AlwaysLinearisedAfterwards ==
  Spec => []LinearisedAfterwards
<1>1. RingInv => LinearisedAfterwards
  BY DEF RingInv, LinearisedAfterwards
<1> QED
  BY <1>1, RingsStaySound, PTL

-----------------------------------------------------------------------------
(* What the operations do to the elements.                                 *)

(* Sequences of the same length and elements are the same.                 *)
LEMMA SameSequences ==
  ASSUME NEW s \in Seq(Alive), NEW t \in Seq(Alive), Len(s) = Len(t),
         \A i \in 1..Len(s) : s[i] = t[i]
  PROVE  s = t
OBVIOUS

(* The elements of two sequences put together.                             *)
LEMMA JoinedSequences ==
  ASSUME NEW S, NEW s \in Seq(S), NEW t \in Seq(S)
  PROVE  /\ s \o t \in Seq(S) /\ Len(s \o t) = Len(s) + Len(t)
         /\ \A i \in 1..(Len(s) + Len(t)) :
                (s \o t)[i] = IF i <= Len(s) THEN s[i] ELSE t[i - Len(s)]
OBVIOUS

(* A ring holds the elements of a sequence.                                *)
Holds(r, cap, seq) ==
    /\ Sound(r, cap) /\ seq \in Seq(Alive) /\ r.count = Len(seq)
    /\ \A i \in 1..Len(seq) : Elem(r, i - 1) = seq[i]

(* A ring that holds the elements of a sequence has it as contents.        *)
LEMMA HoldsContents ==
  ASSUME NEW cap \in Nat, NEW r, NEW seq, Holds(r, cap, seq)
  PROVE  Contents(r) = seq
<1>1. /\ Sound(r, cap) /\ seq \in Seq(Alive) /\ r.count = Len(seq)
      /\ \A i \in 1..Len(seq) : Elem(r, i - 1) = seq[i]
  BY DEF Holds
<1>2. /\ Contents(r) \in Seq(Alive) /\ Len(Contents(r)) = Len(seq)
      /\ \A i \in 1..Len(seq) : Contents(r)[i] = Elem(r, i - 1)
  BY <1>1, ContentsFacts
<1> QED
  BY <1>1, <1>2, SameSequences

(* Pushing, as a change of the sequence.                                   *)
LEMMA PushContents ==
  ASSUME NEW cap \in Nat, NEW r, Sound(r, cap), r.count < cap, NEW v \in Alive
  PROVE  /\ Contents(PushBackNotFull(r, v)) = Append(Contents(r), v)
         /\ Contents(PushFrontNotFull(r, v)) = <<v>> \o Contents(r)
<1> DEFINE C == Contents(r)
           back  == PushBackNotFull(r, v)
           front == PushFrontNotFull(r, v)
<1>1. /\ C \in Seq(Alive) /\ Len(C) = r.count /\ r.count \in Nat
      /\ \A i \in 1..r.count : C[i] = Elem(r, i - 1)
  BY ContentsFacts, SoundParts
<1>2. /\ Sound(back, cap) /\ back.count = r.count + 1 /\ Elem(back, r.count) = v
      /\ \A i \in 0..(r.count - 1) : Elem(back, i) = Elem(r, i)
  BY PushedBack
<1>3. /\ Sound(front, cap) /\ front.count = r.count + 1 /\ Elem(front, 0) = v
      /\ \A i \in 0..(r.count - 1) : Elem(front, i + 1) = Elem(r, i)
  BY PushedFront
<1> HIDE DEF C, back, front
<1>4. Holds(back, cap, Append(C, v))
  <2>1. /\ Append(C, v) \in Seq(Alive) /\ Len(Append(C, v)) = r.count + 1
        /\ \A i \in 1..r.count : Append(C, v)[i] = C[i]
        /\ Append(C, v)[r.count + 1] = v
    BY <1>1
  <2>2. ASSUME NEW i \in 1..(r.count + 1) PROVE Elem(back, i - 1) = Append(C, v)[i]
    <3>1. CASE i \in 1..r.count
      <4>1. i - 1 \in 0..(r.count - 1)
        BY <1>1, <3>1
      <4> QED
        BY <1>1, <1>2, <2>1, <3>1, <4>1
    <3>2. CASE i = r.count + 1
      <4>1. i - 1 = r.count
        BY <1>1, <3>2
      <4> QED
        BY <1>2, <2>1, <3>2, <4>1
    <3> QED
      BY <1>1, <3>1, <3>2
  <2> QED
    BY <1>2, <2>1, <2>2 DEF Holds
<1>5. Holds(front, cap, <<v>> \o C)
  <2>1. /\ <<v>> \o C \in Seq(Alive) /\ Len(<<v>> \o C) = r.count + 1
        /\ (<<v>> \o C)[1] = v
        /\ \A i \in 1..r.count : (<<v>> \o C)[i + 1] = C[i]
    BY <1>1
  <2>2. ASSUME NEW i \in 1..(r.count + 1) PROVE Elem(front, i - 1) = (<<v>> \o C)[i]
    <3>1. CASE i = 1
      BY <1>3, <2>1, <3>1
    <3>2. CASE i # 1
      <4>1. /\ i - 1 \in 1..r.count /\ (i - 1) - 1 \in 0..(r.count - 1)
            /\ ((i - 1) - 1) + 1 = i - 1 /\ (i - 1) + 1 = i
        BY <1>1, <3>2
      <4>2. Elem(front, i - 1) = Elem(r, (i - 1) - 1)
        BY <1>3, <4>1
      <4>3. (<<v>> \o C)[i] = C[i - 1]
        BY <2>1, <4>1
      <4> QED
        BY <1>1, <4>1, <4>2, <4>3
    <3> QED
      BY <3>1, <3>2
  <2> QED
    BY <1>3, <2>1, <2>2 DEF Holds
<1> QED
  BY <1>4, <1>5, HoldsContents DEF C, back, front

(* Popping, as a change of the sequence.                                   *)
LEMMA PopContents ==
  ASSUME NEW cap \in Nat, NEW r, Sound(r, cap), NEW n \in 0..r.count
  PROVE  /\ Contents(PopFronts(r, n)) = SubSeq(Contents(r), n + 1, r.count)
         /\ Contents(PopBacks(r, n)) = SubSeq(Contents(r), 1, r.count - n)
<1> DEFINE C == Contents(r)
           a == SubSeq(C, n + 1, r.count)
           b == SubSeq(C, 1, r.count - n)
           front == PopFronts(r, n)
           back == PopBacks(r, n)
<1>1. /\ C \in Seq(Alive) /\ Len(C) = r.count /\ r.count \in Nat /\ n \in Nat
      /\ \A i \in 1..r.count : C[i] = Elem(r, i - 1)
  BY ContentsFacts, SoundParts
<1>2. WithoutFront(front, r, cap, n) /\ WithoutBack(back, r, cap, n)
  BY PoppedFronts, PoppedBacks
<1> HIDE DEF C, front, back
<1>3. /\ a \in Seq(Alive) /\ Len(a) = r.count - n
      /\ \A i \in 1..(r.count - n) : a[i] = C[n + i]
  <2>1. /\ n + 1 \in 1..(Len(C) + 1) /\ r.count \in ((n + 1) - 1)..Len(C)
        /\ r.count - (n + 1) + 1 = r.count - n
    BY <1>1
  <2>2. /\ a \in Seq(Alive) /\ Len(a) = r.count - (n + 1) + 1
        /\ \A i \in 1..(r.count - (n + 1) + 1) : a[i] = C[(n + 1) + i - 1]
    BY <1>1, <2>1, SubSequence
  <2>3. \A i \in 1..(r.count - n) : (n + 1) + i - 1 = n + i
    BY <1>1
  <2> HIDE DEF a
  <2> QED
    BY <2>1, <2>2, <2>3
<1>4. /\ b \in Seq(Alive) /\ Len(b) = r.count - n
      /\ \A i \in 1..(r.count - n) : b[i] = C[i]
  <2>1. /\ 1 \in 1..(Len(C) + 1) /\ r.count - n \in (1 - 1)..Len(C)
        /\ (r.count - n) - 1 + 1 = r.count - n
    BY <1>1
  <2>2. /\ b \in Seq(Alive) /\ Len(b) = (r.count - n) - 1 + 1
        /\ \A i \in 1..((r.count - n) - 1 + 1) : b[i] = C[1 + i - 1]
    BY <1>1, <2>1, SubSequence
  <2>3. \A i \in 1..(r.count - n) : 1 + i - 1 = i
    BY <1>1
  <2> HIDE DEF b
  <2> QED
    BY <2>1, <2>2, <2>3
<1> HIDE DEF a, b
<1>5. Holds(front, cap, a)
  <2>1. /\ Sound(front, cap) /\ front.count = r.count - n
        /\ \A i \in 0..(r.count - n - 1) : Elem(front, i) = Elem(r, i + n)
    BY <1>2 DEF WithoutFront
  <2>2. ASSUME NEW i \in 1..(r.count - n) PROVE Elem(front, i - 1) = a[i]
    <3>1. /\ i - 1 \in 0..(r.count - n - 1) /\ n + i \in 1..r.count
          /\ (i - 1) + n = (n + i) - 1
      BY <1>1
    <3> QED
      BY <1>1, <1>3, <2>1, <3>1
  <2> QED
    BY <1>3, <2>1, <2>2 DEF Holds
<1>6. Holds(back, cap, b)
  <2>1. /\ Sound(back, cap) /\ back.count = r.count - n
        /\ \A i \in 0..(r.count - n - 1) : Elem(back, i) = Elem(r, i)
    BY <1>2 DEF WithoutBack
  <2>2. ASSUME NEW i \in 1..(r.count - n) PROVE Elem(back, i - 1) = b[i]
    <3>1. i - 1 \in 0..(r.count - n - 1) /\ i \in 1..r.count
      BY <1>1
    <3> QED
      BY <1>1, <1>4, <2>1, <3>1
  <2> QED
    BY <1>4, <2>1, <2>2 DEF Holds
<1> QED
  BY <1>5, <1>6, HoldsContents DEF a, b, C, front, back

(* resize() appends default elements, or keeps the first ones.             *)
LEMMA ResizeContents ==
  ASSUME NEW cap \in Nat, NEW r, Sound(r, cap), NEW newSize \in 0..cap
  PROVE  Contents(Resized(r, newSize)) =
            IF r.count <= newSize
            THEN Contents(r) \o [i \in 1..(newSize - r.count) |-> Default]
            ELSE SubSeq(Contents(r), 1, newSize)
<1> DEFINE C   == Contents(r)
           new == Resized(r, newSize)
<1>1. /\ C \in Seq(Alive) /\ Len(C) = r.count /\ r.count \in Nat
      /\ \A i \in 1..r.count : C[i] = Elem(r, i - 1)
  BY ContentsFacts, SoundParts
<1>2. CASE r.count <= newSize
  <2> DEFINE m == newSize - r.count
             d == [i \in 1..m |-> Default]
  <2>1. m \in Nat
    BY <1>1, <1>2
  <2>2. d \in Seq(Alive) /\ Len(d) = m /\ \A i \in 1..m : d[i] = Default
    <3>1. d \in [1..m -> Alive]
      BY Lifetimes
    <3> HIDE DEF m
    <3>2. \A i \in 1..m : d[i] = Default
      OBVIOUS
    <3> HIDE DEF d
    <3> QED
      BY <2>1, <3>1, <3>2, FunctionIsSequence
  <2>3. /\ Sound(new, cap) /\ new.count = newSize
        /\ \A i \in 0..(newSize - 1) :
              Elem(new, i) = IF i < r.count THEN Elem(r, i) ELSE Default
    BY ResizedRing
  <2> HIDE DEF d, C, new
  <2>4. /\ C \o d \in Seq(Alive) /\ Len(C \o d) = newSize
        /\ \A i \in 1..newSize : (C \o d)[i] = IF i <= r.count THEN C[i] ELSE d[i - r.count]
    <3>1. Len(C) = r.count /\ Len(d) = m /\ Len(C) + Len(d) = newSize
      BY <1>1, <2>2
    <3>2. C \in Seq(Alive) /\ d \in Seq(Alive)
      BY <1>1, <2>2
    <3> HIDE DEF m
    <3>3. /\ C \o d \in Seq(Alive) /\ Len(C \o d) = Len(C) + Len(d)
          /\ \A i \in 1..(Len(C) + Len(d)) :
                (C \o d)[i] = IF i <= Len(C) THEN C[i] ELSE d[i - Len(C)]
      BY <3>2, JoinedSequences
    <3> QED
      BY <3>1, <3>3, Zenon
  <2>5. ASSUME NEW i \in 1..newSize PROVE Elem(new, i - 1) = (C \o d)[i]
    <3>1. i - 1 \in 0..(newSize - 1) /\ (i - 1 < r.count <=> i <= r.count)
      BY <1>1
    <3>2. CASE i <= r.count
      <4>1. i \in 1..r.count
        BY <1>1, <3>2
      <4> QED
        BY <1>1, <2>3, <2>4, <3>1, <3>2, <4>1
    <3>3. CASE ~ (i <= r.count)
      <4>1. i - r.count \in 1..m
        BY <1>1, <3>3
      <4> HIDE DEF m
      <4>2. (C \o d)[i] = Default
        BY <2>2, <2>4, <3>3, <4>1
      <4> QED
        BY <2>3, <3>1, <3>3, <4>2
    <3> QED
      BY <3>2, <3>3
  <2>6. Holds(new, cap, C \o d)
    BY <2>3, <2>4, <2>5 DEF Holds
  <2> QED
    BY <1>2, <2>6, HoldsContents DEF C, new, d
<1>3. CASE ~ (r.count <= newSize)
  <2>1. /\ r.count - newSize \in 0..r.count
        /\ r.count - (r.count - newSize) = newSize
    BY <1>1, <1>3
  <2>2. new = PopBacks(r, r.count - newSize)
    BY <1>3 DEF Resized
  <2> HIDE DEF C, new
  <2> QED
    BY <1>3, <2>1, <2>2, PopContents DEF new
<1> QED
  BY <1>2, <1>3

(* linearise() does not change the sequence.                               *)
LEMMA LinearisedContents ==
  ASSUME NEW cap \in Nat, NEW r, Sound(r, cap)
  PROVE  Contents(Linearise(r)) = Contents(r)
<1> DEFINE C   == Contents(r)
           new == Linearise(r)
<1>1. /\ C \in Seq(Alive) /\ Len(C) = r.count /\ r.count \in Nat
      /\ \A i \in 1..r.count : C[i] = Elem(r, i - 1)
  BY ContentsFacts, SoundParts
<1>2. /\ Sound(new, cap) /\ new.count = r.count
      /\ \A i \in 0..(r.count - 1) : Elem(new, i) = Elem(r, i)
  BY LinearisedRing DEF SameElements
<1> HIDE DEF C, new
<1>3. \A i \in 1..r.count : Elem(new, i - 1) = C[i]
  BY <1>1, <1>2
<1>4. Holds(new, cap, C)
  BY <1>1, <1>2, <1>3 DEF Holds
<1> QED
  BY <1>4, HoldsContents DEF C, new

(* Erasing removes the element at the index.                               *)
LEMMA EraseContents ==
  ASSUME NEW cap \in Nat, NEW r, Sound(r, cap), NEW index \in 0..(r.count - 1)
  PROVE  Contents(Erased(r, CellAt(r, index))) = RemoveAt(Contents(r), index + 1)
<1> DEFINE C   == Contents(r)
           new == Erased(r, CellAt(r, index))
           a   == SubSeq(C, 1, index)
           b   == SubSeq(C, index + 2, r.count)
<1>1. /\ C \in Seq(Alive) /\ Len(C) = r.count /\ r.count \in Nat
      /\ \A i \in 1..r.count : C[i] = Elem(r, i - 1)
  BY ContentsFacts, SoundParts
<1>2. /\ Sound(new, cap) /\ new.count = r.count - 1
      /\ \A j \in 0..(r.count - 2) :
            Elem(new, j) = IF j < index THEN Elem(r, j) ELSE Elem(r, j + 1)
  BY ErasedElement DEF WithoutIndex
<1> HIDE DEF C, new
<1>3. /\ a \in Seq(Alive) /\ Len(a) = index
      /\ \A i \in 1..index : a[i] = C[i]
  <2>1. 1 \in 1..(Len(C) + 1) /\ index \in (1 - 1)..Len(C) /\ index - 1 + 1 = index
    BY <1>1
  <2>2. /\ a \in Seq(Alive) /\ Len(a) = index - 1 + 1
        /\ \A i \in 1..(index - 1 + 1) : a[i] = C[1 + i - 1]
    BY <1>1, <2>1, SubSequence
  <2>3. \A i \in 1..index : 1 + i - 1 = i
    BY <1>1
  <2> HIDE DEF a
  <2> QED
    BY <2>1, <2>2, <2>3
<1>4. /\ b \in Seq(Alive) /\ Len(b) = r.count - 1 - index
      /\ \A i \in 1..(r.count - 1 - index) : b[i] = C[index + 1 + i]
  <2>1. /\ index + 2 \in 1..(Len(C) + 1) /\ r.count \in ((index + 2) - 1)..Len(C)
        /\ r.count - (index + 2) + 1 = r.count - 1 - index
    BY <1>1
  <2>2. /\ b \in Seq(Alive) /\ Len(b) = r.count - (index + 2) + 1
        /\ \A i \in 1..(r.count - (index + 2) + 1) : b[i] = C[(index + 2) + i - 1]
    BY <1>1, <2>1, SubSequence
  <2>3. \A i \in 1..(r.count - 1 - index) : (index + 2) + i - 1 = index + 1 + i
    BY <1>1
  <2> HIDE DEF b
  <2> QED
    BY <2>1, <2>2, <2>3
<1>5. RemoveAt(C, index + 1) = a \o b
  <2>1. (index + 1) - 1 = index /\ (index + 1) + 1 = index + 2
    BY <1>1
  <2> QED
    BY <1>1, <2>1 DEF RemoveAt
<1> HIDE DEF a, b
<1>6. /\ a \o b \in Seq(Alive) /\ Len(a \o b) = r.count - 1
      /\ \A i \in 1..(r.count - 1) :
            (a \o b)[i] = IF i <= index THEN a[i] ELSE b[i - index]
  <2>1. Len(a) = index /\ Len(a) + Len(b) = r.count - 1
    BY <1>1, <1>3, <1>4
  <2>2. a \in Seq(Alive) /\ b \in Seq(Alive)
    BY <1>3, <1>4
  <2>3. /\ a \o b \in Seq(Alive) /\ Len(a \o b) = Len(a) + Len(b)
        /\ \A i \in 1..(Len(a) + Len(b)) :
              (a \o b)[i] = IF i <= Len(a) THEN a[i] ELSE b[i - Len(a)]
    BY <2>2, JoinedSequences
  <2> QED
    BY <2>1, <2>3
<1>7. ASSUME NEW i \in 1..(r.count - 1) PROVE Elem(new, i - 1) = (a \o b)[i]
  <2>1. /\ i - 1 \in 0..(r.count - 2) /\ (i - 1 < index <=> i <= index)
        /\ (i - 1) + 1 = i /\ i \in 1..r.count /\ i + 1 \in 1..r.count
        /\ (i + 1) - 1 = i
    BY <1>1
  <2>2. CASE i <= index
    <3>1. i \in 1..index
      BY <2>2
    <3>2. (a \o b)[i] = C[i]
      BY <1>3, <1>6, <2>2, <3>1
    <3> QED
      BY <1>1, <1>2, <2>1, <2>2, <3>2
  <2>3. CASE ~ (i <= index)
    <3>1. i - index \in 1..(r.count - 1 - index) /\ index + 1 + (i - index) = i + 1
      BY <1>1, <2>3
    <3>2. (a \o b)[i] = C[i + 1]
      BY <1>4, <1>6, <2>3, <3>1
    <3>3. Elem(new, i - 1) = Elem(r, i)
      BY <1>2, <2>1, <2>3
    <3> QED
      BY <1>1, <2>1, <3>2, <3>3
  <2> QED
    BY <2>2, <2>3
<1>8. Holds(new, cap, a \o b)
  BY <1>2, <1>6, <1>7 DEF Holds
<1> QED
  BY <1>5, <1>8, HoldsContents DEF C, new

(* Assigning gives one queue the sequence of another, and a move leaves    *)
(* moved objects there.                                                    *)
LEMMA AssignContents ==
  ASSUME NEW cap \in Nat, NEW r, Sound(r, cap),
         NEW size \in Nat, NEW o, Sound(o, size), o.count <= cap
  PROVE  /\ Contents(Given(r, o)) = Contents(o)
         /\ Contents(AllMoved(o)) = [i \in DOMAIN Contents(o) |-> Moved]
<1> DEFINE C == Contents(o)
           M == [i \in DOMAIN C |-> Moved]
<1>1. /\ C \in Seq(Alive) /\ Len(C) = o.count /\ o.count \in Nat
      /\ \A i \in 1..o.count : C[i] = Elem(o, i - 1)
  BY ContentsFacts, SoundParts
<1>2. /\ Sound(Given(r, o), cap) /\ Given(r, o).count = o.count
      /\ \A i \in 0..(o.count - 1) : Elem(Given(r, o), i) = Elem(o, i)
  BY GivenElements
<1>3. /\ Sound(AllMoved(o), size) /\ AllMoved(o).count = o.count
      /\ \A i \in 0..(o.count - 1) : Elem(AllMoved(o), i) = Moved
  BY MovedElements
<1>4. /\ M \in Seq(Alive) /\ Len(M) = o.count /\ \A i \in 1..o.count : M[i] = Moved
  <2> HIDE DEF C
  <2>1. DOMAIN C = 1..o.count
    BY <1>1
  <2>2. M \in [1..o.count -> Alive] /\ \A i \in 1..o.count : M[i] = Moved
    BY <2>1, Lifetimes
  <2> HIDE DEF M
  <2> QED
    BY <1>1, <2>2, FunctionIsSequence
<1> HIDE DEF C, M
<1>5. Holds(Given(r, o), cap, C)
  <2>1. \A i \in 1..o.count : Elem(Given(r, o), i - 1) = C[i]
    BY <1>1, <1>2
  <2> QED
    BY <1>1, <1>2, <2>1 DEF Holds
<1>6. Holds(AllMoved(o), size, M)
  <2>1. \A i \in 1..o.count : Elem(AllMoved(o), i - 1) = M[i]
    BY <1>1, <1>3, <1>4
  <2> QED
    BY <1>3, <1>4, <2>1 DEF Holds
<1> QED
  BY <1>5, <1>6, HoldsContents DEF C, M

-----------------------------------------------------------------------------
(* Every operation but insert does what BoundedDeque says.                 *)
ItemsOf(f) == [q \in Queues |-> Contents(f[q])]

(* Replacing one ring replaces the elements of one queue.                  *)
LEMMA OneItemChanged ==
  ASSUME NEW f, RingsSound(f), NEW q \in Queues, NEW r
  PROVE  ItemsOf([f EXCEPT ![q] = r]) = [ItemsOf(f) EXCEPT ![q] = Contents(r)]
<1> DEFINE g == [f EXCEPT ![q] = r]
<1>1. \A p \in Queues : g[p] = IF p = q THEN r ELSE f[p]
  BY Zenon DEF RingsSound
<1> HIDE DEF g
<1>2. ItemsOf(g) = [ItemsOf(f) EXCEPT ![q] = Contents(r)]
  BY <1>1 DEF ItemsOf
<1> QED
  BY <1>2 DEF g

(* The items of one queue have been moved to another.                      *)
ItemsMoved(old, new, q, other) ==
    ItemsOf(new) = [ItemsOf(old) EXCEPT ![q] = ItemsOf(old)[other],
                                        ![other] = [i \in DOMAIN @ |-> Moved]]

Taken(a, b, o) ==
    /\ Contents(a) = Contents(o)
    /\ Contents(b) = [i \in DOMAIN Contents(o) |-> Moved]

(* Replacing two rings, when the elements of one are moved to the other.   *)
LEMMA TwoItemsChanged ==
  ASSUME NEW f, RingsSound(f), NEW q \in Queues, NEW other \in Queues, q # other,
         NEW a, NEW b, Taken(a, b, f[other])
  PROVE  ItemsMoved(f, [f EXCEPT ![q] = a, ![other] = b], q, other)
<1> DEFINE g == [f EXCEPT ![q] = a, ![other] = b]
           I == ItemsOf(f)
           M == [i \in DOMAIN I[other] |-> Moved]
           J == [I EXCEPT ![q] = I[other]]
<1>1. \A p \in Queues : g[p] = IF p = other THEN b ELSE IF p = q THEN a ELSE f[p]
  BY DEF RingsSound
<1>2. /\ I = [p \in Queues |-> Contents(f[p])]
      /\ I[other] = Contents(f[other])
  BY Zenon DEF ItemsOf
<1>3. M = Contents(b) /\ I[other] = Contents(a)
  BY <1>2 DEF Taken
<1> HIDE DEF g, I, M
<1>4. /\ J = [p \in Queues |-> IF p = q THEN I[other] ELSE Contents(f[p])]
      /\ J[other] = I[other]
  BY <1>2
<1> HIDE DEF J
<1>5. ItemsOf(g) = [J EXCEPT ![other] = M]
  BY <1>1, <1>2, <1>3, <1>4 DEF ItemsOf
<1>6. [J EXCEPT ![other] = M] = [J EXCEPT ![other] = [i \in DOMAIN @ |-> Moved]]
  BY Zenon, <1>4 DEF M
<1> QED
  BY Zenon, <1>5, <1>6 DEF g, I, J, ItemsMoved

(* A step that changes one ring changes the elements of one queue.         *)
LEMMA ItemsOfStep ==
  ASSUME RingInv, NEW q \in Queues, NEW r, Change(q, r), NEW seq, Contents(r) = seq
  PROVE  Deque!Change(q, seq)
<1>1. PICK f : f = queues /\ RingsSound(f)
  BY DEF RingInv
<1>2. queues' = [f EXCEPT ![q] = r]
  BY Zenon, <1>1 DEF Change
<1>3. ItemsOf([f EXCEPT ![q] = r]) = [ItemsOf(f) EXCEPT ![q] = Contents(r)]
  BY <1>1, OneItemChanged
<1>4. ItemsOf(queues') = [ItemsOf(queues) EXCEPT ![q] = seq]
  BY Zenon, <1>1, <1>2, <1>3
<1> QED
  BY Zenon, <1>4 DEF Deque!Change, ItemsOf

(* One that moves the elements of a ring to another changes those of both. *)
LEMMA ItemsOfMove ==
  ASSUME RingInv, NEW q \in Queues, NEW other \in Queues, q # other,
         NEW a, NEW b, Taken(a, b, queues[other]),
         queues' = [queues EXCEPT ![q] = a, ![other] = b]
  PROVE  ItemsMoved(queues, queues', q, other)
<1>1. PICK f : f = queues /\ RingsSound(f)
  BY DEF RingInv
<1>2. Taken(a, b, f[other])
  BY Zenon, <1>1
<1>3. ItemsMoved(f, [f EXCEPT ![q] = a, ![other] = b], q, other)
  BY <1>1, <1>2, TwoItemsChanged
<1>4. queues' = [f EXCEPT ![q] = a, ![other] = b]
  BY Zenon, <1>1
<1> QED
  BY Zenon, <1>1, <1>3, <1>4

(* A step on a sound state is one of the bounded deque, unless it inserts. *)
LEMMA NextAsDeque ==
  ASSUME RingInv, Next, returned'.call # "insert"
  PROVE  [Deque!Next]_[q \in Queues |-> Contents(queues[q])]
<1> DEFINE Items == [p \in Queues |-> Contents(queues[p])]
<1>0. /\ \A q \in Queues : Capacity[q] \in Nat /\ Sound(queues[q], Capacity[q])
      /\ \A q \in Queues : /\ queues[q].capacity = Capacity[q]
                           /\ queues[q].count \in 0..Capacity[q]
                           /\ Len(Contents(queues[q])) = queues[q].count
  <2>1. \A q \in Queues : Capacity[q] \in Nat /\ Sound(queues[q], Capacity[q])
    BY CapacityAssumption DEF RingInv, RingsSound
  <2> QED
    BY <2>1, SoundParts, ContentsFacts
<1>1. program.queues \subseteq Queues
  BY ProgramsAssumption DEF RingInv
<1>2. PICK q \in program.queues :
            \/ PushBack(q) \/ PushFront(q) \/ PopFrontCount(q) \/ PopBackCount(q)
            \/ Resize(q) \/ LineariseQueue(q) \/ Insert(q) \/ Erase(q)
            \/ EraseIterator(q)
            \/ \E other \in program.queues : Assign(q, other) \/ Compare(q, other)
  BY DEF Next
<1> DEFINE cap == Capacity[q]
           r   == queues[q]
           C   == Contents(r)
<1>3. /\ q \in Queues /\ cap \in Nat /\ Sound(r, cap)
      /\ r.capacity = cap /\ r.count \in 0..cap /\ Len(C) = r.count
      /\ Items[q] = C
  BY <1>0, <1>1, <1>2
<1>4. CASE PushBack(q)
  <2>1. PICK v \in Values : Change(q, PushBackNotFull(r, v))
    BY <1>4 DEF PushBack
  <2>2. r.count < cap /\ v \in Alive
    BY <1>3, <1>4 DEF PushBack, IsFull, Alive
  <2>3. Contents(PushBackNotFull(r, v)) = Append(Items[q], v)
    BY <1>3, <2>2, PushContents
  <2>4. Deque!Change(q, Append(Items[q], v))
    BY <1>3, <2>1, <2>3, ItemsOfStep
  <2>5. Deque!Push(q)
    BY <1>3, <2>2, <2>4 DEF Deque!Push
  <2> QED
    BY <1>3, <2>5 DEF Deque!Next
<1>5. CASE PushFront(q)
  <2>1. PICK v \in Values : Change(q, PushFrontNotFull(r, v))
    BY <1>5 DEF PushFront
  <2>2. r.count < cap /\ v \in Alive
    BY <1>3, <1>5 DEF PushFront, IsFull, Alive
  <2>3. Contents(PushFrontNotFull(r, v)) = <<v>> \o Items[q]
    BY <1>3, <2>2, PushContents
  <2>4. Deque!Change(q, <<v>> \o Items[q])
    BY <1>3, <2>1, <2>3, ItemsOfStep
  <2>5. Deque!Push(q)
    BY <1>3, <2>2, <2>4 DEF Deque!Push
  <2> QED
    BY <1>3, <2>5 DEF Deque!Next
<1>6. CASE PopFrontCount(q)
  <2>1. PICK n \in 1..r.count : Change(q, PopFronts(r, n))
    BY <1>6 DEF PopFrontCount
  <2>2. n \in 0..r.count /\ n \in 0..Len(Items[q])
    BY <1>3
  <2>3. Contents(PopFronts(r, n)) = SubSeq(Items[q], n + 1, Len(Items[q]))
    BY <1>3, <2>2, PopContents
  <2>4. Deque!Change(q, SubSeq(Items[q], n + 1, Len(Items[q])))
    BY <1>3, <2>1, <2>3, ItemsOfStep
  <2>5. Deque!Pop(q)
    BY <2>2, <2>4 DEF Deque!Pop
  <2> QED
    BY <1>3, <2>5 DEF Deque!Next
<1>7. CASE PopBackCount(q)
  <2>1. PICK n \in 1..r.count : Change(q, PopBacks(r, n))
    BY <1>7 DEF PopBackCount
  <2>2. n \in 0..r.count /\ r.count - n \in 0..Len(Items[q])
    BY <1>3
  <2>3. Contents(PopBacks(r, n)) = SubSeq(Items[q], 1, r.count - n)
    BY <1>3, <2>2, PopContents
  <2>4. Deque!Change(q, SubSeq(Items[q], 1, r.count - n))
    BY <1>3, <2>1, <2>3, ItemsOfStep
  <2>5. Deque!Pop(q)
    BY <2>2, <2>4 DEF Deque!Pop
  <2> QED
    BY <1>3, <2>5 DEF Deque!Next
<1>8. CASE Resize(q)
  <2>1. PICK newSize \in 0..cap : Change(q, Resized(r, newSize))
    BY <1>8 DEF Resize
  <2>2. CASE r.count <= newSize
    <3>1. newSize \in Len(Items[q])..cap
      BY <1>3, <2>2
    <3>2. Contents(Resized(r, newSize)) =
              Items[q] \o [i \in 1..(newSize - Len(Items[q])) |-> Default]
      BY <1>3, <2>2, ResizeContents
    <3>3. Deque!Change(q, Items[q] \o [i \in 1..(newSize - Len(Items[q])) |-> Default])
      BY <1>3, <2>1, <3>2, ItemsOfStep
    <3>4. Deque!Grow(q)
      BY <3>1, <3>3 DEF Deque!Grow
    <3> QED
      BY <1>3, <3>4 DEF Deque!Next
  <2>3. CASE ~ (r.count <= newSize)
    <3>1. newSize \in 0..Len(Items[q])
      BY <1>3, <2>3
    <3>2. Contents(Resized(r, newSize)) = SubSeq(Items[q], 1, newSize)
      BY <1>3, <2>3, ResizeContents
    <3>3. Deque!Change(q, SubSeq(Items[q], 1, newSize))
      BY <1>3, <2>1, <3>2, ItemsOfStep
    <3>4. Deque!Pop(q)
      BY <3>1, <3>3 DEF Deque!Pop
    <3> QED
      BY <1>3, <3>4 DEF Deque!Next
  <2> QED
    BY <2>2, <2>3
<1>9. CASE LineariseQueue(q)
  <2>1. Contents(Linearise(r)) = Items[q] /\ Change(q, Linearise(r))
    BY <1>3, <1>9, LinearisedContents DEF LineariseQueue
  <2>2. Deque!Change(q, Items[q])
    BY <1>3, <2>1, ItemsOfStep
  <2>3. Items' = Items
    BY <2>2 DEF Deque!Change
  <2> QED
    BY <2>3
<1>10. CASE Insert(q)
  <2>1. returned'.call = "insert"
    BY <1>10 DEF Insert
  <2> QED
    BY <2>1
<1>11. ASSUME NEW index \in 0..(r.count - 1), Change(q, Erased(r, CellAt(r, index)))
       PROVE  Deque!Next
  <2>1. Contents(Erased(r, CellAt(r, index))) = RemoveAt(Items[q], index + 1)
    BY <1>3, EraseContents
  <2>2. Deque!Change(q, RemoveAt(Items[q], index + 1))
    BY <1>3, <1>11, <2>1, ItemsOfStep
  <2>3. index + 1 \in DOMAIN Items[q]
    <3>1. C \in Seq(Alive)
      BY <1>3, ContentsFacts
    <3> HIDE DEF C
    <3>2. DOMAIN C = 1..r.count
      BY <1>3, <3>1
    <3> QED
      BY <1>3, <3>2
  <2>4. Deque!Change(q, Deque!RemoveAt(Items[q], index + 1))
    <3>1. RemoveAt(Items[q], index + 1) = Deque!RemoveAt(Items[q], index + 1)
      BY Zenon DEF RemoveAt, Deque!RemoveAt
    <3> QED
      BY Zenon, <2>2, <3>1
  <2>5. Deque!Erase(q)
    BY Zenon, <2>3, <2>4 DEF Deque!Erase
  <2> QED
    BY <1>3, <2>5 DEF Deque!Next
<1>12. CASE Erase(q)
  <2>1. PICK index \in 0..(r.count - 1) : Change(q, Erased(r, CellAt(r, index)))
    BY <1>12 DEF Erase
  <2> QED
    BY <1>11, <2>1
<1>13. CASE EraseIterator(q)
  <2>1. PICK index \in 0..(r.count - 1) : Change(q, Erased(r, CellAt(r, index)))
    BY <1>13 DEF EraseIterator
  <2> QED
    BY <1>11, <2>1
<1>14. ASSUME NEW other \in program.queues, Assign(q, other)
       PROVE  Deque!Next
  <2> DEFINE o == queues[other]
  <2>1. /\ other \in Queues /\ q # other /\ o.count <= cap
        /\ Capacity[other] \in Nat /\ Sound(o, Capacity[other])
        /\ Len(Items[other]) = o.count /\ Items[other] = Contents(o)
    BY <1>0, <1>1, <1>14 DEF Assign
  <2>2. /\ Contents(Given(r, o)) = Items[other]
        /\ Contents(AllMoved(o)) = [i \in DOMAIN Items[other] |-> Moved]
    BY <1>3, <2>1, AssignContents
  <2>3. \/ Change(q, Given(r, o))
        \/ queues' = [queues EXCEPT ![q] = Given(r, o), ![other] = AllMoved(o)]
    BY Zenon, <1>14 DEF Assign, Given, AllMoved
  <2>4. CASE Change(q, Given(r, o))
    <3>1. Deque!Change(q, Items[other])
      BY <1>3, <2>2, <2>4, ItemsOfStep
    <3>2. Deque!Assign(q, other)
      BY <2>1, <3>1 DEF Deque!Assign
    <3> QED
      BY <1>3, <2>1, <3>2 DEF Deque!Next
  <2>5. CASE queues' = [queues EXCEPT ![q] = Given(r, o), ![other] = AllMoved(o)]
    <3>1. Taken(Given(r, o), AllMoved(o), queues[other])
      BY Zenon, <2>1, <2>2 DEF Taken
    <3>2. Items' = [Items EXCEPT ![q] = Items[other],
                                 ![other] = [i \in DOMAIN @ |-> Moved]]
      <4>1. PICK a, b : /\ a = Given(r, o) /\ b = AllMoved(o)
                        /\ Taken(a, b, queues[other])
        BY Zenon, <3>1
      <4>2. queues' = [queues EXCEPT ![q] = a, ![other] = b]
        BY Zenon, <2>5, <4>1
      <4>3. ItemsMoved(queues, queues', q, other)
        BY <1>3, <2>1, <4>1, <4>2, ItemsOfMove
      <4> QED
        BY Zenon, <4>3 DEF ItemsMoved, ItemsOf
    <3>3. Deque!Assign(q, other)
      BY <2>1, <3>2 DEF Deque!Assign
    <3> QED
      BY <1>3, <2>1, <3>3 DEF Deque!Next
  <2> QED
    BY <2>3, <2>4, <2>5
<1>15. ASSUME NEW other \in program.queues, Compare(q, other) PROVE Items' = Items
  BY <1>15 DEF Compare
<1> QED
  BY <1>2, <1>4, <1>5, <1>6, <1>7, <1>8, <1>9, <1>10, <1>12, <1>13, <1>14, <1>15

(* StepsAsDeque: from every reachable state, a step other than an          *)
(* insertion is a step of the bounded deque, or leaves it as it is.        *)
THEOREM AlwaysStepsAsDeque ==
  Spec => StepsAsDeque
<1>1. RingInv /\ [Next]_vars =>
        [returned'.call # "insert" =>
            [Deque!Next]_[q \in Queues |-> Contents(queues[q])]]_vars
  BY NextAsDeque
<1> QED
  BY <1>1, RingsStaySound, PTL DEF Spec, StepsAsDeque
=============================================================================
