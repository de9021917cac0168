------------------------- MODULE MsgSendMgrProofs -------------------------
(* What is proved of MsgSendMgr for scripts of any length, any delays and  *)
(* any depth of nested event loops: the types, the agreement of the list,  *)
(* the timer and the protocol, that putting a repeated message back into   *)
(* the list of relative delays moves no other message in time, and that the*)
(* list and the timer implement the calendar of SendSchedule.              *)
EXTENDS MsgSendMgr, Induction, TLAPS

(* The narrowing to int keeps a duration that fits.                        *)
LEMMA ToIntKeeps ==
  ASSUME NEW ms \in 0..IntMax
  PROVE  ToInt(ms) = ms
<1>1. ms + IntMax + 1 \in Nat /\ 2 * (IntMax + 1) \in Nat /\ ms + IntMax + 1 < 2 * (IntMax + 1)
  BY IntMaxAssumption
<1>2. \A a, b \in Nat : a < b => a % b = a
  OBVIOUS
<1> QED BY <1>1, <1>2, IntMaxAssumption DEF ToInt

(* What the elements of a list of messages have.                           *)
LEMMA ElementsAreMessages ==
  ASSUME NEW list \in Seq(Message), NEW i \in 1..Len(list)
  PROVE  /\ list[i] \in Message
         /\ list[i].delay \in Nat /\ list[i].repeat \in Nat
         /\ list[i].count \in Nat /\ list[i].id \in Ids
<1>1. list[i] \in Message
  OBVIOUS
<1> QED BY <1>1 DEF Message

(* The running sum of the delays satisfies its recursion equation and is   *)
(* never negative.                                                         *)
LEMMA ElapsedProperties ==
  ASSUME NEW list \in Seq(Message)
  PROVE  /\ Elapsed(list) \in [0..Len(list) -> Nat]
         /\ Elapsed(list)[0] = 0
         /\ \A i \in 1..Len(list) :
               Elapsed(list)[i] = Elapsed(list)[i - 1] + list[i].delay
<1> DEFINE n == Len(list)
           step == [p \in Nat \X (1..n) |-> p[1] + list[p[2]].delay]
           R(f) == f = [i \in 0..n |->
                           IF i = 0 THEN 0 ELSE f[i - 1] + list[i].delay]
<1>1. n \in Nat /\ \A i \in 1..n : list[i].delay \in Nat
  BY ElementsAreMessages
<1>2. \A k \in Nat, i \in 1..n : step[<<k, i>>] = k + list[i].delay
  OBVIOUS
<1>3. step \in [Nat \X (1..n) -> Nat]
  BY <1>1
<1> HIDE DEF step
<1>4. PICK f : f \in Iterates(Nat, 0, step, n)
  BY <1>1, <1>3, IteratesExist
<1>5. /\ f \in [0..n -> Nat]
      /\ f = [i \in 0..n |-> IF i = 0 THEN 0 ELSE step[<<f[i - 1], i>>]]
  BY <1>4 DEF Iterates
<1>6. ASSUME NEW i \in 0..n, i # 0
      PROVE  step[<<f[i - 1], i>>] = f[i - 1] + list[i].delay
  <2>1. i \in 1..n /\ f[i - 1] \in Nat
    BY <1>1, <1>5, <1>6
  <2> QED BY <2>1, <1>2

<1>7. R(f)
  BY <1>1, <1>5, <1>6
<1>8. Elapsed(list) = CHOOSE g : R(g)
  BY DEF Elapsed
<1>9. R(Elapsed(list))
  BY <1>7, <1>8
<1>10. \A i \in 1..n : Elapsed(list)[i] = Elapsed(list)[i - 1] + list[i].delay
  BY <1>1, <1>9
<1>11. Elapsed(list)[0] = 0
  BY <1>1, <1>9
<1>12. Elapsed(list) \in [0..n -> Nat]
  <2> DEFINE e == Elapsed(list)
             T == { k \in Nat : k <= n => e[k] \in Nat }
  <2> HIDE DEF e
  <2>1. 0 \in T
    BY <1>11 DEF e
  <2>2. ASSUME NEW k \in Nat, k \in T PROVE k + 1 \in T
    BY <2>2, <1>10, <1>1 DEF e
  <2> HIDE DEF T
  <2>3. Nat \subseteq T
    BY <2>1, <2>2, SetInduction
  <2>4. \A k \in 0..n : e[k] \in Nat
    BY <2>3, <1>1 DEF T
  <2>5. e = [i \in 0..n |-> e[i]]
    BY <1>9 DEF e
  <2> QED BY <2>4, <2>5 DEF e
<1> QED BY <1>10, <1>11, <1>12

(* There is a longest prefix of messages without delay, as the loop finds. *)
LEMMA ReadyCountProperties ==
  ASSUME NEW list \in Seq(Message)
  PROVE  /\ ReadyCount(list) \in 0..Len(list)
         /\ \A i \in 1..ReadyCount(list) : list[i].delay = 0
         /\ ReadyCount(list) < Len(list) => list[ReadyCount(list) + 1].delay # 0
<1> DEFINE P(n) == /\ \A i \in 1..n : list[i].delay = 0
                   /\ n < Len(list) => list[n + 1].delay # 0
           T == { n \in 0..Len(list) : n < Len(list) => list[n + 1].delay # 0 }
<1>1. PICK n \in T : \A k \in T : n <= k
  <2>1. T # {} /\ T \subseteq Nat
    <3>1. Len(list) \in T
      OBVIOUS
    <3> QED BY <3>1
  <2> HIDE DEF T
  <2> QED BY <2>1, LeastElement
<1>2. \A i \in 1..n : list[i].delay = 0
  <2> SUFFICES ASSUME NEW i \in 1..n, list[i].delay # 0 PROVE FALSE
    OBVIOUS
  <2>1. i - 1 \in T /\ n \in Nat
    OBVIOUS
  <2> HIDE DEF T
  <2>2. n <= i - 1
    BY <2>1, <1>1
  <2> QED BY <2>1, <2>2
<1>3. n \in 0..Len(list) /\ P(n)
  BY <1>1, <1>2
<1>4. ReadyCount(list) = CHOOSE k \in 0..Len(list) : P(k)
  BY DEF ReadyCount
<1> HIDE DEF P
<1>5. ReadyCount(list) \in 0..Len(list) /\ P(ReadyCount(list))
  BY <1>3, <1>4
<1> QED BY <1>5 DEF P

(* std::find_if stops at the first message that goes later than the period *)
(* from now, or at the end.                                                *)
LEMMA ReinsertIterProperties ==
  ASSUME NEW list \in Seq(Message), NEW repeat \in Nat
  PROVE  /\ ReinsertIter(list, repeat) \in 1..(Len(list) + 1)
         /\ ReinsertIter(list, repeat) <= Len(list)
               => repeat < Elapsed(list)[ReinsertIter(list, repeat)]
         /\ \A j \in 1..(ReinsertIter(list, repeat) - 1) :
               Elapsed(list)[j] <= repeat
<1> DEFINE n == Len(list)
           e == Elapsed(list)
           P(i) == /\ i <= n => repeat < e[i]
                   /\ \A j \in 1..(i - 1) : e[j] <= repeat
           T == { i \in 1..(n + 1) : i <= n => repeat < e[i] }
<1>1. n \in Nat /\ e \in [0..n -> Nat]
  BY ElapsedProperties
<1> HIDE DEF e
<1>2. PICK i \in T : \A k \in T : i <= k
  <2>1. n + 1 \in T /\ T \subseteq Nat
    BY <1>1
  <2> HIDE DEF T
  <2> QED BY <2>1, LeastElement
<1>3. \A j \in 1..(i - 1) : e[j] <= repeat
  <2> SUFFICES ASSUME NEW j \in 1..(i - 1), ~ (e[j] <= repeat) PROVE FALSE
    OBVIOUS
  <2>1. e[j] \in Nat /\ j \in T
    BY <1>1, <1>2
  <2> QED BY <2>1, <1>2
<1>4. i \in 1..(n + 1) /\ P(i)
  BY <1>2, <1>3
<1>5. ReinsertIter(list, repeat) = CHOOSE k \in 1..(n + 1) : P(k)
  BY DEF ReinsertIter, e
<1> HIDE DEF P
<1>6. ReinsertIter(list, repeat) \in 1..(n + 1) /\ P(ReinsertIter(list, repeat))
  BY <1>4, <1>5
<1> QED BY <1>6 DEF P, e

(* The lists that can be waited for: their durations fit the timer, and    *)
(* nothing in front should have been sent already.                         *)
Waitable ==
    { list \in Seq(Message) : /\ \A i \in 1..Len(list) : Fits(list[i])
                              /\ list # <<>> => 0 < list[1].delay }

(* What is left in newDelay when std::find_if has stopped: never below     *)
(* zero, and less than the delay of the message it stopped at.             *)
LEMMA NewDelayProperties ==
  ASSUME NEW list \in Seq(Message), NEW repeat \in Nat,
         NEW at, at = ReinsertIter(list, repeat)
  PROVE  /\ at \in 1..(Len(list) + 1)
         /\ repeat - Elapsed(list)[at - 1] \in 0..repeat
         /\ at = 1 => repeat - Elapsed(list)[at - 1] = repeat
         /\ at <= Len(list) =>
               repeat - Elapsed(list)[at - 1] < list[at].delay
<1>1. /\ at \in 1..(Len(list) + 1)
      /\ at <= Len(list) => repeat < Elapsed(list)[at]
      /\ \A j \in 1..(at - 1) : Elapsed(list)[j] <= repeat
  BY ReinsertIterProperties
<1>2. /\ Elapsed(list) \in [0..Len(list) -> Nat]
      /\ Elapsed(list)[0] = 0
      /\ \A i \in 1..Len(list) :
            Elapsed(list)[i] = Elapsed(list)[i - 1] + list[i].delay
  BY ElapsedProperties
<1>3. Elapsed(list)[at - 1] \in 0..repeat
  BY <1>1, <1>2
<1>4. at <= Len(list) => repeat - Elapsed(list)[at - 1] < list[at].delay
  BY <1>1, <1>2, <1>3, ElementsAreMessages
<1> QED BY <1>1, <1>2, <1>3, <1>4

(* The list with a repeated message put back, element by element.          *)
LEMMA ReinsertShape ==
  ASSUME NEW list \in Seq(Message), NEW m \in Message
  PROVE  LET at       == ReinsertIter(list, m.repeat)
             newDelay == m.repeat - Elapsed(list)[at - 1]
             new      == Reinsert(list, m)
         IN  /\ new \in Seq(Message)
             /\ Len(new) = Len(list) + 1
             /\ \A i \in 1..(at - 1) : new[i] = list[i]
             /\ new[at] = Requeued(m, newDelay)
             /\ at <= Len(list) =>
                   new[at + 1] = [list[at] EXCEPT !.delay = @ - newDelay]
             /\ \A i \in (at + 2)..(Len(list) + 1) : new[i] = list[i - 1]
<1> DEFINE at       == ReinsertIter(list, m.repeat)
           newDelay == m.repeat - Elapsed(list)[at - 1]
           before   == SubSeq(list, 1, at - 1)
           after    == [i \in 1..(Len(list) - at + 1) |->
                           IF i = 1
                           THEN [list[at] EXCEPT !.delay = @ - newDelay]
                           ELSE list[at + i - 1]]
<1>1. /\ at \in 1..(Len(list) + 1)
      /\ newDelay \in 0..m.repeat
      /\ at <= Len(list) => newDelay < list[at].delay
  BY NewDelayProperties DEF Message
<1>2. Reinsert(list, m) = before \o <<Requeued(m, newDelay)>> \o after
  BY DEF Reinsert
<1>3. Requeued(m, newDelay) \in Message
  <2>1. newDelay \in Nat /\ m.count \in Nat /\ m.repeat \in Nat
    BY <1>1 DEF Message
  <2>2. (IF m.count = 0 THEN 0 ELSE m.count - 1) \in Nat
    BY <2>1
  <2> HIDE DEF newDelay
  <2> QED BY <2>1, <2>2 DEF Requeued, Message
<1> HIDE DEF at, newDelay
<1>a. list[at] \in Message \/ at = Len(list) + 1
  BY <1>1, ElementsAreMessages
<1>4. /\ before \in Seq(Message) /\ Len(before) = at - 1
      /\ \A i \in 1..(at - 1) : before[i] = list[i]
  BY <1>1
<1>5. after \in Seq(Message) /\ Len(after) = Len(list) - at + 1
  <2>1. ASSUME NEW i \in 1..(Len(list) - at + 1) PROVE after[i] \in Message
    <3>1. CASE i = 1
      <4>1. list[at] \in Message /\ list[at].delay - newDelay \in Nat
        BY <1>1, <3>1, ElementsAreMessages
      <4> QED BY <4>1, <3>1 DEF Message
    <3>2. CASE i # 1
      BY <1>1, <3>2, ElementsAreMessages
    <3> QED BY <3>1, <3>2
  <2>2. after \in [1..(Len(list) - at + 1) -> Message]
    BY <2>1
  <2>3. Len(list) - at + 1 \in Nat
    BY <1>1
  <2> HIDE DEF after
  <2> QED BY <2>2, <2>3, FunctionIsSequence
<1>6. \A i \in 2..(Len(list) - at + 1) : after[i] = list[at + i - 1]
  OBVIOUS
<1>7. at <= Len(list) =>
         after[1] = [list[at] EXCEPT !.delay = @ - newDelay]
  BY <1>1
<1> HIDE DEF before, after
<1> DEFINE new == before \o <<Requeued(m, newDelay)>> \o after
<1>8. /\ new \in Seq(Message)
      /\ Len(new) = Len(before) + 1 + Len(after)
      /\ \A i \in 1..Len(before) : new[i] = before[i]
      /\ new[Len(before) + 1] = Requeued(m, newDelay)
      /\ \A i \in 1..Len(after) : new[Len(before) + 1 + i] = after[i]
  <2> DEFINE x == Requeued(m, newDelay)
  <2>1. x \in Message
    BY <1>3
  <2> HIDE DEF x
  <2>2. before \in Seq(Message) /\ after \in Seq(Message)
    BY <1>4, <1>5
  <2>3. new = before \o <<x>> \o after
    BY DEF new, x
  <2> HIDE DEF new
  <2>4. new \in Seq(Message) /\ Len(new) = Len(before) + 1 + Len(after)
    BY <2>1, <2>2, <2>3, InsertedElement
  <2>5. \A i \in 1..Len(before) : new[i] = before[i]
    BY <2>1, <2>2, <2>3, InsertedElement
  <2>6. new[Len(before) + 1] = x
    BY <2>1, <2>2, <2>3, InsertedElement
  <2>7. \A i \in 1..Len(after) : new[Len(before) + 1 + i] = after[i]
    BY <2>1, <2>2, <2>3, InsertedElement
  <2> QED BY <2>4, <2>5, <2>6, <2>7 DEF x
<1> HIDE DEF new
<1>9. /\ Len(new) = Len(list) + 1
      /\ \A i \in 1..(at - 1) : new[i] = list[i]
      /\ new[at] = Requeued(m, newDelay)
      /\ \A i \in 1..(Len(list) - at + 1) : new[at + i] = after[i]
  <2>1. Len(before) + 1 = at /\ Len(after) = Len(list) - at + 1
    BY <1>1, <1>4, <1>5
  <2>2. \A i \in 1..(at - 1) : new[i] = list[i]
    BY <2>1, <1>1, <1>4, <1>8
  <2>3. Len(new) = Len(list) + 1
    <3>1. Len(new) = at + Len(after)
      BY <1>8, <2>1
    <3> QED BY <3>1, <2>1, <1>1
  <2>4. new[at] = Requeued(m, newDelay)
    BY <1>8, <2>1
  <2>5. \A i \in 1..(Len(list) - at + 1) : new[at + i] = after[i]
    BY <1>8, <2>1
  <2> QED BY <2>2, <2>3, <2>4, <2>5
<1>10. \A i \in (at + 2)..(Len(list) + 1) : new[i] = list[i - 1]
  <2> SUFFICES ASSUME NEW i \in (at + 2)..(Len(list) + 1)
               PROVE  new[i] = list[i - 1]
    OBVIOUS
  <2>1. i - at \in 2..(Len(list) - at + 1) /\ i = at + (i - at)
    BY <1>1
  <2>2. i - at \in 1..(Len(list) - at + 1)
    BY <2>1
  <2>3. new[at + (i - at)] = after[i - at]
    BY <1>9, <2>2
  <2>4. after[i - at] = list[at + (i - at) - 1]
    BY <1>6, <2>1
  <2> QED BY <2>1, <2>3, <2>4, <1>1
<1>11. at <= Len(list) =>
         new[at + 1] = [list[at] EXCEPT !.delay = @ - newDelay]
  BY <1>1, <1>7, <1>9
<1>12. new = Reinsert(list, m)
  BY <1>2 DEF new
<1> QED BY <1>8, <1>9, <1>10, <1>11, <1>12 DEF at, newDelay

(* Putting a message back keeps the list fit to be waited for.             *)
LEMMA ReinsertWaitable ==
  ASSUME NEW list \in Waitable, NEW m \in Message, Fits(m), IsRepeated(m)
  PROVE  Reinsert(list, m) \in Waitable \ {<<>>}
<1> DEFINE at       == ReinsertIter(list, m.repeat)
           newDelay == m.repeat - Elapsed(list)[at - 1]
           new      == Reinsert(list, m)
<1>1. /\ list \in Seq(Message)
      /\ \A i \in 1..Len(list) : Fits(list[i])
      /\ list # <<>> => 0 < list[1].delay
  BY DEF Waitable
<1>2. m.repeat \in Nat /\ 0 < m.repeat /\ m.repeat <= IntMax
  BY DEF Message, IsRepeated, Fits
<1>3. /\ at \in 1..(Len(list) + 1)
      /\ newDelay \in 0..m.repeat
      /\ at = 1 => newDelay = m.repeat
      /\ at <= Len(list) => newDelay < list[at].delay
  BY <1>1, <1>2, NewDelayProperties
<1>4. /\ new \in Seq(Message)
      /\ Len(new) = Len(list) + 1
      /\ \A i \in 1..(at - 1) : new[i] = list[i]
      /\ new[at] = Requeued(m, newDelay)
      /\ at <= Len(list) =>
            new[at + 1] = [list[at] EXCEPT !.delay = @ - newDelay]
      /\ \A i \in (at + 2)..(Len(list) + 1) : new[i] = list[i - 1]
  BY <1>1, ReinsertShape
<1> HIDE DEF at, newDelay, new
<1>5. ASSUME NEW i \in 1..Len(new) PROVE Fits(new[i])
  <2>1. CASE i < at
    BY <2>1, <1>1, <1>3, <1>4
  <2>2. CASE i = at
    BY <2>2, <1>2, <1>3, <1>4, IntMaxAssumption DEF Requeued, Fits, Message
  <2>3. CASE i = at + 1
    <3>1. at \in 1..Len(list)
      BY <2>3, <1>3, <1>4
    <3>2. /\ list[at] \in Message /\ Fits(list[at])
          /\ list[at].delay \in Nat
      BY <3>1, <1>1, ElementsAreMessages
    <3>3. new[i] = [list[at] EXCEPT !.delay = @ - newDelay]
      BY <2>3, <3>1, <1>4
    <3>4. list[at].delay - newDelay <= IntMax
      BY <3>2, <1>2, <1>3, IntMaxAssumption DEF Fits
    <3> QED BY <3>2, <3>3, <3>4 DEF Fits, Message
  <2>4. CASE at + 1 < i
    <3>1. i \in (at + 2)..(Len(list) + 1) /\ i - 1 \in 1..Len(list)
      BY <2>4, <1>3, <1>4, <1>1
    <3> QED BY <3>1, <1>1, <1>4
  <2> QED BY <2>1, <2>2, <2>3, <2>4, <1>3
<1>6. 0 < new[1].delay
  <2>1. CASE at = 1
    BY <2>1, <1>2, <1>3, <1>4 DEF Requeued, Message
  <2>2. CASE at # 1
    BY <2>2, <1>1, <1>3, <1>4
  <2> QED BY <2>1, <2>2
<1>7. new # <<>>
  BY <1>1, <1>4
<1> QED BY <1>4, <1>5, <1>6, <1>7 DEF Waitable, new

(* So does putting back all that have been sent, however many.             *)
LEMMA ReinsertAllWaitable ==
  ASSUME NEW list \in Waitable, NEW sent \in Seq(Message),
         \A i \in 1..Len(sent) : Fits(sent[i]),
         NEW protocol \in BOOLEAN
  PROVE  ReinsertAll(list, sent, protocol) \in Waitable
<1> DEFINE n == Len(sent)
           F(l, i) == IF IsRepeated(sent[i]) /\ protocol
                      THEN Reinsert(l, sent[i]) ELSE l
           R(f) == f = [i \in 0..n |-> IF i = 0 THEN list
                          ELSE IF IsRepeated(sent[i]) /\ protocol
                               THEN Reinsert(f[i - 1], sent[i])
                               ELSE f[i - 1]]
           step == [p \in Waitable \X (1..n) |-> F(p[1], p[2])]
<1>1. n \in Nat
  OBVIOUS
<1>2. ASSUME NEW l \in Waitable, NEW i \in 1..n PROVE F(l, i) \in Waitable
  <2>1. sent[i] \in Message /\ Fits(sent[i])
    OBVIOUS
  <2> QED BY <2>1, ReinsertWaitable
<1>3. \A l \in Waitable, i \in 1..n : step[<<l, i>>] = F(l, i)
  OBVIOUS
<1>4. step \in [Waitable \X (1..n) -> Waitable]
  BY <1>2
<1> HIDE DEF step
<1>5. PICK f : f \in Iterates(Waitable, list, step, n)
  BY <1>1, <1>4, IteratesExist
<1>6. /\ f \in [0..n -> Waitable]
      /\ f = [i \in 0..n |-> IF i = 0 THEN list ELSE step[<<f[i - 1], i>>]]
  BY <1>5 DEF Iterates
<1>7. ASSUME NEW i \in 0..n, i # 0
      PROVE  step[<<f[i - 1], i>>] = F(f[i - 1], i)
  <2>1. i \in 1..n /\ i - 1 \in 0..n
    BY <1>1, <1>7
  <2> HIDE DEF F, R
  <2>2. f[i - 1] \in Waitable
    BY <2>1, <1>6
  <2> QED BY <2>1, <2>2, <1>3
<1>8. R(f)
  BY <1>6, <1>7
<1>9. PICK g : R(g) /\ ReinsertAll(list, sent, protocol) = g[n]
  <2> DEFINE c == CHOOSE h : R(h)
  <2>1. R(c)
    BY <1>8
  <2>2. ReinsertAll(list, sent, protocol) = c[n]
    BY DEF ReinsertAll
  <2> QED BY <2>1, <2>2
<1> DEFINE T == { k \in Nat : k <= n => g[k] \in Waitable }
<1>10. 0 \in T
  BY <1>9, <1>1
<1>11. ASSUME NEW k \in Nat, k \in T PROVE k + 1 \in T
  <2> SUFFICES ASSUME k + 1 <= n PROVE g[k + 1] \in Waitable
    OBVIOUS
  <2>1. g[k + 1] = F(g[k], k + 1)
    BY <1>9, <1>1
  <2>2. g[k] \in Waitable /\ k + 1 \in 1..n
    BY <1>11, <1>1
  <2> HIDE DEF F
  <2> QED BY <2>1, <2>2, <1>2
<1> HIDE DEF T
<1>12. Nat \subseteq T
  BY <1>10, <1>11, SetInduction
<1> QED BY <1>12, <1>9, <1>1 DEF T

(* What remains once the ready messages are taken out can be waited for.   *)
LEMMA RestWaitable ==
  ASSUME NEW list \in Seq(Message), \A i \in 1..Len(list) : Fits(list[i])
  PROVE  /\ Rest(list) \in Waitable
         /\ Sent(list) \in Seq(Message)
         /\ \A i \in 1..Len(Sent(list)) : Fits(Sent(list)[i])
         /\ Len(Sent(list)) = ReadyCount(list)
<1> DEFINE n == ReadyCount(list)
<1>1. n \in 0..Len(list) /\ (n < Len(list) => list[n + 1].delay # 0)
  BY ReadyCountProperties
<1> HIDE DEF n
<1>2. /\ SubSeq(list, 1, n) \in Seq(Message)
      /\ Len(SubSeq(list, 1, n)) = n
      /\ \A i \in 1..n : SubSeq(list, 1, n)[i] = list[i]
  BY <1>1
<1>3. /\ SubSeq(list, n + 1, Len(list)) \in Seq(Message)
      /\ Len(SubSeq(list, n + 1, Len(list))) = Len(list) - n
      /\ \A i \in 1..(Len(list) - n) :
            SubSeq(list, n + 1, Len(list))[i] = list[n + i]
  BY <1>1
<1>4. /\ Sent(list) = SubSeq(list, 1, n)
      /\ Rest(list) = SubSeq(list, n + 1, Len(list))
  BY DEF Sent, Rest, n
<1>5. \A i \in 1..Len(Rest(list)) : Fits(Rest(list)[i])
  BY <1>1, <1>3, <1>4
<1>6. ASSUME Rest(list) # <<>> PROVE 0 < Rest(list)[1].delay
  <2>1. n < Len(list) /\ n + 1 \in 1..Len(list)
    <3>1. Rest(list) \in Seq(Message) /\ Len(Rest(list)) = Len(list) - n
      BY <1>3, <1>4
    <3>2. \A s \in Seq(Message) : s # <<>> => Len(s) # 0
      OBVIOUS
    <3>3. Len(list) - n # 0
      BY <3>1, <3>2, <1>6
    <3>4. Len(list) \in Nat
      OBVIOUS
    <3> QED BY <3>3, <3>4, <1>1
  <2>2. Rest(list)[1] = list[n + 1]
    BY <1>3, <1>4, <2>1
  <2>3. list[n + 1].delay \in Nat /\ list[n + 1].delay # 0
    BY <1>1, <2>1, ElementsAreMessages
  <2> QED BY <2>2, <2>3
<1>7. Rest(list) \in Waitable
  BY <1>3, <1>4, <1>5, <1>6 DEF Waitable
<1>8. \A i \in 1..Len(Sent(list)) : Fits(Sent(list)[i])
  BY <1>1, <1>2, <1>4
<1> QED BY <1>2, <1>4, <1>7, <1>8 DEF n

-----------------------------------------------------------------------------
(* The inductive invariant: the types, the durations that fit the timer,   *)
(* and the agreement of list, timer and protocol.                          *)
DurationsFit == \A i \in 1..Len(m_msgsToSend) : Fits(m_msgsToSend[i])

IInv == TypeOK /\ DurationsFit /\ NothingStranded /\ WaitsForLater

(* The timer has taken the delay of the front message of what is left.     *)
FrontSpent(left) ==
  /\ 1 \in 1..Len(left)
  /\ left[1].delay \in 1..IntMax
  /\ m_timer' = left[1].delay
  /\ m_msgsToSend' \in Seq(Message)
  /\ Len(m_msgsToSend') = Len(left)
  /\ m_msgsToSend'[1].delay = 0
  /\ m_msgsToSend'[1].id = left[1].id
  /\ m_msgsToSend'[1].repeat = left[1].repeat
  /\ m_msgsToSend'[1].count = left[1].count
  /\ \A i \in 1..Len(left) : i # 1 => m_msgsToSend'[i] = left[i]

(* sendPendingAndWait starts the timer for the delay of the front message, *)
(* which is then spent, and changes nothing else of what is left.          *)
LEMMA TimerTakesFront ==
  ASSUME NEW list \in Seq(Message), \A i \in 1..Len(list) : Fits(list[i]),
         NEW protocol \in BOOLEAN, SendPendingAndWait(list, protocol),
         NEW left, left = Remaining(list, protocol)
  PROVE  /\ left \in Seq(Message)
         /\ \A i \in 1..Len(left) : Fits(left[i])
         /\ left = <<>> => m_msgsToSend' = <<>> /\ m_timer' = NotRunning
         /\ left # <<>> => FrontSpent(left)
<1>1. left \in Waitable
  BY RestWaitable, ReinsertAllWaitable DEF Remaining
<1>2. /\ left \in Seq(Message)
      /\ \A i \in 1..Len(left) : Fits(left[i])
      /\ left # <<>> => 0 < left[1].delay
  BY <1>1 DEF Waitable
<1>3. /\ m_msgsToSend' = IF left = <<>> THEN <<>>
                         ELSE [left EXCEPT ![1].delay = 0]
      /\ m_timer' = IF left = <<>> THEN NotRunning
                    ELSE TimerStart(ToInt(left[1].delay))
  BY DEF SendPendingAndWait
<1>4. ASSUME left # <<>>
      PROVE  FrontSpent(left)
  <2>1. 1 \in 1..Len(left)
    BY <1>2, <1>4
  <2>2. left[1] \in Message /\ left[1].delay \in 1..IntMax
    BY <1>2, <1>4, <2>1, ElementsAreMessages, IntMaxAssumption DEF Fits
  <2> DEFINE front == [left[1] EXCEPT !.delay = 0]
  <2>3. /\ front \in Message /\ front.delay = 0 /\ front.id = left[1].id
        /\ front.repeat = left[1].repeat /\ front.count = left[1].count
    BY <2>2 DEF Message
  <2>4. m_msgsToSend' = [left EXCEPT ![1] = front]
    BY <1>3, <1>4
  <2> HIDE DEF front
  <2>5. /\ m_msgsToSend' \in Seq(Message)
        /\ Len(m_msgsToSend') = Len(left)
        /\ m_msgsToSend'[1] = front
        /\ \A i \in 1..Len(left) : i # 1 => m_msgsToSend'[i] = left[i]
    BY <1>2, <2>1, <2>3, <2>4
  <2>6. m_timer' = left[1].delay
    <3>1. ToInt(left[1].delay) = left[1].delay
      BY <2>2, ToIntKeeps
    <3> QED BY <3>1, <2>2, <1>3, <1>4 DEF TimerStart
  <2> QED BY <2>1, <2>2, <2>3, <2>5, <2>6 DEF FrontSpent
<1> QED BY <1>2, <1>3, <1>4

(* sendPendingAndWait establishes the invariant from any list whose        *)
(* durations fit.                                                          *)
LEMMA SendPendingAndWaitKeeps ==
  ASSUME NEW list \in Seq(Message), \A i \in 1..Len(list) : Fits(list[i]),
         NEW protocol \in BOOLEAN, protocol, callbacks \in Nat,
         SendPendingAndWait(list, protocol)
  PROVE  /\ m_msgsToSend' \in Seq(Message)
         /\ m_protocol' \in BOOLEAN
         /\ m_timer' \in {NotRunning} \cup 0..IntMax
         /\ callbacks' \in callbacks..(callbacks + 1)
         /\ handed' \in Seq(Ids)
         /\ m_msgsToSend' # <<>> => 0 < m_timer'
         /\ DurationsFit'
         /\ NothingStranded'
<1> DEFINE left == Remaining(list, protocol)
<1>1. /\ left \in Seq(Message)
      /\ \A i \in 1..Len(left) : Fits(left[i])
      /\ left = <<>> => m_msgsToSend' = <<>> /\ m_timer' = NotRunning
      /\ left # <<>> => FrontSpent(left)
  BY TimerTakesFront
<1>2. /\ handed' = [i \in 1..ReadyCount(list) |-> list[i].id]
      /\ callbacks' = IF Sent(list) = <<>> THEN callbacks ELSE callbacks + 1
      /\ m_protocol' = protocol
  BY DEF SendPendingAndWait
<1>3. handed' \in Seq(Ids)
  <2>1. ReadyCount(list) \in 0..Len(list)
    BY ReadyCountProperties
  <2>2. \A i \in 1..ReadyCount(list) : list[i].id \in Ids
    BY <2>1, ElementsAreMessages
  <2> QED BY <2>1, <2>2, <1>2
<1>4. callbacks' \in callbacks..(callbacks + 1)
  BY <1>2
<1> HIDE DEF left
<1>5. CASE left = <<>>
  BY <1>1, <1>2, <1>3, <1>4, <1>5 DEF DurationsFit, NothingStranded, NotRunning
<1>6. CASE left # <<>>
  <2>1. /\ m_msgsToSend' \in Seq(Message) /\ Len(m_msgsToSend') = Len(left)
        /\ m_msgsToSend'[1].delay = 0
        /\ m_msgsToSend'[1].repeat = left[1].repeat
        /\ \A i \in 1..Len(left) : i # 1 => m_msgsToSend'[i] = left[i]
        /\ 1 \in 1..Len(left) /\ left[1].delay \in 1..IntMax
        /\ m_timer' = left[1].delay
    BY <1>1, <1>6 DEF FrontSpent
  <2>2. DurationsFit'
    BY <1>1, <2>1, IntMaxAssumption DEF DurationsFit, Fits
  <2>3. NothingStranded'
    BY <1>2, <2>1 DEF NothingStranded, NotRunning
  <2> QED BY <1>2, <1>3, <1>4, <2>1, <2>2, <2>3
<1> QED BY <1>5, <1>6

(* With nothing to send and no timer there is nothing to be stranded.      *)
LEMMA EmptyIsFine ==
  /\ m_msgsToSend = <<>> => DurationsFit
  /\ m_msgsToSend = <<>> /\ m_timer = NotRunning => NothingStranded
<1>1. Len(<<>>) = 0
  OBVIOUS
<1> QED BY <1>1 DEF DurationsFit, NothingStranded

(* The same of the next state.                                             *)
LEMMA EmptyIsFineNext ==
  /\ m_msgsToSend' = <<>> => DurationsFit'
  /\ m_msgsToSend' = <<>> /\ m_timer' = NotRunning => NothingStranded'
<1>1. Len(<<>>) = 0
  OBVIOUS
<1> QED BY <1>1 DEF DurationsFit, NothingStranded

(* The constructor establishes the invariant.                              *)
LEMMA InitEstablishes == Init => IInv
<1> SUFFICES ASSUME Init PROVE IInv
  OBVIOUS
<1>1. TypeOK
  <2>1. m_msgsToSend \in Seq(Message)
    BY DEF Init
  <2>2. handed \in Seq(Ids)
    BY DEF Init
  <2>3. m_timer \in {NotRunning} \cup 0..IntMax
    BY DEF Init
  <2>4. callbacks \in 0..MaxNesting
    BY NestingAssumption DEF Init
  <2>5. script \in Scripts \cup {<<>>}
    BY DEF Init
  <2>6. phase \in {"stopped", "sending", "completed"}
    BY DEF Init
  <2>7. m_protocol \in BOOLEAN
    BY DEF Init
  <2> QED BY <2>1, <2>2, <2>3, <2>4, <2>5, <2>6, <2>7 DEF TypeOK
<1>2. DurationsFit /\ NothingStranded
  BY EmptyIsFine DEF Init
<1>3. WaitsForLater
  BY DEF Init, WaitsForLater
<1> QED BY <1>1, <1>2, <1>3 DEF IInv

(* Every operation keeps it.                                               *)
LEMMA NextKeeps == IInv /\ [Next]_vars => IInv'
<1> SUFFICES ASSUME IInv, [Next]_vars PROVE IInv'
  OBVIOUS
<1>1. TypeOK /\ DurationsFit /\ NothingStranded /\ WaitsForLater
  BY DEF IInv
<1> USE IntMaxAssumption, NestingAssumption DEF IInv
<1>2. CASE Start
  <2>1. /\ script' \in Scripts /\ callbacks = 0 /\ phase' = "sending"
        /\ SendPendingAndWait(script', TRUE)
    BY <1>2 DEF Start
  <2>2. /\ script' \in Seq(Message)
        /\ \A i \in 1..Len(script') : Fits(script'[i])
    BY <2>1, ScriptsAssumption
  <2>3. /\ m_msgsToSend' \in Seq(Message)
        /\ m_protocol' \in BOOLEAN
        /\ m_timer' \in {NotRunning} \cup 0..IntMax
        /\ callbacks' \in callbacks..(callbacks + 1)
        /\ handed' \in Seq(Ids)
        /\ m_msgsToSend' # <<>> => 0 < m_timer'
        /\ DurationsFit'
        /\ NothingStranded'
    BY <2>1, <2>2, SendPendingAndWaitKeeps
  <2>4. TypeOK'
    BY <2>1, <2>3 DEF TypeOK
  <2> QED BY <2>3, <2>4 DEF WaitsForLater
<1>3. CASE Stop
  <2>1. TypeOK'
    <3>1. m_msgsToSend' \in Seq(Message) /\ handed' \in Seq(Ids)
      BY <1>3 DEF Stop
    <3>2. m_protocol' \in BOOLEAN
      BY <1>3 DEF Stop
    <3>3. /\ m_timer' \in {NotRunning} \cup 0..IntMax
          /\ callbacks' \in 0..MaxNesting
      BY <1>1, <1>3 DEF Stop, TypeOK
    <3>4. /\ phase' \in {"stopped", "sending", "completed"}
          /\ script' \in Scripts \cup {<<>>}
      BY <1>3 DEF Stop
    <3> QED BY <3>1, <3>2, <3>3, <3>4 DEF TypeOK
  <2> QED BY <2>1, <1>3, EmptyIsFineNext DEF Stop, WaitsForLater
<1>4. CASE Tick
  <2>1. /\ m_timer' = m_timer - 1 /\ 0 < m_timer /\ handed' = <<>>
        /\ UNCHANGED <<m_msgsToSend, m_protocol, callbacks, phase, script>>
    BY <1>4 DEF Tick
  <2>2. m_timer \in 1..IntMax /\ m_timer' \in 0..IntMax
    BY <1>1, <2>1 DEF TypeOK, NotRunning
  <2>3. TypeOK'
    BY <1>1, <2>1, <2>2 DEF TypeOK
  <2>4. m_timer # NotRunning /\ m_timer' # NotRunning
    BY <2>2 DEF NotRunning
  <2>5. NothingStranded'
    BY <1>1, <2>1, <2>4 DEF NothingStranded
  <2>6. DurationsFit'
    BY <1>1, <2>1 DEF DurationsFit
  <2> QED BY <2>1, <2>3, <2>5, <2>6 DEF WaitsForLater
<1>5. CASE Timeout
  <2>1. /\ m_timer = 0 /\ callbacks < MaxNesting
        /\ SendPendingAndWait(m_msgsToSend, m_protocol)
        /\ phase' = phase /\ script' = script
    BY <1>5 DEF Timeout
  <2>2. m_msgsToSend # <<>> /\ m_protocol
    BY <1>1, <2>1 DEF NothingStranded, NotRunning
  <2>3. /\ m_msgsToSend \in Seq(Message) /\ m_protocol \in BOOLEAN
        /\ callbacks \in Nat
        /\ \A i \in 1..Len(m_msgsToSend) : Fits(m_msgsToSend[i])
    BY <1>1 DEF TypeOK, DurationsFit
  <2>4. /\ m_msgsToSend' \in Seq(Message)
        /\ m_protocol' \in BOOLEAN
        /\ m_timer' \in {NotRunning} \cup 0..IntMax
        /\ callbacks' \in callbacks..(callbacks + 1)
        /\ handed' \in Seq(Ids)
        /\ m_msgsToSend' # <<>> => 0 < m_timer'
        /\ DurationsFit'
        /\ NothingStranded'
    BY <2>1, <2>2, <2>3, SendPendingAndWaitKeeps
  <2>5. TypeOK'
    BY <1>1, <2>1, <2>4 DEF TypeOK
  <2> QED BY <2>4, <2>5 DEF WaitsForLater
<1>6. CASE SendReturns
  BY <1>1, <1>6
     DEF SendReturns, TypeOK, DurationsFit, NothingStranded, WaitsForLater
<1>7. CASE SendReturnsLast
  <2>1. /\ m_timer = NotRunning /\ m_timer' = NotRunning
        /\ m_msgsToSend' = <<>>
    BY <1>1, <1>7 DEF SendReturnsLast, NothingStranded
  <2>2. TypeOK'
    <3>1. m_msgsToSend' \in Seq(Message) /\ handed' \in Seq(Ids)
      BY <1>1, <1>7 DEF SendReturnsLast, TypeOK
    <3>2. m_protocol' \in BOOLEAN
      BY <1>1, <1>7 DEF SendReturnsLast, TypeOK
    <3>3. m_timer' \in {NotRunning} \cup 0..IntMax
      BY <2>1
    <3>4. callbacks' \in 0..MaxNesting
      BY <1>1, <1>7 DEF SendReturnsLast, TypeOK
    <3>5. /\ phase' \in {"stopped", "sending", "completed"}
          /\ script' \in Scripts \cup {<<>>}
      BY <1>7 DEF SendReturnsLast
    <3> QED BY <3>1, <3>2, <3>3, <3>4, <3>5 DEF TypeOK
  <2> QED BY <2>1, <2>2, EmptyIsFineNext DEF WaitsForLater
<1>8. CASE UNCHANGED vars
  BY <1>1, <1>8
     DEF vars, TypeOK, DurationsFit, NothingStranded, WaitsForLater
<1> QED BY <1>2, <1>3, <1>4, <1>5, <1>6, <1>7, <1>8 DEF Next

(* The inductive invariant holds in every state of every behaviour.        *)
THEOREM Invariance == Spec => []IInv
<1>1. Init => IInv
  BY InitEstablishes
<1>2. IInv /\ [Next]_vars => IInv'
  BY NextKeeps
<1> QED BY <1>1, <1>2, PTL DEF Spec

(* The variables keep their types; in particular the timer is never given  *)
(* an interval outside the range of int.                                   *)
THEOREM TypeCorrect == Spec => []TypeOK
<1>1. IInv => TypeOK
  BY DEF IInv
<1> QED BY <1>1, Invariance, PTL

(* In every state messages that wait have a running timer and a protocol,  *)
(* and without messages no timer runs.                                     *)
THEOREM NothingIsStranded == Spec => []NothingStranded
<1>1. IInv => NothingStranded
  BY DEF IInv
<1> QED BY <1>1, Invariance, PTL

(* assert(0 < delay) of sendPendingAndWait never fails.                    *)
THEOREM WaitsAreForLater == Spec => []WaitsForLater
<1>1. IInv => WaitsForLater
  BY DEF IInv
<1> QED BY <1>1, Invariance, PTL

-----------------------------------------------------------------------------
(* Putting a repeated message back disturbs nobody: it is sent one period  *)
(* from now and every message already in the list exactly when it would    *)
(* have been sent, for lists of any length and any delays.                 *)
THEOREM ReinsertKeepsDueTimes ==
  ASSUME NEW list \in Seq(Message), NEW m \in Message,
         NEW at, at = ReinsertIter(list, m.repeat)
  PROVE  /\ Elapsed(Reinsert(list, m))[at] = m.repeat
         /\ \A i \in 1..(at - 1) :
               Elapsed(Reinsert(list, m))[i] = Elapsed(list)[i]
         /\ \A i \in at..Len(list) :
               Elapsed(Reinsert(list, m))[i + 1] = Elapsed(list)[i]
<1> DEFINE new == Reinsert(list, m)
           n   == Len(list)
           e   == Elapsed(list)
           f   == Elapsed(new)
           d   == m.repeat - e[at - 1]
<1>1. /\ at \in 1..(n + 1) /\ n \in Nat
      /\ m.repeat \in Nat /\ d \in 0..m.repeat
  <2>1. m.repeat \in Nat
    BY DEF Message
  <2>2. \A k : k = ReinsertIter(list, m.repeat) =>
                  /\ k \in 1..(Len(list) + 1)
                  /\ m.repeat - Elapsed(list)[k - 1] \in 0..m.repeat
    BY <2>1, NewDelayProperties
  <2>3. Len(list) \in Nat
    OBVIOUS
  <2> QED BY <2>1, <2>2, <2>3
<1>2. /\ new \in Seq(Message) /\ Len(new) = n + 1
      /\ \A i \in 1..(at - 1) : new[i] = list[i]
      /\ new[at] = Requeued(m, d)
      /\ at <= n => new[at + 1] = [list[at] EXCEPT !.delay = @ - d]
      /\ \A i \in (at + 2)..(n + 1) : new[i] = list[i - 1]
  BY ReinsertShape
<1>3. /\ e \in [0..n -> Nat] /\ e[0] = 0
      /\ \A i \in 1..n : e[i] = e[i - 1] + list[i].delay
  BY ElapsedProperties
<1> HIDE DEF new
<1>4. /\ f \in [0..(n + 1) -> Nat] /\ f[0] = 0
      /\ \A i \in 1..(n + 1) : f[i] = f[i - 1] + new[i].delay
  BY <1>2, ElapsedProperties
<1>5. \A i \in 1..n : list[i] \in Message /\ list[i].delay \in Nat
  BY ElementsAreMessages
<1>6. new[at].delay = d
  <2> HIDE DEF d
  <2> QED BY <1>2 DEF Requeued, Message
<1>7. at <= n => new[at + 1].delay = list[at].delay - d
  <2> SUFFICES ASSUME at <= n PROVE new[at + 1].delay = list[at].delay - d
    OBVIOUS
  <2>1. new[at + 1] = [list[at] EXCEPT !.delay = @ - d]
    BY <1>2
  <2>2. list[at] \in Message
    BY <1>1, <1>5
  <2> HIDE DEF d
  <2> QED BY <2>1, <2>2 DEF Message
<1>d. d = m.repeat - e[at - 1]
  OBVIOUS
<1> HIDE DEF n, e, f, d
<1>8. \A i \in 0..(at - 1) : f[i] = e[i]
  <2> DEFINE T == { k \in Nat : k <= at - 1 => f[k] = e[k] }
  <2>1. 0 \in T
    BY <1>3, <1>4
  <2>2. ASSUME NEW k \in Nat, k \in T PROVE k + 1 \in T
    <3> SUFFICES ASSUME k + 1 <= at - 1 PROVE f[k + 1] = e[k + 1]
      OBVIOUS
    <3>1. k + 1 \in 1..(at - 1) /\ k + 1 \in 1..n /\ k + 1 \in 1..(n + 1)
      BY <1>1
    <3>2. f[k] = e[k] /\ k + 1 - 1 = k
      BY <2>2, <1>1
    <3>3. f[k + 1] = f[k] + list[k + 1].delay
      BY <3>1, <3>2, <1>2, <1>4
    <3> QED BY <3>1, <3>2, <3>3, <1>3
  <2> HIDE DEF T
  <2>3. Nat \subseteq T
    BY <2>1, <2>2, SetInduction
  <2> QED BY <2>3, <1>1 DEF T
<1>9. f[at] = m.repeat
  <2>1. f[at] = f[at - 1] + d /\ f[at - 1] = e[at - 1] /\ e[at - 1] \in Nat
    <3>1. at \in 1..(n + 1) /\ at - 1 \in 0..n /\ at - 1 \in 0..(at - 1)
      BY <1>1
    <3> QED BY <3>1, <1>3, <1>4, <1>6, <1>8
  <2> QED BY <2>1, <1>1, <1>d
<1>10. \A i \in at..n : f[i + 1] = e[i]
  <2> DEFINE T == { k \in Nat : at + k <= n => f[at + k + 1] = e[at + k] }
  <2>1. 0 \in T
    <3> SUFFICES ASSUME at <= n PROVE f[at + 1] = e[at]
      BY <1>1
    <3>1. f[at + 1] = m.repeat + (list[at].delay - d)
      <4>1. at + 1 \in 1..(n + 1) /\ (at + 1) - 1 = at
        BY <1>1
      <4> QED BY <4>1, <1>4, <1>7, <1>9
    <3>2. e[at] = e[at - 1] + list[at].delay /\ e[at - 1] \in Nat
      BY <1>1, <1>3
    <3>3. list[at].delay \in Nat
      BY <1>1, <1>5
    <3> QED BY <3>1, <3>2, <3>3, <1>1, <1>d
  <2>2. ASSUME NEW k \in Nat, k \in T PROVE k + 1 \in T
    <3> SUFFICES ASSUME at + (k + 1) <= n
                 PROVE  f[at + (k + 1) + 1] = e[at + (k + 1)]
      OBVIOUS
    <3> DEFINE j == at + k + 1
    <3>1. /\ j \in 1..n /\ j + 1 \in 1..(n + 1)
          /\ j + 1 \in (at + 2)..(n + 1) /\ j - 1 = at + k
          /\ at + (k + 1) = j /\ at + k <= n
      BY <1>1
    <3>2. f[j] = e[j - 1]
      BY <2>2, <3>1
    <3> HIDE DEF j
    <3>3. f[j + 1] = f[j] + list[j].delay
      <4>1. (j + 1) - 1 = j
        BY <3>1
      <4> QED BY <3>1, <4>1, <1>2, <1>4
    <3>4. f[j + 1] = e[j]
      BY <3>1, <3>2, <3>3, <1>3
    <3> QED BY <3>1, <3>4
  <2> HIDE DEF T
  <2>3. Nat \subseteq T
    BY <2>1, <2>2, SetInduction
  <2>4. ASSUME NEW i \in at..n PROVE f[i + 1] = e[i]
    <3>1. i - at \in Nat /\ at + (i - at) = i
      BY <1>1
    <3>2. i - at \in T
      BY <2>3, <3>1
    <3> QED BY <3>1, <3>2 DEF T
  <2> QED BY <2>4
<1> QED BY <1>1, <1>8, <1>9, <1>10 DEF new, n, e, f

-----------------------------------------------------------------------------
(* The promise: the list of relative delays and the timer, read as a       *)
(* calendar, make the steps of SendSchedule.                               *)

(* Entries of a calendar.                                                  *)
Entry == [msg : Ids, due : Nat, period : Nat, times : Nat]

(* What the calendar of a list holds.                                      *)
LEMMA CalendarProperties ==
  ASSUME NEW list \in Seq(Message), NEW start \in Nat
  PROVE  /\ CalendarOf(list, start) \in Seq(Entry)
         /\ Len(CalendarOf(list, start)) = Len(list)
         /\ DOMAIN CalendarOf(list, start) = 1..Len(list)
         /\ \A i \in 1..Len(list) :
               /\ CalendarOf(list, start)[i] \in Entry
               /\ CalendarOf(list, start)[i].msg = list[i].id
               /\ CalendarOf(list, start)[i].due = start + Elapsed(list)[i]
               /\ CalendarOf(list, start)[i].period = list[i].repeat
               /\ CalendarOf(list, start)[i].times
                     = IF list[i].repeat = 0 THEN 1 ELSE list[i].count
<1> DEFINE n == Len(list)
           entry(i) == [msg    |-> list[i].id,
                        due    |-> start + Elapsed(list)[i],
                        period |-> list[i].repeat,
                        times  |-> IF list[i].repeat = 0
                                   THEN 1 ELSE list[i].count]
<1>1. ASSUME NEW i \in 1..n PROVE entry(i) \in Entry
  <2>1. /\ list[i].delay \in Nat /\ list[i].repeat \in Nat
        /\ list[i].count \in Nat /\ list[i].id \in Ids
    BY ElementsAreMessages
  <2>2. Elapsed(list)[i] \in Nat
    BY ElapsedProperties
  <2> QED BY <2>1, <2>2 DEF Entry
<1>2. CalendarOf(list, start) = [i \in 1..n |-> entry(i)]
  BY DEF CalendarOf
<1>3. \A i \in 1..n : CalendarOf(list, start)[i] = entry(i)
  BY <1>2
<1>4. n \in Nat /\ [i \in 1..n |-> entry(i)] \in [1..n -> Entry]
  BY <1>1
<1>5. \A i \in 1..n :
               /\ entry(i).msg = list[i].id
               /\ entry(i).due = start + Elapsed(list)[i]
               /\ entry(i).period = list[i].repeat
               /\ entry(i).times
                     = IF list[i].repeat = 0 THEN 1 ELSE list[i].count
  OBVIOUS
<1> HIDE DEF entry
<1>6. CalendarOf(list, start) \in Seq(Entry) /\ Len(CalendarOf(list, start)) = n
  BY <1>2, <1>4, FunctionIsSequence
<1> QED BY <1>1, <1>2, <1>3, <1>5, <1>6

(* Two lists of messages that are alike but for the delays, and whose      *)
(* calendars place every message at the same time, have the same calendar. *)
LEMMA SameCalendar ==
  ASSUME NEW n \in Nat, NEW c, NEW d,
         c \in Seq(Entry), d \in Seq(Entry), Len(c) = n, Len(d) = n,
         \A i \in 1..n : c[i] = d[i]
  PROVE  c = d
OBVIOUS

(* Delays are not negative: later messages are due later.                  *)
LEMMA ElapsedMonotone ==
  ASSUME NEW list \in Seq(Message), NEW i \in 0..Len(list), NEW j \in i..Len(list)
  PROVE  Elapsed(list)[i] <= Elapsed(list)[j]
<1> DEFINE n == Len(list)
           e == Elapsed(list)
           T == { k \in Nat : i + k <= n => e[i] <= e[i + k] }
<1>1. /\ e \in [0..n -> Nat] /\ n \in Nat
      /\ \A k \in 1..n : e[k] = e[k - 1] + list[k].delay
      /\ \A k \in 1..n : list[k].delay \in Nat
  BY ElapsedProperties, ElementsAreMessages
<1> HIDE DEF e, n
<1>2. 0 \in T
  BY <1>1
<1>3. ASSUME NEW k \in Nat, k \in T PROVE k + 1 \in T
  <2> SUFFICES ASSUME i + (k + 1) <= n PROVE e[i] <= e[i + (k + 1)]
    OBVIOUS
  <2>1. /\ i + k + 1 \in 1..n /\ i + k + 1 - 1 = i + k /\ i + (k + 1) = i + k + 1
        /\ i + k \in 0..n /\ i \in 0..n
    BY <1>1 DEF n
  <2>2. e[i] <= e[i + k]
    BY <1>3, <2>1
  <2>3. \A x \in 1..n : \A y : y = x - 1 => e[x] = e[y] + list[x].delay
    BY <1>1
  <2>4. e[i + k + 1] = e[i + k] + list[i + k + 1].delay
    BY <2>1, <2>3
  <2>5. list[i + k + 1].delay \in Nat /\ e[i] \in Nat /\ e[i + k] \in Nat
    BY <1>1, <2>1
  <2> QED BY <2>1, <2>2, <2>4, <2>5
<1> HIDE DEF T
<1>4. Nat \subseteq T
  BY <1>2, <1>3, SetInduction
<1>5. j - i \in Nat /\ i + (j - i) = j /\ j <= n
  BY <1>1 DEF n
<1>6. j - i \in T
  BY <1>4, <1>5
<1> QED BY <1>5, <1>6 DEF T, e

(* The number of entries due by a time is what the order says it is.       *)
LEMMA DueByIs ==
  ASSUME NEW entries \in Seq(Entry), NEW time \in Nat,
         NEW n \in 0..Len(entries),
         \A i \in 1..Len(entries) : entries[i].due <= time <=> i <= n
  PROVE  Promise!DueBy(entries, time) = n
<1> DEFINE P(k) == \A i \in DOMAIN entries : entries[i].due <= time <=> i <= k
<1>1. DOMAIN entries = 1..Len(entries) /\ Len(entries) \in Nat
  OBVIOUS
<1>2. P(n)
  BY <1>1
<1>3. ASSUME NEW k \in 0..Len(entries), P(k) PROVE k = n
  <2>1. CASE k < n
    <3>1. k + 1 \in 1..Len(entries) /\ k + 1 <= n /\ ~ (k + 1 <= k)
      BY <2>1, <1>1
    <3> QED BY <3>1, <1>1, <1>2, <1>3
  <2>2. CASE n < k
    <3>1. n + 1 \in 1..Len(entries) /\ n + 1 <= k /\ ~ (n + 1 <= n)
      BY <2>2, <1>1
    <3> QED BY <3>1, <1>1, <1>2, <1>3
  <2> QED BY <2>1, <2>2, <1>1
<1>4. Promise!DueBy(entries, time) = CHOOSE k \in 0..Len(entries) : P(k)
  BY DEF Promise!DueBy
<1> HIDE DEF P
<1> QED BY <1>2, <1>3, <1>4

(* The plan of a script is the calendar of its list.                       *)
LEMMA PlannedIsCalendar ==
  ASSUME NEW list \in Seq(Message)
  PROVE  Promise!Planned(list) = CalendarOf(list, 0)
<1>1. Promise!DueTimes(list) = Elapsed(list)
  BY DEF Promise!DueTimes, Elapsed
<1>2. \A i \in 1..Len(list) : 0 + Elapsed(list)[i] = Elapsed(list)[i]
  BY ElapsedProperties
<1>3. Promise!Planned(list) =
        [i \in DOMAIN list |->
          [msg    |-> list[i].id,     due   |-> Elapsed(list)[i],
           period |-> list[i].repeat,
           times  |-> IF list[i].repeat = 0 THEN 1 ELSE list[i].count]]
  BY <1>1 DEF Promise!Planned, Promise!Times
<1>4. DOMAIN list = 1..Len(list)
  OBVIOUS
<1> HIDE <1>1
<1> QED BY <1>2, <1>3, <1>4 DEF CalendarOf

(* No time passes until the ready messages are sent.                       *)
LEMMA ReadyNow ==
  ASSUME NEW list \in Seq(Message)
  PROVE  \A i \in 0..ReadyCount(list) : Elapsed(list)[i] = 0
<1> DEFINE n == ReadyCount(list)
           e == Elapsed(list)
           Z == {0}
<1>1. /\ n \in 0..Len(list)
      /\ \A i \in 1..n : list[i].delay = 0
  BY ReadyCountProperties
<1>2. /\ e \in [0..Len(list) -> Nat] /\ e[0] = 0 /\ Len(list) \in Nat
      /\ \A i \in 1..Len(list) : e[i] = e[i - 1] + list[i].delay
  BY ElapsedProperties
<1> HIDE DEF n, e
<1>3. ASSUME NEW i \in 1..n, e[i - 1] \in Z PROVE e[i] \in Z
  <2>1. i \in 1..Len(list) /\ list[i].delay = 0 /\ e[i - 1] = 0
    BY <1>1, <1>2, <1>3
  <2>2. e[i] = e[i - 1] + list[i].delay
    BY <2>1, <1>2
  <2> QED BY <2>1, <2>2
<1>4. n \in Nat /\ e[0] \in Z
  BY <1>1, <1>2
<1> HIDE DEF Z
<1>5. \A i \in 0..n : e[i] \in Z
  BY <1>3, <1>4, StaysInside
<1> QED BY <1>5 DEF Z, n, e

(* What the loop of sendPendingAndWait finds ready is what is due now.     *)
LEMMA DueIsReady ==
  ASSUME NEW list \in Seq(Message)
  PROVE  Promise!DueBy(CalendarOf(list, 0), 0) = ReadyCount(list)
<1> DEFINE n == ReadyCount(list)
           c == CalendarOf(list, 0)
           e == Elapsed(list)
<1>1. /\ n \in 0..Len(list)
      /\ \A i \in 1..n : list[i].delay = 0
      /\ n < Len(list) => list[n + 1].delay # 0
  BY ReadyCountProperties
<1>2. /\ c \in Seq(Entry) /\ Len(c) = Len(list)
      /\ \A i \in 1..Len(list) : c[i].due = 0 + e[i]
  BY CalendarProperties
<1>3. /\ e \in [0..Len(list) -> Nat] /\ e[0] = 0 /\ Len(list) \in Nat
      /\ \A i \in 1..Len(list) : e[i] = e[i - 1] + list[i].delay
      /\ \A i \in 1..Len(list) : list[i].delay \in Nat
  BY ElapsedProperties, ElementsAreMessages
<1>4. \A i \in 0..Len(list) : \A j \in i..Len(list) : e[i] <= e[j]
  BY ElapsedMonotone
<1> HIDE DEF n, c, e
<1>5. \A i \in 0..n : e[i] = 0
  BY ReadyNow DEF n, e
<1>6. ASSUME NEW i \in 1..Len(list), ~ (i <= n) PROVE ~ (c[i].due <= 0)
  <2>1. n + 1 \in 1..Len(list) /\ i \in (n + 1)..Len(list) /\ n + 1 - 1 = n
        /\ n \in 0..Len(list) /\ n + 1 \in 0..Len(list)
    BY <1>1, <1>3, <1>6
  <2>2. e[n + 1] = e[n] + list[n + 1].delay /\ e[n] \in Nat
    BY <2>1, <1>3
  <2>3. list[n + 1].delay \in Nat /\ list[n + 1].delay # 0
    BY <2>1, <1>1, <1>3
  <2>4. e[n + 1] <= e[i] /\ e[i] \in Nat
    BY <2>1, <1>3, <1>4
  <2>5. 0 < e[i]
    BY <2>2, <2>3, <2>4
  <2> QED BY <2>4, <2>5, <1>2
<1>7. ASSUME NEW i \in 1..Len(list), i <= n PROVE c[i].due <= 0
  BY <1>1, <1>2, <1>3, <1>5, <1>7
<1>8. Promise!DueBy(c, 0) = n
  BY <1>1, <1>2, <1>6, <1>7, DueByIs
<1> QED BY <1>8 DEF c, n

(* std::find_if finds the place of a message that is due in a period.      *)
LEMMA DueByPeriod ==
  ASSUME NEW list \in Seq(Message), NEW repeat \in Nat
  PROVE  Promise!DueBy(CalendarOf(list, 0), repeat)
            = ReinsertIter(list, repeat) - 1
<1> DEFINE at == ReinsertIter(list, repeat)
           c == CalendarOf(list, 0)
           e == Elapsed(list)
<1>1. /\ at \in 1..(Len(list) + 1)
      /\ at <= Len(list) => repeat < e[at]
      /\ \A j \in 1..(at - 1) : e[j] <= repeat
  BY ReinsertIterProperties
<1>2. /\ c \in Seq(Entry) /\ Len(c) = Len(list)
      /\ \A i \in 1..Len(list) : c[i].due = 0 + e[i]
  BY CalendarProperties
<1>3. e \in [0..Len(list) -> Nat] /\ Len(list) \in Nat
  BY ElapsedProperties
<1>4. \A i \in 0..Len(list) : \A j \in i..Len(list) : e[i] <= e[j]
  BY ElapsedMonotone
<1> HIDE DEF at, c, e
<1>5. ASSUME NEW i \in 1..Len(list), i <= at - 1 PROVE c[i].due <= repeat
  <2>1. i \in 1..(at - 1) /\ i \in 0..Len(list)
    BY <1>1, <1>5
  <2> QED BY <2>1, <1>1, <1>2, <1>3
<1>6. ASSUME NEW i \in 1..Len(list), ~ (i <= at - 1)
      PROVE  ~ (c[i].due <= repeat)
  <2>1. at \in 0..Len(list) /\ i \in at..Len(list) /\ i \in 0..Len(list)
    BY <1>1, <1>3, <1>6
  <2>2. e[at] <= e[i] /\ e[at] \in Nat /\ e[i] \in Nat /\ repeat < e[at]
    BY <2>1, <1>1, <1>3, <1>4
  <2> QED BY <2>2, <1>2
<1>7. at - 1 \in 0..Len(c)
  BY <1>1, <1>2, <1>3
<1>8. Promise!DueBy(c, repeat) = at - 1
  <2> DEFINE k == at - 1
  <2>1. \A i \in 1..Len(c) : c[i].due <= repeat <=> i <= k
    BY <1>2, <1>5, <1>6
  <2> HIDE DEF k
  <2>2. k \in 0..Len(c)
    BY <1>7 DEF k
  <2>3. Promise!DueBy(c, repeat) = k
    BY <2>1, <2>2, <1>2, DueByIs
  <2> QED BY <2>3 DEF k
<1> QED BY <1>8 DEF c, at

(* The first n entries of a calendar and those after them.                 *)
LEMMA CalendarParts ==
  ASSUME NEW c \in Seq(Entry), NEW n \in 0..Len(c)
  PROVE  /\ Promise!First(c, n) \in Seq(Entry)
         /\ Len(Promise!First(c, n)) = n
         /\ \A i \in 1..n : Promise!First(c, n)[i] = c[i]
         /\ Promise!After(c, n) \in Seq(Entry)
         /\ Len(Promise!After(c, n)) = Len(c) - n
         /\ \A i \in 1..(Len(c) - n) : Promise!After(c, n)[i] = c[n + i]
BY DEF Promise!First, Promise!After

(* Without the ready messages, the others are due when they were.          *)
LEMMA RestElapsed ==
  ASSUME NEW list \in Seq(Message), NEW i \in 0..(Len(list) - ReadyCount(list))
  PROVE  /\ Rest(list) \in Seq(Message)
         /\ Len(Rest(list)) = Len(list) - ReadyCount(list)
         /\ \A j \in 1..Len(Rest(list)) :
               Rest(list)[j] = list[ReadyCount(list) + j]
         /\ Elapsed(Rest(list))[i] = Elapsed(list)[ReadyCount(list) + i]
<1> DEFINE n == ReadyCount(list)
           rest == Rest(list)
           e == Elapsed(list)
           f == Elapsed(rest)
           T == { k \in Nat : k <= Len(rest) => f[k] = e[n + k] }
<1>1. n \in 0..Len(list) /\ e[n] = 0 /\ Len(list) \in Nat
  BY ReadyCountProperties, ReadyNow
<1>2. /\ rest \in Seq(Message) /\ Len(rest) = Len(list) - n
      /\ \A j \in 1..Len(rest) : rest[j] = list[n + j]
  <2>1. rest = SubSeq(list, n + 1, Len(list))
    BY DEF Rest
  <2> HIDE DEF n, rest
  <2> QED BY <2>1, <1>1
<1>3. /\ e \in [0..Len(list) -> Nat]
      /\ \A j \in 1..Len(list) : \A k : k = j - 1 => e[j] = e[k] + list[j].delay
  BY ElapsedProperties
<1> HIDE DEF rest
<1>4. /\ f[0] = 0
      /\ \A j \in 1..Len(rest) : f[j] = f[j - 1] + rest[j].delay
  BY <1>2, ElapsedProperties
<1> HIDE DEF n, e, f
<1>5. 0 \in T
  BY <1>1, <1>4
<1>6. ASSUME NEW k \in Nat, k \in T PROVE k + 1 \in T
  <2> SUFFICES ASSUME k + 1 <= Len(rest) PROVE f[k + 1] = e[n + (k + 1)]
    OBVIOUS
  <2>1. /\ k + 1 \in 1..Len(rest) /\ k + 1 - 1 = k
        /\ n + (k + 1) \in 1..Len(list) /\ n + k = (n + (k + 1)) - 1
    BY <1>1, <1>2
  <2>2. f[k] = e[n + k]
    BY <1>2, <1>6, <2>1
  <2>3. f[k + 1] = f[k] + rest[k + 1].delay
    BY <1>4, <2>1
  <2>4. e[n + (k + 1)] = e[n + k] + list[n + (k + 1)].delay
    BY <1>3, <2>1
  <2>5. rest[k + 1] = list[n + (k + 1)]
    BY <1>2, <2>1
  <2> QED BY <2>2, <2>3, <2>4, <2>5
<1> HIDE DEF T
<1>7. Nat \subseteq T
  BY <1>5, <1>6, SetInduction
<1>8. i \in T /\ i <= Len(rest)
  BY <1>1, <1>2, <1>7 DEF n
<1>9. f[i] = e[n + i]
  BY <1>8 DEF T
<1> QED BY <1>2, <1>9 DEF n, e, f, rest

(* What is not due now is the calendar of the messages not ready.          *)
LEMMA LaterIsRest ==
  ASSUME NEW list \in Seq(Message)
  PROVE  Promise!Later(CalendarOf(list, 0)) = CalendarOf(Rest(list), 0)
<1> DEFINE n == ReadyCount(list)
           c == CalendarOf(list, 0)
           rest == Rest(list)
           d == CalendarOf(rest, 0)
           k == Len(list) - n
<1>1. n \in 0..Len(list) /\ Len(list) \in Nat
  BY ReadyCountProperties
<1>2. /\ rest \in Seq(Message) /\ Len(rest) = k
      /\ \A j \in 1..Len(rest) : rest[j] = list[n + j]
  <2>1. 0 \in 0..(Len(list) - ReadyCount(list))
    BY <1>1
  <2> QED BY <2>1, RestElapsed
<1>3. \A i \in 0..k : Elapsed(rest)[i] = Elapsed(list)[n + i]
  BY RestElapsed
<1>4. /\ c \in Seq(Entry) /\ Len(c) = Len(list)
      /\ \A i \in 1..Len(list) : c[i] = CalendarOf(list, 0)[i]
  BY CalendarProperties
<1>5. Promise!Later(c) = Promise!After(c, n)
  BY DueIsReady DEF Promise!Later
<1> HIDE DEF rest
<1>6. d \in Seq(Entry) /\ Len(d) = k
  BY <1>2, CalendarProperties
<1>7. ASSUME NEW i \in 1..k PROVE c[n + i] = d[i]
  <2>1. /\ n + i \in 1..Len(list) /\ i \in 1..Len(rest) /\ i \in 0..k
        /\ i \in DOMAIN rest /\ n + i \in DOMAIN list
    BY <1>1, <1>2
  <2>2. rest[i] = list[n + i] /\ Elapsed(rest)[i] = Elapsed(list)[n + i]
    BY <2>1, <1>2, <1>3
  <2> HIDE DEF n, k
  <2> QED BY <2>1, <2>2 DEF CalendarOf
<1> HIDE DEF n, c, d, k
<1>8. /\ Promise!After(c, n) \in Seq(Entry)
      /\ Len(Promise!After(c, n)) = k
      /\ \A i \in 1..k : Promise!After(c, n)[i] = c[n + i]
  BY <1>1, <1>4, CalendarParts DEF k
<1>9. k \in Nat
  BY <1>1 DEF k
<1>10. Promise!After(c, n) = d
  BY <1>6, <1>7, <1>8, <1>9, SameCalendar
<1> QED BY <1>5, <1>10 DEF c, d, rest

(* What is due now are the entries of the ready messages.                  *)
LEMMA DueIsSent ==
  ASSUME NEW list \in Seq(Message)
  PROVE  LET due == Promise!Due(CalendarOf(list, 0))
         IN  /\ due \in Seq(Entry)
             /\ Len(due) = ReadyCount(list)
             /\ \A i \in 1..ReadyCount(list) : due[i] = CalendarOf(list, 0)[i]
<1>1. ReadyCount(list) \in 0..Len(list)
  BY ReadyCountProperties
<1>2. CalendarOf(list, 0) \in Seq(Entry) /\ Len(CalendarOf(list, 0)) = Len(list)
  BY CalendarProperties
<1>3. Promise!Due(CalendarOf(list, 0))
        = Promise!First(CalendarOf(list, 0), ReadyCount(list))
  BY DueIsReady DEF Promise!Due
<1> DEFINE n == ReadyCount(list)
           c == CalendarOf(list, 0)
<1> HIDE DEF n, c
<1>4. /\ Promise!First(c, n) \in Seq(Entry)
      /\ Len(Promise!First(c, n)) = n
      /\ \A i \in 1..n : Promise!First(c, n)[i] = c[i]
  BY <1>1, <1>2, CalendarParts DEF n, c
<1> QED BY <1>3, <1>4 DEF n, c

(* The entry of a message in a calendar, whenever it is due.               *)
IsEntryOf(sent, m) ==
  /\ sent \in Entry
  /\ sent.msg = m.id
  /\ sent.period = m.repeat
  /\ sent.times = IF m.repeat = 0 THEN 1 ELSE m.count

(* One iteration of the loop over the messages sent.                       *)
PutBack(list, m) == IF IsRepeated(m) THEN Reinsert(list, m) ELSE list

(* An entry planned again is the entry of the message put back.            *)
LEMMA PlannedAgain ==
  ASSUME NEW m \in Message, NEW sent, IsEntryOf(sent, m), NEW newDelay
  PROVE  /\ sent.times = 1 <=> ~IsRepeated(m)
         /\ IsRepeated(m) =>
              LET again == [sent EXCEPT !.due = sent.period,
                               !.times = IF @ = 0 THEN 0 ELSE @ - 1]
                  req   == Requeued(m, newDelay)
              IN  /\ again \in Entry
                  /\ again.due = m.repeat
                  /\ again = [msg |-> req.id, due |-> m.repeat,
                              period |-> req.repeat,
                              times |-> IF req.repeat = 0 THEN 1 ELSE req.count]
<1>1. /\ m.repeat \in Nat /\ m.count \in Nat /\ m.id \in Ids
      /\ sent \in Entry /\ sent.msg = m.id /\ sent.period = m.repeat
      /\ sent.times = IF m.repeat = 0 THEN 1 ELSE m.count
  BY DEF Message, IsEntryOf
<1>2. sent.times = 1 <=> ~IsRepeated(m)
  BY <1>1 DEF IsRepeated
<1>3. ASSUME IsRepeated(m)
      PROVE  LET again == [sent EXCEPT !.due = sent.period,
                               !.times = IF @ = 0 THEN 0 ELSE @ - 1]
                  req   == Requeued(m, newDelay)
              IN  /\ again \in Entry
                  /\ again.due = m.repeat
                  /\ again = [msg |-> req.id, due |-> m.repeat,
                              period |-> req.repeat,
                              times |-> IF req.repeat = 0 THEN 1 ELSE req.count]
  <2> DEFINE again == [sent EXCEPT !.due = sent.period,
                               !.times = IF @ = 0 THEN 0 ELSE @ - 1]
             req   == Requeued(m, newDelay)
             times == IF m.count = 0 THEN 0 ELSE m.count - 1
  <2>1. 0 < m.repeat /\ sent.times = m.count /\ times \in Nat
    BY <1>1, <1>3 DEF IsRepeated
  <2> DEFINE rec == [msg |-> m.id, due |-> m.repeat, period |-> m.repeat,
                     times |-> times]
  <2>2. times \in Nat
    BY <2>1
  <2>e. again = [sent EXCEPT !.due = m.repeat, !.times = times]
    BY <1>1, <2>1
  <2>h. /\ again \in Entry /\ again.msg = m.id /\ again.due = m.repeat
        /\ again.period = m.repeat /\ again.times = times
    <3> HIDE DEF again, times
    <3> QED BY <1>1, <2>2, <2>e DEF Entry
  <2>f. \A x, y \in Entry : x.msg = y.msg /\ x.due = y.due /\ x.period = y.period
                               /\ x.times = y.times => x = y
    BY DEF Entry
  <2>g. /\ rec \in Entry /\ rec.msg = m.id /\ rec.due = m.repeat
        /\ rec.period = m.repeat /\ rec.times = times
    BY <1>1, <2>1 DEF Entry
  <2>3. again = rec
    <3> HIDE DEF again, rec, times
    <3> QED BY <2>h, <2>f, <2>g
  <2>4. req.id = m.id /\ req.repeat = m.repeat /\ req.count = times
    BY DEF Requeued, Message
  <2> HIDE DEF again, req, times
  <2>5. /\ again \in Entry /\ again.due = m.repeat
    BY <2>1, <2>3, <1>1 DEF Entry
  <2>6. again = [msg |-> req.id, due |-> m.repeat, period |-> req.repeat,
                 times |-> IF req.repeat = 0 THEN 1 ELSE req.count]
    BY <2>1, <2>3, <2>4
  <2> QED BY <2>5, <2>6 DEF again, req
<1> QED BY <1>2, <1>3

(* Planning the entry again is what putting the message back does to the   *)
(* calendar.                                                               *)
LEMMA PlanIsReinsert ==
  ASSUME NEW list \in Seq(Message), NEW m \in Message, NEW again \in Entry,
         NEW at, at = ReinsertIter(list, m.repeat),
         again.due = m.repeat,
         again = CalendarOf(Reinsert(list, m), 0)[at]
  PROVE  Promise!Plan(CalendarOf(list, 0), again)
            = CalendarOf(Reinsert(list, m), 0)
<1> DEFINE n   == Len(list)
           new == Reinsert(list, m)
           c   == CalendarOf(list, 0)
           d   == CalendarOf(new, 0)
           k   == at - 1
           b   == Promise!First(c, k)
           a   == Promise!After(c, k)
           p   == Promise!Plan(c, again)
<1>1. /\ at \in 1..(n + 1) /\ n \in Nat /\ m.repeat \in Nat
      /\ k \in 0..n
  <2>1. m.repeat \in Nat
    BY DEF Message
  <2>2. ReinsertIter(list, m.repeat) \in 1..(Len(list) + 1)
    BY <2>1, ReinsertIterProperties
  <2> QED BY <2>1, <2>2
<1>2. /\ new \in Seq(Message) /\ Len(new) = n + 1
      /\ \A i \in 1..(at - 1) : new[i] = list[i]
      /\ at <= n => new[at + 1] =
            [list[at] EXCEPT !.delay = @ - (m.repeat - Elapsed(list)[at - 1])]
      /\ \A i \in (at + 2)..(n + 1) : new[i] = list[i - 1]
  BY ReinsertShape
<1>3. /\ \A i \in 1..(at - 1) : Elapsed(new)[i] = Elapsed(list)[i]
      /\ \A i \in at..n : Elapsed(new)[i + 1] = Elapsed(list)[i]
  BY ReinsertKeepsDueTimes
<1>4. /\ c \in Seq(Entry) /\ Len(c) = n
  BY CalendarProperties
<1> HIDE DEF new
<1>5. d \in Seq(Entry) /\ Len(d) = n + 1
  BY <1>2, CalendarProperties
<1>6. p = b \o <<again>> \o a
  <2>1. Promise!DueBy(c, again.due) = k
    BY <1>1, DueByPeriod
  <2> HIDE DEF c, k
  <2> QED BY <2>1 DEF Promise!Plan
<1>7. \A i \in 1..n : /\ c[i].due = 0 + Elapsed(list)[i]
                       /\ c[i] = [msg    |-> list[i].id,
                                  due    |-> 0 + Elapsed(list)[i],
                                  period |-> list[i].repeat,
                                  times  |-> IF list[i].repeat = 0
                                             THEN 1 ELSE list[i].count]
  BY DEF CalendarOf
<1>8. \A i \in 1..(n + 1) :
            d[i] = [msg    |-> new[i].id,
                    due    |-> 0 + Elapsed(new)[i],
                    period |-> new[i].repeat,
                    times  |-> IF new[i].repeat = 0 THEN 1 ELSE new[i].count]
  BY <1>2 DEF CalendarOf
<1>9. ASSUME NEW i \in 1..k PROVE d[i] = c[i]
  <2>1. i \in 1..(at - 1) /\ i \in 1..n /\ i \in 1..(n + 1)
    BY <1>1
  <2>2. new[i] = list[i] /\ Elapsed(new)[i] = Elapsed(list)[i]
    BY <2>1, <1>2, <1>3
  <2> HIDE DEF c, d, n, k
  <2> QED BY <2>1, <2>2, <1>7, <1>8
<1>10. ASSUME NEW i \in 1..(n - k) PROVE d[k + 1 + i] = c[k + i]
  <2> DEFINE j == k + i
  <2>1. j \in at..n /\ j \in 1..n /\ j + 1 \in 1..(n + 1) /\ k + 1 + i = j + 1
    BY <1>1
  <2> HIDE DEF j
  <2>2. Elapsed(new)[j + 1] = Elapsed(list)[j]
    BY <2>1, <1>3
  <2>3. /\ new[j + 1].id = list[j].id /\ new[j + 1].repeat = list[j].repeat
        /\ new[j + 1].count = list[j].count
    <3>1. CASE j = at
      <4>1. list[j] \in Message
        BY <2>1
      <4> DEFINE dl == m.repeat - Elapsed(list)[at - 1]
      <4>2. new[j + 1] = [list[j] EXCEPT !.delay = @ - dl]
        BY <3>1, <2>1, <1>2
      <4> HIDE DEF dl
      <4> QED BY <4>1, <4>2 DEF Message
    <3>2. CASE j # at
      <4> HIDE DEF n, c, d, k, a, b, p
      <4>1. j \in Int /\ at \in Int /\ at <= j /\ j <= n /\ at # j /\ n \in Int
        BY <3>2, <2>1, <1>1
      <4>2. j + 1 \in (at + 2)..(n + 1) /\ (j + 1) - 1 = j
        BY <4>1
      <4> QED BY <4>2, <1>2
    <3> QED BY <3>1, <3>2
  <2>4. d[j + 1] = c[j]
    <3> HIDE DEF c, d, n
    <3> QED BY <2>1, <2>2, <2>3, <1>7, <1>8
  <2> QED BY <2>1, <2>4 DEF j
<1>11. d[k + 1] = again
  BY <1>1 DEF new
<1> HIDE DEF c, d, k, p, n
<1>12. /\ b \in Seq(Entry) /\ Len(b) = k /\ \A i \in 1..k : b[i] = c[i]
       /\ a \in Seq(Entry) /\ Len(a) = n - k /\ \A i \in 1..(n - k) : a[i] = c[k + i]
  BY <1>1, <1>4, CalendarParts
<1> HIDE DEF a, b
<1>13. /\ p \in Seq(Entry) /\ Len(p) = k + 1 + (n - k)
       /\ \A i \in 1..k : p[i] = b[i]
       /\ p[k + 1] = again
       /\ \A i \in 1..(n - k) : p[k + 1 + i] = a[i]
  <2>1. Len(p) = Len(b) + 1 + Len(a)
    <3> DEFINE q == b \o <<again>>
    <3>1. q \in Seq(Entry) /\ Len(q) = Len(b) + 1
      BY <1>12
    <3>2. p = q \o a
      BY <1>6
    <3>3. a \in Seq(Entry) /\ b \in Seq(Entry)
      BY <1>12
    <3> HIDE DEF q
    <3>4. Len(q \o a) = Len(q) + Len(a)
      BY <3>1, <3>3, ConcatLength
    <3> QED BY <3>1, <3>2, <3>3, <3>4
  <2>5. p \in Seq(Entry)
    BY <1>6, <1>12, InsertedElement
  <2>2. \A i \in 1..Len(b) : p[i] = b[i]
    BY <1>6, <1>12, InsertedElement
  <2>3. p[Len(b) + 1] = again
    BY <1>6, <1>12, InsertedElement
  <2>4. \A i \in 1..Len(a) : p[Len(b) + 1 + i] = a[i]
    BY <1>6, <1>12, InsertedElement
  <2> QED BY <2>1, <2>2, <2>3, <2>4, <2>5, <1>12
<1>14. ASSUME NEW i \in 1..(n + 1) PROVE p[i] = d[i]
  <2>1. CASE i <= k
    <3>1. i \in 1..k
      BY <2>1, <1>1
    <3> QED BY <3>1, <1>9, <1>12, <1>13
  <2>2. CASE i = k + 1
    BY <2>2, <1>11, <1>13
  <2>3. CASE k + 1 < i
    <3>1. i - (k + 1) \in 1..(n - k) /\ k + 1 + (i - (k + 1)) = i
      BY <2>3, <1>1
    <3> DEFINE x == i - (k + 1)
    <3> HIDE DEF x
    <3>2. x \in 1..(n - k) /\ k + 1 + x = i
      BY <3>1 DEF x
    <3>3. p[k + 1 + x] = a[x] /\ a[x] = c[k + x] /\ d[k + 1 + x] = c[k + x]
      BY <3>2, <1>10, <1>12, <1>13
    <3> QED BY <3>2, <3>3
  <2> QED BY <2>1, <2>2, <2>3, <1>1
<1>15. Len(p) = n + 1 /\ n + 1 \in Nat
  BY <1>1, <1>13
<1>16. p = d
  BY <1>5, <1>13, <1>14, <1>15, SameCalendar
<1> QED BY <1>16 DEF p, c, d, new

(* One message sent: what happens to the list happens to the calendar.     *)
LEMMA AgainIsPutBack ==
  ASSUME NEW list \in Seq(Message), NEW m \in Message,
         NEW sent, IsEntryOf(sent, m)
  PROVE  /\ PutBack(list, m) \in Seq(Message)
         /\ Promise!PlanAgain(CalendarOf(list, 0), sent)
               = CalendarOf(PutBack(list, m), 0)
<1> DEFINE at       == ReinsertIter(list, m.repeat)
           newDelay == m.repeat - Elapsed(list)[at - 1]
           new      == Reinsert(list, m)
           again    == [sent EXCEPT !.due = sent.period,
                               !.times = IF @ = 0 THEN 0 ELSE @ - 1]
           c        == CalendarOf(list, 0)
           d        == CalendarOf(new, 0)
<1>1. /\ new \in Seq(Message) /\ Len(new) = Len(list) + 1
      /\ new[at] = Requeued(m, newDelay)
      /\ at \in 1..(Len(list) + 1)
  <2>1. m.repeat \in Nat
    BY DEF Message
  <2>2. at \in 1..(Len(list) + 1)
    BY <2>1, ReinsertIterProperties
  <2> QED BY <2>2, ReinsertShape
<1>2. CASE IsRepeated(m)
  <2>1. /\ again \in Entry /\ again.due = m.repeat
        /\ again = [msg |-> Requeued(m, newDelay).id, due |-> m.repeat,
                    period |-> Requeued(m, newDelay).repeat,
                    times |-> IF Requeued(m, newDelay).repeat = 0
                              THEN 1 ELSE Requeued(m, newDelay).count]
        /\ sent.times # 1
    <3> HIDE DEF newDelay
    <3> QED BY <1>2, PlannedAgain
  <2>2. Elapsed(new)[at] = m.repeat /\ 0 + m.repeat = m.repeat
    <3>1. at = ReinsertIter(list, m.repeat)
      OBVIOUS
    <3>2. m.repeat \in Nat
      BY DEF Message
    <3> HIDE DEF at
    <3> QED BY <3>1, <3>2, ReinsertKeepsDueTimes
  <2>3. at \in DOMAIN new
    <3> HIDE DEF new, at
    <3> QED BY <1>1
  <2>4. d[at] = [msg |-> new[at].id, due |-> 0 + Elapsed(new)[at],
                 period |-> new[at].repeat,
                 times  |-> IF new[at].repeat = 0 THEN 1 ELSE new[at].count]
    BY <2>3 DEF CalendarOf
  <2>5. again = d[at]
    <3> HIDE DEF again, d, new, at, newDelay
    <3> QED BY <1>1, <2>1, <2>2, <2>4
  <2>6. Promise!PlanAgain(c, sent) = Promise!Plan(c, again)
    BY <2>1 DEF Promise!PlanAgain
  <2>7. Promise!Plan(c, again) = d
    <3> HIDE DEF again
    <3> QED BY <2>1, <2>5, PlanIsReinsert
  <2>8. PutBack(list, m) = new
    BY <1>2 DEF PutBack
  <2> QED BY <1>1, <2>6, <2>7, <2>8
<1>3. CASE ~IsRepeated(m)
  <2>1. sent.times = 1
    BY <1>3, PlannedAgain
  <2> QED BY <1>3, <2>1 DEF Promise!PlanAgain, PutBack
<1> QED BY <1>2, <1>3

(* The loop over the messages sent, as a sequence of lists.                *)
IsLoop(g, list, sent) ==
  /\ g \in [0..Len(sent) -> Seq(Message)]
  /\ g[0] = list
  /\ \A i \in 1..Len(sent) : g[i] = PutBack(g[i - 1], sent[i])

LEMMA ReinsertAllIsLoop ==
  ASSUME NEW list \in Seq(Message), NEW sent \in Seq(Message)
  PROVE  \E g : /\ IsLoop(g, list, sent)
                /\ ReinsertAll(list, sent, TRUE) = g[Len(sent)]
<1> DEFINE n == Len(sent)
           S == Seq(Message)
           R(f) == f = [i \in 0..n |-> IF i = 0 THEN list
                          ELSE IF IsRepeated(sent[i]) /\ TRUE
                               THEN Reinsert(f[i - 1], sent[i])
                               ELSE f[i - 1]]
           step == [p \in S \X (1..n) |-> PutBack(p[1], sent[p[2]])]
<1>1. n \in Nat
  OBVIOUS
<1>2. ASSUME NEW l \in S, NEW i \in 1..n PROVE PutBack(l, sent[i]) \in S
  <2>1. sent[i] \in Message
    OBVIOUS
  <2>2. Reinsert(l, sent[i]) \in S
    BY <2>1, ReinsertShape
  <2> QED BY <2>2 DEF PutBack
<1>3. \A l \in S, i \in 1..n : step[<<l, i>>] = PutBack(l, sent[i])
  OBVIOUS
<1>4. step \in [S \X (1..n) -> S]
  BY <1>2
<1> HIDE DEF step
<1>5. PICK f : f \in Iterates(S, list, step, n)
  BY <1>1, <1>4, IteratesExist
<1>6. /\ f \in [0..n -> S]
      /\ f = [i \in 0..n |-> IF i = 0 THEN list ELSE step[<<f[i - 1], i>>]]
  BY <1>5 DEF Iterates
<1>7. ASSUME NEW i \in 0..n, i # 0
      PROVE  step[<<f[i - 1], i>>] = PutBack(f[i - 1], sent[i])
  <2>1. i \in 1..n /\ i - 1 \in 0..n
    BY <1>1, <1>7
  <2> HIDE DEF R
  <2>2. f[i - 1] \in S
    BY <2>1, <1>6
  <2> QED BY <2>1, <2>2, <1>3
<1>8. R(f)
  BY <1>6, <1>7 DEF PutBack
<1>9. PICK g : R(g) /\ ReinsertAll(list, sent, TRUE) = g[n]
  <2> DEFINE c == CHOOSE h : R(h)
  <2>1. R(c)
    BY <1>8
  <2>2. ReinsertAll(list, sent, TRUE) = c[n]
    BY DEF ReinsertAll
  <2> QED BY <2>1, <2>2
<1>10. g[0] = list /\ \A i \in 1..n : g[i] = PutBack(g[i - 1], sent[i])
  <2>1. g[0] = list
    BY <1>1, <1>9
  <2>2. ASSUME NEW i \in 1..n PROVE g[i] = PutBack(g[i - 1], sent[i])
    <3>1. i \in 0..n /\ i # 0
      BY <1>1
    <3>2. g[i] = IF i = 0 THEN list
                 ELSE IF IsRepeated(sent[i]) /\ TRUE
                      THEN Reinsert(g[i - 1], sent[i]) ELSE g[i - 1]
      BY <1>9, <3>1
    <3> QED BY <3>1, <3>2 DEF PutBack
  <2> QED BY <2>1, <2>2
<1>11. \A i \in 1..n : g[i - 1] \in S => g[i] \in S
  BY <1>2, <1>10
<1>d. g = [i \in 0..n |-> g[i]]
  BY <1>9
<1> HIDE DEF S, R
<1>12. \A i \in 0..n : g[i] \in S
  <2>1. g[0] \in S
    BY <1>10 DEF S
  <2> QED BY <2>1, <1>1, <1>11, StaysInside
<1>13. g \in [0..n -> S]
  BY <1>12, <1>d
<1> QED BY <1>9, <1>10, <1>13 DEF IsLoop, S

(* All the messages sent: putting them back plans their entries again.     *)
LEMMA AllAgainIsReinsertAll ==
  ASSUME NEW list \in Seq(Message), NEW sent \in Seq(Message), NEW due,
         Len(due) = Len(sent),
         \A i \in 1..Len(sent) : IsEntryOf(due[i], sent[i])
  PROVE  Promise!PlanAllAgain(CalendarOf(list, 0), due)
            = CalendarOf(ReinsertAll(list, sent, TRUE), 0)
<1> DEFINE n == Len(sent)
           c == CalendarOf(list, 0)
           R(f) == f = [i \in 0..n |-> IF i = 0 THEN c
                                  ELSE Promise!PlanAgain(f[i - 1], due[i])]
<1>1. PICK g : IsLoop(g, list, sent)
               /\ ReinsertAll(list, sent, TRUE) = g[n]
  BY ReinsertAllIsLoop
<1>2. /\ \A i \in 0..n : g[i] \in Seq(Message)
      /\ g[0] = list /\ n \in Nat
      /\ \A i \in 1..n : g[i] = PutBack(g[i - 1], sent[i])
  <2>1. n \in Nat
    OBVIOUS
  <2>2. g \in [0..n -> Seq(Message)] /\ g[0] = list
    BY <1>1 DEF IsLoop
  <2>3. \A i \in 1..n : g[i] = PutBack(g[i - 1], sent[i])
    BY <1>1 DEF IsLoop
  <2> QED BY <2>1, <2>2, <2>3
<1> DEFINE f == [i \in 0..n |-> CalendarOf(g[i], 0)]
<1>3. ASSUME NEW i \in 1..n PROVE f[i] = Promise!PlanAgain(f[i - 1], due[i])
  <2>1. i - 1 \in 0..n /\ i \in 0..n /\ sent[i] \in Message
    BY <1>2
  <2>2. g[i - 1] \in Seq(Message) /\ g[i] = PutBack(g[i - 1], sent[i])
    BY <2>1, <1>2
  <2>3. Promise!PlanAgain(CalendarOf(g[i - 1], 0), due[i])
          = CalendarOf(PutBack(g[i - 1], sent[i]), 0)
    BY <2>1, <2>2, AgainIsPutBack
  <2> QED BY <2>1, <2>2, <2>3
<1>4. f[0] = c /\ f[n] = CalendarOf(g[n], 0) /\ f = [i \in 0..n |-> f[i]]
  BY <1>2
<1> HIDE DEF f
<1>5. R(f)
  <2>1. ASSUME NEW i \in 0..n
        PROVE  f[i] = IF i = 0 THEN c ELSE Promise!PlanAgain(f[i - 1], due[i])
    <3>1. CASE i = 0
      BY <3>1, <1>4
    <3>2. CASE i # 0
      <4>1. i \in 1..n
        BY <3>2, <1>2
      <4> QED BY <3>2, <4>1, <1>3
    <3> QED BY <3>1, <3>2
  <2>2. [i \in 0..n |-> f[i]]
          = [i \in 0..n |-> IF i = 0 THEN c
                             ELSE Promise!PlanAgain(f[i - 1], due[i])]
    BY <2>1
  <2> QED BY <2>2, <1>4
<1>6. PICK h : R(h) /\ Promise!PlanAllAgain(c, due) = h[n]
  <2> DEFINE b == CHOOSE x : R(x)
  <2>1. R(b)
    BY <1>5
  <2>2. Promise!PlanAllAgain(c, due) = b[n]
    BY DEF Promise!PlanAllAgain
  <2> QED BY <2>1, <2>2
<1>7. h[0] = c /\ \A i \in 1..n : h[i] = Promise!PlanAgain(h[i - 1], due[i])
  BY <1>2, <1>6
<1> DEFINE T == { k \in Nat : k <= n => h[k] = f[k] }
<1>8. 0 \in T
  BY <1>4, <1>7
<1>9. ASSUME NEW k \in Nat, k \in T PROVE k + 1 \in T
  <2> SUFFICES ASSUME k + 1 <= n PROVE h[k + 1] = f[k + 1]
    OBVIOUS
  <2>1. k + 1 \in 1..n /\ k + 1 - 1 = k /\ h[k] = f[k]
    BY <1>2, <1>9
  <2>2. h[k + 1] = Promise!PlanAgain(h[k], due[k + 1])
    BY <2>1, <1>7
  <2>3. f[k + 1] = Promise!PlanAgain(f[k], due[k + 1])
    BY <2>1, <1>3
  <2> QED BY <2>1, <2>2, <2>3
<1> HIDE DEF T, R
<1>10. Nat \subseteq T
  BY <1>8, <1>9, SetInduction
<1>11. h[n] = f[n]
  BY <1>2, <1>10 DEF T
<1> QED BY <1>1, <1>4, <1>6, <1>11 DEF c

(* What remains of a list is what is left of its calendar.                 *)
LEMMA ReleaseLeaves ==
  ASSUME NEW list \in Seq(Message)
  PROVE  Promise!PlanAllAgain(Promise!Later(CalendarOf(list, 0)),
                              Promise!Due(CalendarOf(list, 0)))
            = CalendarOf(Remaining(list, TRUE), 0)
<1> DEFINE c == CalendarOf(list, 0)
           due == Promise!Due(c)
           n == ReadyCount(list)
<1>1. n \in 0..Len(list) /\ Len(list) \in Nat
  BY ReadyCountProperties
<1>2. Rest(list) \in Seq(Message)
  <2>1. 0 \in 0..(Len(list) - ReadyCount(list))
    BY <1>1
  <2> QED BY <2>1, RestElapsed
<1>3. /\ Sent(list) \in Seq(Message) /\ Len(Sent(list)) = n
      /\ \A i \in 1..n : Sent(list)[i] = list[i]
  <2> HIDE DEF n
  <2>1. Sent(list) = SubSeq(list, 1, n)
    BY DEF Sent, n
  <2> QED BY <2>1, <1>1
<1>4. Len(due) = n /\ \A i \in 1..n : due[i] = c[i]
  BY DueIsSent
<1>5. ASSUME NEW i \in 1..n PROVE IsEntryOf(due[i], Sent(list)[i])
  <2>1. i \in 1..Len(list)
    BY <1>1
  <2>2. /\ c[i] \in Entry /\ c[i].msg = list[i].id
        /\ c[i].period = list[i].repeat
        /\ c[i].times = IF list[i].repeat = 0 THEN 1 ELSE list[i].count
    BY <2>1, CalendarProperties
  <2>3. due[i] = c[i] /\ Sent(list)[i] = list[i]
    BY <1>3, <1>4
  <2> HIDE DEF c, due
  <2> QED BY <2>2, <2>3 DEF IsEntryOf
<1>6. Promise!PlanAllAgain(CalendarOf(Rest(list), 0), due)
        = CalendarOf(ReinsertAll(Rest(list), Sent(list), TRUE), 0)
  <2> HIDE DEF due, n
  <2> QED BY <1>2, <1>3, <1>4, <1>5, AllAgainIsReinsertAll
<1> QED BY <1>6, LaterIsRest DEF Remaining

(* The delay of the front message and the timer stand for each other.      *)
LEMMA FrontTaken ==
  ASSUME NEW left \in Seq(Message), NEW new \in Seq(Message), 1 \in 1..Len(left),
         Len(new) = Len(left), new[1].delay = 0, new[1].id = left[1].id,
         new[1].repeat = left[1].repeat, new[1].count = left[1].count,
         \A i \in 1..Len(left) : i # 1 => new[i] = left[i]
  PROVE  CalendarOf(new, left[1].delay) = CalendarOf(left, 0)
<1> DEFINE n == Len(left)
           t == left[1].delay
           e == Elapsed(left)
           f == Elapsed(new)
           T == { k \in Nat : k + 1 <= n => t + f[k + 1] = e[k + 1] }
<1>1. /\ n \in Nat /\ 1 \in 1..n /\ t \in Nat
  BY ElementsAreMessages
<1>2. /\ e \in [0..n -> Nat] /\ e[0] = 0
      /\ \A i \in 1..n : \A j : j = i - 1 => e[i] = e[j] + left[i].delay
  BY ElapsedProperties
<1>3. /\ f \in [0..n -> Nat] /\ f[0] = 0
      /\ \A i \in 1..n : \A j : j = i - 1 => f[i] = f[j] + new[i].delay
  BY ElapsedProperties
<1>4. \A i \in 1..n : left[i].delay \in Nat
  BY ElementsAreMessages
<1>t. t = left[1].delay
  OBVIOUS
<1>n. n = Len(left)
  OBVIOUS
<1> HIDE DEF n, t, e, f
<1>5. 0 \in T
  <2>1. e[1] = e[0] + left[1].delay /\ f[1] = f[0] + new[1].delay
    BY <1>1, <1>2, <1>3
  <2> QED BY <2>1, <1>1, <1>2, <1>3, <1>t
<1>6. ASSUME NEW k \in Nat, k \in T PROVE k + 1 \in T
  <2> DEFINE j == k + 1
  <2> SUFFICES ASSUME j + 1 <= n PROVE t + f[j + 1] = e[j + 1]
    OBVIOUS
  <2>1. t + f[j] = e[j]
    BY <1>6, <1>1
  <2>2. j + 1 \in 1..n /\ j = (j + 1) - 1 /\ j + 1 # 1 /\ j \in 0..n
    BY <1>1
  <2> HIDE DEF j, T
  <2>3. e[j + 1] = e[j] + left[j + 1].delay /\ f[j + 1] = f[j] + new[j + 1].delay
    BY <2>2, <1>2, <1>3
  <2>4. new[j + 1] = left[j + 1] /\ left[j + 1].delay \in Nat
    BY <2>2, <1>4, <1>n
  <2>5. e[j] \in Nat /\ f[j] \in Nat
    BY <2>2, <1>2, <1>3
  <2> QED BY <2>1, <2>3, <2>4, <2>5, <1>1
<1> HIDE DEF T
<1>7. Nat \subseteq T
  BY <1>5, <1>6, SetInduction
<1>8. ASSUME NEW i \in 1..n PROVE t + f[i] = 0 + e[i]
  <2>1. i - 1 \in T /\ (i - 1) + 1 = i /\ i <= n /\ i \in 0..n
    BY <1>1, <1>7
  <2>2. t + f[i] = e[i]
    BY <2>1 DEF T
  <2> QED BY <2>1, <2>2, <1>2
<1>9. \A i \in 1..n : /\ new[i].id = left[i].id /\ new[i].repeat = left[i].repeat
                      /\ new[i].count = left[i].count
  BY <1>n
<1>10. DOMAIN new = 1..n /\ DOMAIN left = 1..n
  BY <1>n
<1>11. [i \in 1..n |->
         [msg    |-> new[i].id,     due   |-> t + f[i],
          period |-> new[i].repeat,
          times  |-> IF new[i].repeat = 0 THEN 1 ELSE new[i].count]]
       = [i \in 1..n |->
         [msg    |-> left[i].id,     due   |-> 0 + e[i],
          period |-> left[i].repeat,
          times  |-> IF left[i].repeat = 0 THEN 1 ELSE left[i].count]]
  BY <1>8, <1>9
<1>12. /\ CalendarOf(new, t) = [i \in DOMAIN new |->
         [msg    |-> new[i].id,     due   |-> t + f[i],
          period |-> new[i].repeat,
          times  |-> IF new[i].repeat = 0 THEN 1 ELSE new[i].count]]
       /\ CalendarOf(left, 0) = [i \in DOMAIN left |->
         [msg    |-> left[i].id,     due   |-> 0 + e[i],
          period |-> left[i].repeat,
          times  |-> IF left[i].repeat = 0 THEN 1 ELSE left[i].count]]
  BY DEF CalendarOf, e, f
<1>13. CalendarOf(new, t) = CalendarOf(left, 0)
  BY <1>10, <1>11, <1>12
<1> QED BY <1>13 DEF t

(* Nothing to send is an empty calendar, whatever the timer.               *)
LEMMA EmptyCalendar ==
  ASSUME NEW start
  PROVE  CalendarOf(<<>>, start) = <<>>
BY DEF CalendarOf

(* sendPendingAndWait hands over what is due, and plans again.             *)
LEMMA SendIsRelease ==
  ASSUME NEW list \in Seq(Message), \A i \in 1..Len(list) : Fits(list[i]),
         SendPendingAndWait(list, TRUE)
  PROVE  Promise!Release(CalendarOf(list, 0))
<1> DEFINE n    == ReadyCount(list)
           c    == CalendarOf(list, 0)
           due  == Promise!Due(c)
           left == Remaining(list, TRUE)
<1>1. handed' = [i \in 1..n |-> list[i].id]
  BY DEF SendPendingAndWait
<1>2. due \in Seq(Entry) /\ Len(due) = n /\ \A i \in 1..n : due[i] = c[i]
  BY DueIsSent
<1>3. n \in 0..Len(list)
  BY ReadyCountProperties
<1>4. \A i \in 1..Len(list) : c[i].msg = list[i].id
  BY CalendarProperties
<1>5. Promise!PlanAllAgain(Promise!Later(c), due) = CalendarOf(left, 0)
  BY ReleaseLeaves
<1>l. left = Remaining(list, TRUE)
  OBVIOUS
<1> HIDE DEF n, c, due, left
<1>6. handed' = [i \in DOMAIN due |-> due[i].msg]
  <2>1. DOMAIN due = 1..n
    BY <1>2
  <2>2. \A i \in 1..n : due[i].msg = list[i].id
    BY <1>2, <1>3, <1>4
  <2> QED BY <2>1, <2>2, <1>1
<1>7. CalendarOf(m_msgsToSend', m_timer') = CalendarOf(left, 0)
  <2>1. CASE left = <<>>
    <3>1. m_msgsToSend' = <<>>
      BY <2>1, <1>l, TimerTakesFront
    <3> QED BY <2>1, <3>1, EmptyCalendar
  <2>2. CASE left # <<>>
    <3>1. left \in Seq(Message) /\ FrontSpent(left)
      BY <2>2, <1>l, TimerTakesFront
    <3>2. m_timer' = left[1].delay
      BY <3>1 DEF FrontSpent
    <3>3. CalendarOf(m_msgsToSend', left[1].delay) = CalendarOf(left, 0)
      BY <3>1, FrontTaken DEF FrontSpent
    <3> QED BY <3>2, <3>3
  <2> QED BY <2>1, <2>2
<1>8. CalendarOfList' = CalendarOf(m_msgsToSend', m_timer')
  BY DEF CalendarOfList
<1> QED BY <1>5, <1>6, <1>7, <1>8 DEF Promise!Release, c, due

-----------------------------------------------------------------------------
(* The constructor leaves an empty calendar.                               *)
LEMMA InitIsPromised == Init => Promise!Init
BY EmptyCalendar DEF Init, Promise!Init, CalendarOfList

(* The messages that wait are on a calendar whose first entry is due when  *)
(* the timer expires.                                                      *)
LEMMA FirstEntry ==
  ASSUME IInv, m_msgsToSend # <<>>
  PROVE  /\ m_timer \in Nat
         /\ CalendarOfList # <<>>
         /\ Head(CalendarOfList).due = m_timer
<1>1. /\ m_msgsToSend \in Seq(Message) /\ m_timer \in {NotRunning} \cup 0..IntMax
      /\ m_timer # NotRunning /\ m_msgsToSend[1].delay = 0
  BY DEF IInv, TypeOK, NothingStranded
<1>2. m_timer \in Nat
  BY <1>1, IntMaxAssumption
<1>3. 1 \in 1..Len(m_msgsToSend)
  BY <1>1
<1>4. Elapsed(m_msgsToSend)[1] = 0
  <2>1. /\ Elapsed(m_msgsToSend)[0] = 0
        /\ Elapsed(m_msgsToSend)[1]
              = Elapsed(m_msgsToSend)[1 - 1] + m_msgsToSend[1].delay
    BY <1>1, <1>3, ElapsedProperties
  <2> QED BY <2>1, <1>1
<1>5. /\ CalendarOfList \in Seq(Entry)
      /\ Len(CalendarOfList) = Len(m_msgsToSend)
      /\ CalendarOfList[1].due = m_timer + Elapsed(m_msgsToSend)[1]
  BY <1>1, <1>2, <1>3, CalendarProperties DEF CalendarOfList
<1> QED BY <1>2, <1>3, <1>4, <1>5

(* An entry of which only the time left is one less.                       *)
LEMMA EntryPassed ==
  ASSUME NEW x \in Entry, NEW y \in Entry, y.msg = x.msg, y.due = x.due - 1,
         y.period = x.period, y.times = x.times
  PROVE  y = [x EXCEPT !.due = @ - 1]
BY DEF Entry

(* Every step of the component is one its promise allows, or does not show.*)
LEMMA StepIsPromised ==
  IInv /\ [Next]_vars => [Promise!Next]_(Promise!vars)
<1> SUFFICES ASSUME IInv, [Next]_vars
             PROVE  [Promise!Next]_(Promise!vars)
  OBVIOUS
<1>1. /\ m_msgsToSend \in Seq(Message) /\ DurationsFit /\ NothingStranded
  BY DEF IInv, TypeOK
<1>2. m_msgsToSend = <<>> => CalendarOfList = <<>>
  BY EmptyCalendar DEF CalendarOfList
<1>3. m_msgsToSend' = <<>> => CalendarOfList' = <<>>
  BY EmptyCalendar DEF CalendarOfList
<1>4. CASE Start
  <2>1. /\ m_msgsToSend = <<>> /\ script' \in Scripts /\ phase' = "sending"
        /\ SendPendingAndWait(script', TRUE)
    BY <1>4 DEF Start
  <2>2. /\ script' \in Seq(Message)
        /\ \A i \in 1..Len(script') : Fits(script'[i])
    BY <2>1, ScriptsAssumption
  <2>3. Promise!Release(CalendarOf(script', 0))
    BY <2>1, <2>2, SendIsRelease
  <2>4. Promise!Planned(script') = CalendarOf(script', 0)
    BY <2>2, PlannedIsCalendar
  <2>5. Promise!Start
    BY <2>1, <2>3, <2>4, <1>2 DEF Promise!Start
  <2> QED BY <2>5 DEF Promise!Next
<1>5. CASE Stop
  <2>1. Promise!Stop
    BY <1>3, <1>5 DEF Stop, Promise!Stop
  <2> QED BY <2>1 DEF Promise!Next
<1>6. CASE Tick
  <2>1. /\ 0 < m_timer /\ m_timer' = m_timer - 1 /\ handed' = <<>>
        /\ UNCHANGED <<m_msgsToSend, phase, script>>
    BY <1>6 DEF Tick
  <2>2. m_msgsToSend # <<>>
    BY <1>1, <2>1 DEF NothingStranded, NotRunning
  <2>3. /\ m_timer \in Nat /\ CalendarOfList # <<>>
        /\ Head(CalendarOfList).due = m_timer
    BY <2>2, FirstEntry
  <2>4. CalendarOfList' = Promise!Passed(CalendarOfList, 1)
    <3> DEFINE n == Len(m_msgsToSend)
               c == CalendarOf(m_msgsToSend, m_timer)
               d == CalendarOf(m_msgsToSend, m_timer - 1)
    <3>1. m_timer - 1 \in Nat
      BY <2>1, <2>3
    <3>2. Elapsed(m_msgsToSend) \in [0..n -> Nat] /\ n \in Nat
      BY <1>1, ElapsedProperties
    <3>3. c \in Seq(Entry) /\ DOMAIN c = 1..n /\ DOMAIN d = 1..n
      BY <1>1, <2>3, <3>1, CalendarProperties
    <3>4. ASSUME NEW i \in 1..n PROVE d[i] = [c[i] EXCEPT !.due = @ - 1]
      <4>1. Elapsed(m_msgsToSend)[i] \in Nat /\ i \in 1..Len(m_msgsToSend)
        BY <1>1, <3>2
      <4>2. /\ c[i] \in Entry
            /\ c[i].msg = m_msgsToSend[i].id
            /\ c[i].due = m_timer + Elapsed(m_msgsToSend)[i]
            /\ c[i].period = m_msgsToSend[i].repeat
            /\ c[i].times = IF m_msgsToSend[i].repeat = 0
                            THEN 1 ELSE m_msgsToSend[i].count
        BY <1>1, <2>3, <4>1, CalendarProperties
      <4>3. /\ d[i] \in Entry
            /\ d[i].msg = m_msgsToSend[i].id
            /\ d[i].due = m_timer - 1 + Elapsed(m_msgsToSend)[i]
            /\ d[i].period = m_msgsToSend[i].repeat
            /\ d[i].times = IF m_msgsToSend[i].repeat = 0
                            THEN 1 ELSE m_msgsToSend[i].count
        BY <1>1, <3>1, <4>1, CalendarProperties
      <4> HIDE DEF c, d
      <4>4. d[i].due = c[i].due - 1
        <5>1. \A x, y \in Nat : x - 1 + y = x + y - 1
          OBVIOUS
        <5>2. m_timer - 1 + Elapsed(m_msgsToSend)[i]
                = m_timer + Elapsed(m_msgsToSend)[i] - 1
          BY <5>1, <4>1, <2>3
        <5>3. c[i].due = m_timer + Elapsed(m_msgsToSend)[i]
          BY <4>2
        <5>4. d[i].due = m_timer - 1 + Elapsed(m_msgsToSend)[i]
          BY <4>3
        <5> QED BY <5>2, <5>3, <5>4, <4>1, <2>3
      <4> QED BY <4>2, <4>3, <4>4, EntryPassed
    <3>5. d = [i \in 1..n |-> d[i]]
      BY <3>3 DEF CalendarOf
    <3>6. CalendarOfList = c /\ CalendarOfList' = d
      BY <2>1 DEF CalendarOfList
    <3> HIDE DEF c, d, n
    <3> QED BY <3>3, <3>4, <3>5, <3>6 DEF Promise!Passed
  <2>5. Promise!Wait
    BY <2>1, <2>3, <2>4 DEF Promise!Wait
  <2> QED BY <2>5 DEF Promise!Next
<1>7. CASE Timeout
  <2>1. /\ m_timer = 0 /\ SendPendingAndWait(m_msgsToSend, m_protocol)
        /\ UNCHANGED <<phase, script>>
    BY <1>7 DEF Timeout
  <2>2. m_msgsToSend # <<>>
    BY <1>1, <2>1 DEF NothingStranded, NotRunning
  <2>3. m_protocol = TRUE
    BY <2>2, <1>1 DEF NothingStranded, IInv, TypeOK
  <2>4. CalendarOfList # <<>> /\ Head(CalendarOfList).due = 0
    BY <2>1, <2>2, FirstEntry
  <2>5. Promise!Release(CalendarOf(m_msgsToSend, 0))
    BY <1>1, <2>1, <2>3, SendIsRelease DEF DurationsFit
  <2>6. CalendarOfList = CalendarOf(m_msgsToSend, 0)
    BY <2>1 DEF CalendarOfList
  <2>7. Promise!Deliver
    BY <2>1, <2>4, <2>5, <2>6 DEF Promise!Deliver
  <2> QED BY <2>7 DEF Promise!Next
<1>8. CASE SendReturns
  BY <1>8 DEF SendReturns, Promise!vars, CalendarOfList
<1>9. CASE SendReturnsLast
  <2>1. /\ m_msgsToSend = <<>> /\ m_msgsToSend' = <<>> /\ handed' = handed
        /\ phase' \in {"completed", "stopped"} /\ script' = <<>>
    BY <1>9 DEF SendReturnsLast
  <2>2. Promise!Complete
    BY <2>1, <1>2, <1>3 DEF Promise!Complete
  <2> QED BY <2>2 DEF Promise!Next
<1>10. CASE UNCHANGED vars
  BY <1>10 DEF vars, Promise!vars, CalendarOfList
<1> QED BY <1>4, <1>5, <1>6, <1>7, <1>8, <1>9, <1>10 DEF Next

(* The component keeps its promise: every message goes out exactly when    *)
(* the script places it, as often as it asks for, in the order of the      *)
(* script among those due together, for scripts of any length, any delays  *)
(* that fit the timer and any depth of nested event loops.                 *)
THEOREM ScheduleIsKept == Spec => KeepsSchedule
<1>1. Init => Promise!Init
  BY InitIsPromised
<1>2. IInv /\ [Next]_vars => [Promise!Next]_(Promise!vars)
  BY StepIsPromised
<1> QED BY <1>1, <1>2, Invariance, PTL DEF Spec, KeepsSchedule, Promise!Spec
=============================================================================
