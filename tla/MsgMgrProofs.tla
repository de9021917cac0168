---------------------------- MODULE MsgMgrProofs ----------------------------
(* Proofs about MsgMgr: for any bounds and any chain of filters, the view  *)
(* and the message manager agree on the messages, the manager deletes the  *)
(* ones the user meant, and echoes are recorded after what they echo.      *)
(*                                                                         *)
(* What makes it so is that the numbers of the messages ascend: the binary *)
(* search of deleteMsg depends on it, and two lists of the same messages   *)
(* with ascending numbers are the same list.                               *)
EXTENDS MsgMgr, Induction, TLAPS

AnyEntry == [num : Nat \ {0}, type : MsgType, id : MessageId]

(* What can be on its way: data of a filter carries that filter's layer.   *)
Packet == { d \in DataInfo : d.id = Own => \E f \in Filters : d.layers = <<f>> }

State == [allMsgs : Seq(AnyEntry), next : Nat \ {0}, shown : Seq(AnyEntry),
          pending : Seq(Packet), active : BOOLEAN, timer : BOOLEAN]

-----------------------------------------------------------------------------
(* Lists of messages.                                                      *)

In(m, msgs) == \E i \in 1..Len(msgs) : msgs[i] = m

Ascending(msgs) ==
    \A i, j \in 1..Len(msgs) : i < j => msgs[i].num < msgs[j].num

Below(msgs, n) == \A i \in 1..Len(msgs) : msgs[i].num < n

Issued(msgs, c) == \A i \in 1..Len(msgs) : msgs[i].id <= c

(* Echoes come after what they echo, and in order.                         *)
Precedes(first, later) ==
    Loaded \notin {first.id, later.id} /\ first.type = "Received"
        => IF later.type = "Received" THEN first.id < later.id
           ELSE first.id # later.id

Follow(msgs) ==
    \A i, j \in 1..Len(msgs) : i < j => Precedes(msgs[i], msgs[j])

(* What has been received was sent before what is from data[k + 1] on      *)
(* still to be received.                                                   *)
Earlier(msgs, data, k) ==
    \A i \in 1..Len(msgs), j \in (k + 1)..Len(data) :
        msgs[i].type = "Received" /\ msgs[i].id # Loaded /\ data[j].id # Own
            => msgs[i].id < data[j].id

(* shown are the messages of msgs that have one of the types.              *)
Selects(shown, msgs, mode) ==
    \A m \in AnyEntry : In(m, shown) <=> In(m, msgs) /\ m.type \in mode

Shows(shown, msgs, mode) == Ascending(shown) /\ Selects(shown, msgs, mode)

LEMMA SeqFacts ==
  ASSUME NEW S, NEW s \in Seq(S)
  PROVE  /\ Len(s) \in Nat /\ DOMAIN s = 1..Len(s)
         /\ \A i \in 1..Len(s) : s[i] \in S
OBVIOUS

LEMMA AppendFacts ==
  ASSUME NEW S, NEW s \in Seq(S), NEW x \in S
  PROVE  /\ Append(s, x) \in Seq(S) /\ Len(Append(s, x)) = Len(s) + 1
         /\ \A i \in 1..Len(s) : Append(s, x)[i] = s[i]
         /\ Append(s, x)[Len(s) + 1] = x
OBVIOUS

LEMMA InAppend ==
  ASSUME NEW S, NEW s \in Seq(S), NEW x \in S, NEW m
  PROVE  In(m, Append(s, x)) <=> In(m, s) \/ m = x
<1> DEFINE t == Append(s, x)
<1>1. /\ Len(s) \in Nat /\ Len(t) = Len(s) + 1
      /\ \A i \in 1..Len(s) : t[i] = s[i]
      /\ t[Len(s) + 1] = x
  BY AppendFacts
<1> HIDE DEF t
<1>2. ASSUME NEW i \in 1..Len(t), t[i] = m
      PROVE  In(m, s) \/ m = x
  <2>1. CASE i = Len(s) + 1
    BY <1>1, <1>2, <2>1
  <2>2. CASE i # Len(s) + 1
    <3>1. i \in 1..Len(s) /\ s[i] = m
      BY <1>1, <1>2, <2>2
    <3> QED
      BY <3>1 DEF In
  <2> QED
    BY <2>1, <2>2
<1>3. ASSUME NEW i \in 1..Len(s), s[i] = m
      PROVE  In(m, t)
  <2>1. i \in 1..Len(t) /\ t[i] = m
    BY <1>1, <1>3
  <2> QED
    BY <2>1 DEF In
<1>4. ASSUME m = x PROVE In(m, t)
  <2>1. Len(s) + 1 \in 1..Len(t) /\ t[Len(s) + 1] = m
    BY <1>1, <1>4
  <2> QED
    BY <2>1 DEF In
<1>5. In(m, t) => In(m, s) \/ m = x
  BY <1>2 DEF In
<1>6. In(m, s) \/ m = x => In(m, t)
  BY <1>3, <1>4 DEF In
<1> QED
  BY <1>5, <1>6 DEF t

(* Two lists of the same messages with ascending numbers are the same.     *)
SameElements(s, t) == \A m \in AnyEntry : In(m, s) <=> In(m, t)

LEMMA AgreeUpTo ==
  ASSUME NEW s \in Seq(AnyEntry), NEW t \in Seq(AnyEntry),
         Ascending(s), Ascending(t), SameElements(s, t),
         NEW k \in Nat, k + 1 <= Len(s), k + 1 <= Len(t),
         \A i \in 1..k : s[i] = t[i]
  PROVE  s[k + 1].num <= t[k + 1].num
<1>1. /\ Len(s) \in Nat /\ Len(t) \in Nat
      /\ \A i \in 1..Len(s) : s[i] \in AnyEntry
      /\ \A i \in 1..Len(t) : t[i] \in AnyEntry
  BY SeqFacts
<1>2. k + 1 \in 1..Len(t) /\ k + 1 \in 1..Len(s)
  BY <1>1
<1>3. t[k + 1] \in AnyEntry
  BY <1>1, <1>2
<1>4. In(t[k + 1], t)
  BY <1>2 DEF In
<1>5. In(t[k + 1], s)
  BY <1>3, <1>4 DEF SameElements
<1>6. PICK i \in 1..Len(s) : s[i] = t[k + 1]
  BY <1>5 DEF In
<1>7. s[i].num \in Nat /\ s[k + 1].num \in Nat /\ t[k + 1].num \in Nat
  BY <1>1, <1>2 DEF AnyEntry
<1>8. CASE i \in 1..k
  <2>1. t[i] = t[k + 1] /\ i < k + 1 /\ i \in 1..Len(t)
    BY <1>1, <1>2, <1>6, <1>8
  <2>2. t[i].num < t[k + 1].num
    BY <1>2, <2>1 DEF Ascending
  <2> QED
    BY <1>7, <2>1, <2>2
<1>9. CASE i = k + 1
  BY <1>6, <1>7, <1>9
<1>10. CASE k + 1 < i
  <2>1. s[k + 1].num < s[i].num
    BY <1>2, <1>10 DEF Ascending
  <2> QED
    BY <1>6, <1>7, <2>1
<1> QED
  BY <1>8, <1>9, <1>10

LEMMA NoLonger ==
  ASSUME NEW s \in Seq(AnyEntry), NEW t \in Seq(AnyEntry),
         Ascending(t), SameElements(s, t),
         \A i \in 1..Len(s) : i <= Len(t) => s[i] = t[i]
  PROVE  Len(t) <= Len(s)
<1> SUFFICES ASSUME Len(s) < Len(t) PROVE FALSE
  BY SeqFacts
<1>1. /\ Len(s) \in Nat /\ Len(t) \in Nat
      /\ \A i \in 1..Len(t) : t[i] \in AnyEntry
  BY SeqFacts
<1>2. Len(s) + 1 \in 1..Len(t)
  BY <1>1
<1>3. In(t[Len(s) + 1], t) /\ t[Len(s) + 1] \in AnyEntry
  BY <1>1, <1>2 DEF In
<1>4. In(t[Len(s) + 1], s)
  BY <1>3 DEF SameElements
<1>5. PICK i \in 1..Len(s) : s[i] = t[Len(s) + 1]
  BY <1>4 DEF In
<1>6. i \in 1..Len(t) /\ i < Len(s) + 1 /\ t[i] = t[Len(s) + 1]
  BY <1>1, <1>5
<1>7. t[i].num < t[Len(s) + 1].num
  BY <1>2, <1>6 DEF Ascending
<1>8. t[i].num \in Nat
  BY <1>1, <1>6 DEF AnyEntry
<1> QED
  BY <1>6, <1>7, <1>8

LEMMA AscendingUnique ==
  ASSUME NEW s \in Seq(AnyEntry), NEW t \in Seq(AnyEntry),
         Ascending(s), Ascending(t), SameElements(s, t)
  PROVE  s = t
<1> DEFINE Same(k) == \A i \in 1..k : i <= Len(s) /\ i <= Len(t) => s[i] = t[i]
           T == { k \in Nat : Same(k) }
<1>1. /\ Len(s) \in Nat /\ Len(t) \in Nat
      /\ \A i \in 1..Len(s) : s[i] \in AnyEntry
      /\ \A i \in 1..Len(t) : t[i] \in AnyEntry
  BY SeqFacts
<1>2. SameElements(t, s)
  BY DEF SameElements
<1>3. 0 \in T
  OBVIOUS
<1>4. ASSUME NEW k \in Nat, k \in T PROVE k + 1 \in T
  <2> SUFFICES ASSUME NEW i \in 1..(k + 1), i <= Len(s), i <= Len(t)
               PROVE  s[i] = t[i]
    OBVIOUS
  <2>1. CASE i # k + 1
    BY <1>4, <2>1
  <2>2. CASE i = k + 1
    <3>1. k + 1 \in 1..Len(s) /\ k + 1 \in 1..Len(t)
      BY <1>1, <2>2
    <3>2. \A j \in 1..k : s[j] = t[j]
      BY <1>1, <1>4, <3>1
    <3>3. \A j \in 1..k : t[j] = s[j]
      BY <3>2
    <3>4. s[k + 1].num <= t[k + 1].num
      BY <3>1, <3>2, AgreeUpTo
    <3>5. t[k + 1].num <= s[k + 1].num
      BY <1>2, <3>1, <3>3, AgreeUpTo
    <3>6. s[k + 1] \in AnyEntry /\ t[k + 1] \in AnyEntry
      BY <1>1, <3>1
    <3>7. s[k + 1].num = t[k + 1].num /\ t[k + 1].num \in Nat
      BY <3>4, <3>5, <3>6 DEF AnyEntry
    <3>8. In(s[k + 1], t)
      <4>1. In(s[k + 1], s)
        BY <3>1 DEF In
      <4> QED
        BY <3>6, <4>1 DEF SameElements
    <3>9. PICK j \in 1..Len(t) : t[j] = s[k + 1]
      BY <3>8 DEF In
    <3>10. j = k + 1
      <4>1. ~ (j < k + 1) /\ ~ (k + 1 < j)
        BY <3>1, <3>7, <3>9 DEF Ascending
      <4> QED
        BY <1>1, <4>1
    <3> QED
      BY <2>2, <3>9, <3>10
  <2> QED
    BY <2>1, <2>2
<1> HIDE DEF T
<1>5. Nat \subseteq T
  BY <1>3, <1>4, SetInduction
<1>6. \A i \in 1..Len(s) : i <= Len(t) => s[i] = t[i]
  <2>1. Same(Len(s))
    BY <1>1, <1>5 DEF T
  <2> QED
    BY <1>1, <2>1
<1>7. \A i \in 1..Len(t) : i <= Len(s) => t[i] = s[i]
  BY <1>1, <1>6
<1>8. Len(s) = Len(t)
  <2>1. Len(t) <= Len(s)
    BY <1>6, NoLonger
  <2>2. Len(s) <= Len(t)
    BY <1>2, <1>7, NoLonger
  <2> QED
    BY <1>1, <2>1, <2>2
<1> QED
  BY <1>1, <1>6, <1>8

-----------------------------------------------------------------------------
(* Deleting messages.                                                      *)

(* part is what is left of whole when some messages have been taken out.   *)
Places(part, whole) ==
    { g \in [1..Len(part) -> 1..Len(whole)] :
        /\ \A i \in 1..Len(part) : part[i] = whole[g[i]]
        /\ \A i, j \in 1..Len(part) : i < j => g[i] < g[j] }

Thinned(part, whole) == Places(part, whole) # {}

LEMMA ThinnedKeeps ==
  ASSUME NEW part \in Seq(AnyEntry), NEW whole \in Seq(AnyEntry),
         Thinned(part, whole)
  PROVE  /\ Ascending(whole) => Ascending(part)
         /\ Follow(whole) => Follow(part)
         /\ \A n : Below(whole, n) => Below(part, n)
         /\ \A c : Issued(whole, c) => Issued(part, c)
         /\ \A data, k : Earlier(whole, data, k) => Earlier(part, data, k)
<1>1. PICK g : g \in Places(part, whole)
  BY DEF Thinned
<1>2. /\ \A i \in 1..Len(part) : g[i] \in 1..Len(whole) /\ part[i] = whole[g[i]]
      /\ \A i, j \in 1..Len(part) : i < j => g[i] < g[j]
  BY <1>1 DEF Places
<1>3. Ascending(whole) => Ascending(part)
  BY <1>2 DEF Ascending
<1>4. Follow(whole) => Follow(part)
  BY <1>2 DEF Follow
<1>5. ASSUME NEW n, Below(whole, n) PROVE Below(part, n)
  BY <1>2, <1>5 DEF Below
<1>6. ASSUME NEW c, Issued(whole, c) PROVE Issued(part, c)
  BY <1>2, <1>6 DEF Issued
<1>7. ASSUME NEW data, NEW k, Earlier(whole, data, k) PROVE Earlier(part, data, k)
  BY <1>2, <1>7 DEF Earlier
<1> QED
  BY <1>3, <1>4, <1>5, <1>6, <1>7

LEMMA ThinnedSelf ==
  ASSUME NEW msgs \in Seq(AnyEntry)
  PROVE  Thinned(msgs, msgs)
<1>1. [i \in 1..Len(msgs) |-> i] \in Places(msgs, msgs)
  BY DEF Places
<1> QED
  BY <1>1 DEF Thinned

LEMMA ThinnedMore ==
  ASSUME NEW a \in Seq(AnyEntry), NEW b \in Seq(AnyEntry), NEW c \in Seq(AnyEntry),
         Thinned(a, b), Thinned(b, c)
  PROVE  Thinned(a, c)
<1>1. PICK g : g \in Places(a, b)
  BY DEF Thinned
<1>2. PICK h : h \in Places(b, c)
  BY DEF Thinned
<1>3. /\ \A i \in 1..Len(a) : g[i] \in 1..Len(b) /\ a[i] = b[g[i]]
      /\ \A i, j \in 1..Len(a) : i < j => g[i] < g[j]
  BY <1>1 DEF Places
<1>4. /\ \A i \in 1..Len(b) : h[i] \in 1..Len(c) /\ b[i] = c[h[i]]
      /\ \A i, j \in 1..Len(b) : i < j => h[i] < h[j]
  BY <1>2 DEF Places
<1>5. [i \in 1..Len(a) |-> h[g[i]]] \in Places(a, c)
  BY <1>3, <1>4 DEF Places
<1> QED
  BY <1>5 DEF Thinned

LEMMA ConcatFacts ==
  ASSUME NEW S, NEW a \in Seq(S), NEW b \in Seq(S)
  PROVE  /\ a \o b \in Seq(S) /\ Len(a \o b) = Len(a) + Len(b)
         /\ \A k \in 1..Len(a) : (a \o b)[k] = a[k]
         /\ \A k \in 1..Len(b) : (a \o b)[Len(a) + k] = b[k]
OBVIOUS

LEMMA RemoveAtIs ==
  ASSUME NEW s \in Seq(AnyEntry), NEW i \in 1..Len(s)
  PROVE  /\ RemoveAt(s, i) \in Seq(AnyEntry) /\ Len(RemoveAt(s, i)) = Len(s) - 1
         /\ \A k \in 1..(Len(s) - 1) :
               RemoveAt(s, i)[k] = IF k < i THEN s[k] ELSE s[k + 1]
<1> DEFINE n == Len(s)
           a == SubSeq(s, 1, i - 1)
           b == SubSeq(s, i + 1, n)
<1>1. n \in Nat /\ i \in Nat /\ i >= 1 /\ i <= n
  OBVIOUS
<1>2. /\ a \in Seq(AnyEntry) /\ Len(a) = i - 1
      /\ \A k \in 1..(i - 1) : a[k] = s[k]
  BY <1>1
<1>3. /\ b \in Seq(AnyEntry) /\ Len(b) = n - i
      /\ \A k \in 1..(n - i) : b[k] = s[i + k]
  BY <1>1
<1>4. RemoveAt(s, i) = a \o b
  BY DEF RemoveAt
<1> HIDE DEF a, b, n
<1>5. /\ a \o b \in Seq(AnyEntry) /\ Len(a \o b) = n - 1
      /\ \A k \in 1..Len(a) : (a \o b)[k] = a[k]
      /\ \A k \in 1..Len(b) : (a \o b)[Len(a) + k] = b[k]
  <2>1. Len(a) + Len(b) = n - 1
    BY <1>1, <1>2, <1>3
  <2>2. a \in Seq(AnyEntry) /\ b \in Seq(AnyEntry)
    BY <1>2, <1>3
  <2>3. /\ a \o b \in Seq(AnyEntry) /\ Len(a \o b) = Len(a) + Len(b)
        /\ \A k \in 1..Len(a) : (a \o b)[k] = a[k]
        /\ \A k \in 1..Len(b) : (a \o b)[Len(a) + k] = b[k]
    BY <2>2, ConcatFacts
  <2> QED
    BY <2>1, <2>3, Zenon
<1>6. ASSUME NEW k \in 1..(n - 1)
      PROVE  (a \o b)[k] = IF k < i THEN s[k] ELSE s[k + 1]
  <2>1. CASE k < i
    <3>1. k \in 1..(i - 1)
      BY <1>1, <2>1
    <3> QED
      BY <1>2, <1>5, <2>1, <3>1
  <2>2. CASE ~ (k < i)
    <3> DEFINE l == k - (i - 1)
    <3>1. l \in 1..(n - i) /\ Len(a) + l = k /\ i + l = k + 1
      BY <1>1, <1>2, <2>2
    <3> HIDE DEF l
    <3>2. (a \o b)[Len(a) + l] = b[l] /\ b[l] = s[i + l]
      BY <1>3, <1>5, <3>1
    <3> QED
      BY <2>2, <3>1, <3>2
  <2> QED
    BY <2>1, <2>2
<1> QED
  BY <1>4, <1>5, <1>6 DEF n

LEMMA RemoveAtThins ==
  ASSUME NEW s \in Seq(AnyEntry), NEW i \in 1..Len(s), Ascending(s)
  PROVE  /\ RemoveAt(s, i) \in Seq(AnyEntry)
         /\ Thinned(RemoveAt(s, i), s)
         /\ \A m : In(m, RemoveAt(s, i)) <=> In(m, s) /\ m # s[i]
<1> DEFINE r == RemoveAt(s, i)
           g == [k \in 1..Len(r) |-> IF k < i THEN k ELSE k + 1]
<1>1. /\ r \in Seq(AnyEntry) /\ Len(r) = Len(s) - 1 /\ Len(s) \in Nat
      /\ \A k \in 1..(Len(s) - 1) : r[k] = IF k < i THEN s[k] ELSE s[k + 1]
      /\ \A k \in 1..Len(s) : s[k] \in AnyEntry
  BY RemoveAtIs
<1> HIDE DEF r
<1>2. g \in Places(r, s)
  BY <1>1 DEF Places
<1>3. ASSUME NEW m, In(m, r) PROVE In(m, s) /\ m # s[i]
  <2>1. PICK k \in 1..Len(r) : r[k] = m
    BY <1>3 DEF In
  <2> DEFINE j == IF k < i THEN k ELSE k + 1
  <2>2. j \in 1..Len(s) /\ s[j] = m /\ (j < i \/ i < j)
    BY <1>1, <2>1
  <2> HIDE DEF j
  <2>3. s[j].num < s[i].num \/ s[i].num < s[j].num
    BY <2>2 DEF Ascending
  <2>4. s[i].num \in Nat /\ s[j].num \in Nat
    BY <1>1, <2>2 DEF AnyEntry
  <2>5. s[i] # s[j]
    BY <2>3, <2>4
  <2> QED
    BY <2>2, <2>5 DEF In
<1>4. ASSUME NEW m, In(m, s), m # s[i] PROVE In(m, r)
  <2>1. PICK k \in 1..Len(s) : s[k] = m
    BY <1>4 DEF In
  <2>2. k # i
    BY <1>4, <2>1
  <2>3. CASE k < i
    <3>1. k \in 1..Len(r) /\ r[k] = m
      BY <1>1, <2>1, <2>3
    <3> QED
      BY <3>1 DEF In
  <2>4. CASE i < k
    <3>1. k - 1 \in 1..Len(r) /\ r[k - 1] = m
      BY <1>1, <2>1, <2>4
    <3> QED
      BY <3>1 DEF In
  <2> QED
    BY <2>2, <2>3, <2>4
<1> QED
  BY <1>1, <1>2, <1>3, <1>4 DEF r, Thinned

(* Where std::lower_bound arrives.                                         *)
Bounds(msgs, num) ==
    { i \in 1..(Len(msgs) + 1) :
        /\ i <= Len(msgs) => num <= msgs[i].num
        /\ \A j \in 1..(i - 1) : msgs[j].num < num }

LEMMA LowerBoundIs ==
  ASSUME NEW msgs \in Seq(AnyEntry), NEW num \in Nat
  PROVE  LowerBound(msgs, num) \in Bounds(msgs, num)
<1> DEFINE n == Len(msgs)
           T == { i \in 1..(n + 1) : i = n + 1 \/ num <= msgs[i].num }
<1>1. n \in Nat /\ \A i \in 1..n : msgs[i].num \in Nat
  <2>1. \A i \in 1..n : msgs[i] \in AnyEntry
    BY SeqFacts
  <2> QED
    BY <2>1, SeqFacts DEF AnyEntry
<1>2. T \subseteq Nat /\ n + 1 \in T
  BY <1>1
<1>3. PICK i \in T : \A j \in T : i <= j
  BY <1>2, LeastElement
<1>4. i \in Bounds(msgs, num)
  <2>1. i \in 1..(n + 1) /\ (i <= n => num <= msgs[i].num)
    BY <1>1, <1>3
  <2>2. ASSUME NEW j \in 1..(i - 1) PROVE msgs[j].num < num
    <3>1. j \in 1..n /\ ~ (i <= j)
      BY <1>1, <1>3
    <3>2. j \notin T
      BY <1>3, <3>1
    <3> QED
      BY <1>1, <3>1, <3>2
  <2> QED
    BY <2>1, <2>2 DEF Bounds
<1>5. \E k \in 1..(Len(msgs) + 1) :
        /\ k <= Len(msgs) => num <= msgs[k].num
        /\ \A j \in 1..(k - 1) : msgs[j].num < num
  BY <1>4 DEF Bounds
<1>6. LowerBound(msgs, num) \in
        { k \in 1..(Len(msgs) + 1) :
            /\ k <= Len(msgs) => num <= msgs[k].num
            /\ \A j \in 1..(k - 1) : msgs[j].num < num }
  BY <1>5, Zenon DEF LowerBound
<1> QED
  BY <1>6 DEF Bounds

LEMMA DeleteMsgTyped ==
  ASSUME NEW msgs \in Seq(AnyEntry), NEW m \in AnyEntry
  PROVE  DeleteMsg(msgs, m) \in Seq(AnyEntry)
<1> DEFINE i == LowerBound(msgs, m.num)
<1>1. m.num \in Nat /\ Len(msgs) \in Nat
  BY DEF AnyEntry
<1>2. i \in 1..(Len(msgs) + 1)
  BY <1>1, LowerBoundIs DEF Bounds
<1>3. i # Len(msgs) + 1 => RemoveAt(msgs, i) \in Seq(AnyEntry)
  <2>1. i # Len(msgs) + 1 => i \in 1..Len(msgs)
    BY <1>1, <1>2
  <2> QED
    BY <2>1, RemoveAtIs
<1> QED
  BY <1>3 DEF DeleteMsg

(* deleteMsg deletes the message it is given, and no other.                *)
LEMMA DeletesTheMessage ==
  ASSUME NEW msgs \in Seq(AnyEntry), NEW m \in AnyEntry,
         Ascending(msgs), In(m, msgs)
  PROVE  /\ DeleteMsg(msgs, m) \in Seq(AnyEntry)
         /\ Thinned(DeleteMsg(msgs, m), msgs)
         /\ \A o : In(o, DeleteMsg(msgs, m)) <=> In(o, msgs) /\ o # m
<1>1. PICK i \in 1..Len(msgs) : msgs[i] = m
  BY DEF In
<1>2. Len(msgs) \in Nat /\ \A j \in 1..Len(msgs) : msgs[j].num \in Nat
  <2>1. \A j \in 1..Len(msgs) : msgs[j] \in AnyEntry
    BY SeqFacts
  <2> QED
    BY <2>1, SeqFacts DEF AnyEntry
<1>3. m.num \in Nat
  BY <1>1, <1>2
<1> DEFINE k == LowerBound(msgs, m.num)
<1>4. /\ k \in 1..(Len(msgs) + 1)
      /\ k <= Len(msgs) => m.num <= msgs[k].num
      /\ \A j \in 1..(k - 1) : msgs[j].num < m.num
  BY <1>3, LowerBoundIs DEF Bounds
<1> HIDE DEF k
<1>5. k = i
  <2>1. ~ (i < k)
    <3> SUFFICES ASSUME i < k PROVE FALSE
      OBVIOUS
    <3>1. i \in 1..(k - 1)
      BY <1>4
    <3>2. msgs[i].num < m.num
      BY <1>4, <3>1
    <3> QED
      BY <1>1, <1>3, <3>2
  <2>2. ~ (k < i)
    <3> SUFFICES ASSUME k < i PROVE FALSE
      OBVIOUS
    <3>1. k \in 1..Len(msgs) /\ k <= Len(msgs)
      BY <1>2, <1>4
    <3>2. msgs[k].num < msgs[i].num /\ m.num <= msgs[k].num
      BY <1>4, <3>1 DEF Ascending
    <3> QED
      BY <1>1, <1>2, <3>1, <3>2
  <2> QED
    BY <1>2, <1>4, <2>1, <2>2
<1>6. DeleteMsg(msgs, m) = RemoveAt(msgs, i)
  <2>1. k # Len(msgs) + 1
    BY <1>2, <1>5
  <2> QED
    BY <1>5, <2>1 DEF DeleteMsg, k
<1> QED
  BY <1>1, <1>6, RemoveAtThins

(* deleteMessages deletes what is listed, each message in turn.            *)
LEMMA DeleteAllLoop ==
  ASSUME NEW msgs \in Seq(AnyEntry), NEW listed \in Seq(AnyEntry)
  PROVE  \E left \in [0..Len(listed) -> Seq(AnyEntry)] :
            /\ left[0] = msgs
            /\ \A i \in 1..Len(listed) : left[i] = DeleteMsg(left[i - 1], listed[i])
            /\ DeleteAll(msgs, listed) = left[Len(listed)]
<1> DEFINE n    == Len(listed)
           S    == Seq(AnyEntry)
           R(f) == f = [i \in 0..n |-> IF i = 0 THEN msgs
                                       ELSE DeleteMsg(f[i - 1], listed[i])]
           c    == CHOOSE f : R(f)
           step == [p \in S \X (1..n) |-> DeleteMsg(p[1], listed[p[2]])]
<1>1. n \in Nat /\ \A i \in 1..n : listed[i] \in AnyEntry
  BY SeqFacts
<1>2. \A s \in S, i \in 1..n : step[<<s, i>>] = DeleteMsg(s, listed[i])
  OBVIOUS
<1>3. step \in [S \X (1..n) -> S]
  BY <1>1, DeleteMsgTyped
<1> HIDE DEF step
<1>4. PICK f : f \in Iterates(S, msgs, step, n)
  BY <1>1, <1>3, IteratesExist
<1>5. /\ f \in [0..n -> S]
      /\ f = [i \in 0..n |-> IF i = 0 THEN msgs ELSE step[<<f[i - 1], i>>]]
  BY <1>4 DEF Iterates
<1>6. ASSUME NEW i \in 0..n, i # 0
      PROVE  step[<<f[i - 1], i>>] = DeleteMsg(f[i - 1], listed[i])
  <2>1. i \in 1..n /\ i - 1 \in 0..n
    BY <1>1, <1>6
  <2>2. f[i - 1] \in S
    BY <1>5, <2>1
  <2> QED
    BY <1>2, <2>1, <2>2
<1>7. R(f)
  BY <1>5, <1>6
<1>8. R(c)
  <2> HIDE DEF R
  <2> QED
    BY <1>7, Zenon
<1>9. DeleteAll(msgs, listed) = c[n]
  BY Zenon DEF DeleteAll
<1> HIDE DEF c
<1>10. c[0] = msgs /\ \A i \in 1..n : c[i] = DeleteMsg(c[i - 1], listed[i])
  <2>1. 0 \in 0..n /\ \A i \in 1..n : i \in 0..n /\ i # 0
    BY <1>1
  <2> QED
    BY <1>8, <2>1
<1>11. \A i \in 0..n : c[i] \in S
  <2>1. \A i \in 1..n : c[i - 1] \in S => c[i] \in S
    BY <1>1, <1>10, DeleteMsgTyped
  <2> QED
    BY <1>1, <1>10, <2>1, StaysInside
<1>12. c \in [0..n -> S]
  BY <1>8, <1>11
<1> QED
  BY <1>9, <1>10, <1>12

LEMMA DeleteAllDeletes ==
  ASSUME NEW msgs \in Seq(AnyEntry), NEW listed \in Seq(AnyEntry),
         Ascending(msgs), Ascending(listed),
         \A i \in 1..Len(listed) : In(listed[i], msgs)
  PROVE  /\ DeleteAll(msgs, listed) \in Seq(AnyEntry)
         /\ Thinned(DeleteAll(msgs, listed), msgs)
         /\ \A o : In(o, DeleteAll(msgs, listed)) <=> In(o, msgs) /\ ~ In(o, listed)
<1> DEFINE n == Len(listed)
<1>1. n \in Nat /\ \A i \in 1..n : listed[i] \in AnyEntry
  BY SeqFacts
<1>2. PICK left \in [0..n -> Seq(AnyEntry)] :
        /\ left[0] = msgs
        /\ \A i \in 1..n : left[i] = DeleteMsg(left[i - 1], listed[i])
        /\ DeleteAll(msgs, listed) = left[n]
  BY DeleteAllLoop
<1> DEFINE Gone(o, k) == \E j \in 1..k : listed[j] = o
           Left(k)    == \A o : In(o, left[k]) <=> In(o, msgs) /\ ~ Gone(o, k)
           T == { k \in Nat : k <= n => Thinned(left[k], msgs) /\ Left(k) }
<1>3. 0 \in T
  BY <1>2, ThinnedSelf
<1>4. ASSUME NEW k \in Nat, k \in T PROVE k + 1 \in T
  <2> SUFFICES ASSUME k + 1 <= n PROVE Thinned(left[k + 1], msgs) /\ Left(k + 1)
    OBVIOUS
  <2>1. k \in 0..n /\ k + 1 \in 0..n /\ k + 1 \in 1..n /\ k <= n /\ k + 1 - 1 = k
    BY <1>1
  <2>2. Thinned(left[k], msgs) /\ Left(k)
    BY <1>4, <2>1
  <2>3. left[k] \in Seq(AnyEntry) /\ left[k + 1] \in Seq(AnyEntry)
    BY <1>2, <2>1
  <2> DEFINE m == listed[k + 1]
  <2>4. left[k + 1] = DeleteMsg(left[k], m) /\ m \in AnyEntry
    BY <1>1, <1>2, <2>1
  <2>5. Ascending(left[k])
    BY <2>2, <2>3, ThinnedKeeps
  <2>6. ~ Gone(m, k)
    <3> SUFFICES ASSUME NEW j \in 1..k, listed[j] = m PROVE FALSE
      OBVIOUS
    <3>1. j \in 1..n /\ j < k + 1
      BY <1>1, <2>1
    <3>2. listed[j].num < m.num
      BY <2>1, <3>1 DEF Ascending
    <3>3. m.num \in Nat
      BY <2>4 DEF AnyEntry
    <3> QED
      BY <3>2, <3>3
  <2>7. In(m, left[k])
    BY <2>1, <2>2, <2>6
  <2> HIDE DEF m, Left
  <2>8. /\ Thinned(left[k + 1], left[k])
        /\ \A o : In(o, left[k + 1]) <=> In(o, left[k]) /\ o # m
    BY <2>3, <2>4, <2>5, <2>7, DeletesTheMessage
  <2>9. Thinned(left[k + 1], msgs)
    BY <2>2, <2>3, <2>8, ThinnedMore
  <2>10. \A o : Gone(o, k + 1) <=> Gone(o, k) \/ o = m
    <3>1. \A j : j \in 1..(k + 1) <=> j \in 1..k \/ j = k + 1
      BY <2>1
    <3> QED
      BY <3>1 DEF m
  <2>11. Left(k + 1)
    <3> HIDE DEF Gone
    <3> QED
      BY <2>2, <2>8, <2>10 DEF Left
  <2> QED
    BY <2>9, <2>11
<1> HIDE DEF T
<1>5. Nat \subseteq T
  BY <1>3, <1>4, SetInduction
<1>6. Thinned(left[n], msgs) /\ Left(n)
  BY <1>1, <1>5 DEF T
<1>7. n \in 0..n
  BY <1>1
<1>8. \A o : Gone(o, n) <=> In(o, listed)
  BY DEF In
<1> HIDE DEF Gone
<1> QED
  BY <1>2, <1>6, <1>7, <1>8

-----------------------------------------------------------------------------
(* Listing messages.                                                       *)

(* refreshRecvList goes through the messages from the first to the last.   *)
LEMMA ListedLoop ==
  ASSUME NEW msgs \in Seq(AnyEntry), NEW mode
  PROVE  \E c \in [0..Len(msgs) -> Seq(AnyEntry)] :
            /\ c[0] = <<>>
            /\ \A i \in 1..Len(msgs) : c[i] = IF msgs[i].type \in mode THEN Append(c[i - 1], msgs[i]) ELSE c[i - 1]
            /\ Listed(msgs, mode) = c[Len(msgs)]
<1> DEFINE n       == Len(msgs)
           S       == Seq(AnyEntry)
           F(x, i) == IF msgs[i].type \in mode THEN Append(x, msgs[i]) ELSE x
           R(f)    == f = [i \in 0..n |-> IF i = 0 THEN <<>> ELSE F(f[i - 1], i)]
           c       == CHOOSE f : R(f)
           step    == [p \in S \X (1..n) |-> F(p[1], p[2])]
<1>1. n \in Nat /\ <<>> \in S
  BY SeqFacts
<1>2. \A x \in S, i \in 1..n : F(x, i) \in S
  <2>1. \A i \in 1..n : msgs[i] \in AnyEntry
    BY SeqFacts
  <2> QED
    BY <2>1
<1>3. Listed(msgs, mode) = c[n]
  BY Zenon DEF Listed
<1> HIDE DEF F
<1>4. \A x \in S, i \in 1..n : step[<<x, i>>] = F(x, i)
  OBVIOUS
<1>5. step \in [S \X (1..n) -> S]
  BY <1>2
<1> HIDE DEF step, n, S
<1>6. PICK f : f \in Iterates(S, <<>>, step, n)
  BY <1>1, <1>5, IteratesExist DEF n, S
<1>7. /\ f \in [0..n -> S]
      /\ f = [i \in 0..n |-> IF i = 0 THEN <<>> ELSE step[<<f[i - 1], i>>]]
  BY <1>6 DEF Iterates
<1>8. ASSUME NEW i \in 0..n, i # 0
      PROVE  step[<<f[i - 1], i>>] = F(f[i - 1], i)
  <2>1. i \in 1..n /\ i - 1 \in 0..n
    BY <1>1, <1>8
  <2>2. f[i - 1] \in S
    BY <1>7, <2>1
  <2> QED
    BY <1>4, <2>1, <2>2
<1>9. R(f)
  BY <1>7, <1>8
<1>10. R(c)
  <2> HIDE DEF R
  <2> QED
    BY <1>9, Zenon
<1> HIDE DEF c
<1>11. c[0] = <<>> /\ \A i \in 1..n : c[i] = F(c[i - 1], i)
  <2>1. 0 \in 0..n /\ \A i \in 1..n : i \in 0..n /\ i # 0
    BY <1>1
  <2> QED
    BY <1>10, <2>1
<1>12. \A i \in 0..n : c[i] \in S
  <2>1. \A i \in 1..n : c[i - 1] \in S => c[i] \in S
    BY <1>2, <1>11
  <2> QED
    BY <1>1, <1>11, <2>1, StaysInside
<1>13. c \in [0..n -> S]
  BY <1>10, <1>12
<1> QED
  BY <1>3, <1>11, <1>13 DEF F, n, S

(* It lists the messages that are to be shown, in their order.             *)
LEMMA ListedShows ==
  ASSUME NEW msgs \in Seq(AnyEntry), NEW mode, Ascending(msgs)
  PROVE  Listed(msgs, mode) \in Seq(AnyEntry) /\ Shows(Listed(msgs, mode), msgs, mode)
<1> DEFINE n == Len(msgs)
<1>1. n \in Nat /\ \A i \in 1..n : msgs[i] \in AnyEntry
  BY SeqFacts
<1>2. PICK c \in [0..n -> Seq(AnyEntry)] :
        /\ c[0] = <<>>
        /\ \A i \in 1..n : c[i] = IF msgs[i].type \in mode THEN Append(c[i - 1], msgs[i])
                                  ELSE c[i - 1]
        /\ Listed(msgs, mode) = c[n]
  BY ListedLoop
<1> DEFINE Among(m, k) == \E j \in 1..k : msgs[j] = m /\ m.type \in mode
           Lists(k)    == \A m : In(m, c[k]) <=> Among(m, k)
           T == { k \in Nat : k <= n => Ascending(c[k]) /\ Lists(k) }
<1>3. 0 \in T
  <2>1. \A m : ~ In(m, <<>>) /\ ~ Among(m, 0)
    BY DEF In
  <2>2. Ascending(<<>>)
    BY DEF Ascending
  <2> HIDE DEF Among
  <2> QED
    BY <1>2, <2>1, <2>2
<1>4. ASSUME NEW k \in Nat, k \in T PROVE k + 1 \in T
  <2> SUFFICES ASSUME k + 1 <= n PROVE Ascending(c[k + 1]) /\ Lists(k + 1)
    OBVIOUS
  <2>1. k \in 0..n /\ k + 1 \in 0..n /\ k + 1 \in 1..n /\ k <= n /\ k + 1 - 1 = k
    BY <1>1
  <2>2. Ascending(c[k]) /\ Lists(k)
    BY <1>4, <2>1
  <2> DEFINE m == msgs[k + 1]
  <2>3. c[k] \in Seq(AnyEntry) /\ m \in AnyEntry
    BY <1>1, <1>2, <2>1
  <2>4. c[k + 1] = IF m.type \in mode THEN Append(c[k], m) ELSE c[k]
    BY <1>2, <2>1
  <2>5. \A o : Among(o, k + 1) <=> Among(o, k) \/ (o = m /\ m.type \in mode)
    <3>1. \A j : j \in 1..(k + 1) <=> j \in 1..k \/ j = k + 1
      BY <2>1
    <3> QED
      BY <3>1
  <2>6. \A i \in 1..Len(c[k]) : c[k][i].num < m.num
    <3> SUFFICES ASSUME NEW i \in 1..Len(c[k]) PROVE c[k][i].num < m.num
      OBVIOUS
    <3>1. In(c[k][i], c[k])
      BY DEF In
    <3>2. PICK j \in 1..k : msgs[j] = c[k][i]
      BY <2>2, <3>1
    <3>3. j \in 1..n /\ j < k + 1
      BY <2>1
    <3> QED
      BY <2>1, <3>2, <3>3 DEF Ascending
  <2> HIDE DEF m, Among
  <2>7. CASE m.type \in mode
    <3> DEFINE t == Append(c[k], m)
    <3>1. c[k + 1] = t
      BY <2>4, <2>7
    <3>2. \A o : In(o, t) <=> In(o, c[k]) \/ o = m
      BY <2>3, InAppend
    <3>3. /\ Len(t) = Len(c[k]) + 1 /\ Len(c[k]) \in Nat
          /\ \A i \in 1..Len(c[k]) : t[i] = c[k][i]
          /\ t[Len(c[k]) + 1] = m
      BY <2>3, AppendFacts
    <3> HIDE DEF t
    <3>4. Ascending(t)
      <4> SUFFICES ASSUME NEW i \in 1..Len(t), NEW j \in 1..Len(t), i < j
                   PROVE  t[i].num < t[j].num
        BY DEF Ascending
      <4>1. i \in 1..Len(c[k]) /\ t[i] = c[k][i]
        BY <3>3
      <4>2. CASE j = Len(c[k]) + 1
        BY <2>6, <3>3, <4>1, <4>2
      <4>3. CASE j # Len(c[k]) + 1
        <5>1. j \in 1..Len(c[k]) /\ t[j] = c[k][j]
          BY <3>3, <4>3
        <5> QED
          BY <2>2, <4>1, <5>1 DEF Ascending
      <4> QED
        BY <4>2, <4>3
    <3> QED
      BY <2>2, <2>5, <2>7, <3>1, <3>2, <3>4
  <2>8. CASE m.type \notin mode
    BY <2>2, <2>4, <2>5, <2>8
  <2> QED
    BY <2>7, <2>8
<1> HIDE DEF T
<1>5. Nat \subseteq T
  BY <1>3, <1>4, SetInduction
<1>6. Ascending(c[n]) /\ Lists(n)
  <2> HIDE DEF Lists
  <2>1. n \in T /\ n <= n
    BY <1>1, <1>5
  <2> QED
    BY <2>1 DEF T
<1>7. \A m : Among(m, n) <=> In(m, msgs) /\ m.type \in mode
  BY DEF In
<1>8. n \in 0..n
  BY <1>1
<1> HIDE DEF Among
<1> QED
  BY <1>2, <1>6, <1>7, <1>8 DEF Shows, Selects

(* There is one list of the messages that are to be shown.                 *)
LEMMA OneListShows ==
  ASSUME NEW msgs \in Seq(AnyEntry), NEW mode, NEW shown \in Seq(AnyEntry),
         Ascending(msgs), Shows(shown, msgs, mode)
  PROVE  shown = Listed(msgs, mode)
<1>1. Listed(msgs, mode) \in Seq(AnyEntry) /\ Shows(Listed(msgs, mode), msgs, mode)
  BY ListedShows
<1>2. SameElements(shown, Listed(msgs, mode))
  BY <1>1 DEF Shows, Selects, SameElements
<1>3. Ascending(shown) /\ Ascending(Listed(msgs, mode))
  BY <1>1 DEF Shows
<1> QED
  BY <1>1, <1>2, <1>3, AscendingUnique

-----------------------------------------------------------------------------
(* Data in the chain of filters.                                           *)

Carrying(id) == [id : {id}, layers : Seq(Filters)]
Remains(id)  == {<<>>} \cup { <<d>> : d \in Carrying(id) }

LEMMA FilterSendTyped ==
  ASSUME NEW id, NEW d \in Carrying(id), NEW f \in Filters
  PROVE  FilterSend(f, d) \in Carrying(id)
<1>1. d.layers \in Seq(Filters) /\ <<f>> \in Seq(Filters)
  BY DEF Carrying
<1>2. <<f>> \o d.layers \in Seq(Filters)
  BY <1>1
<1> QED
  BY <1>2 DEF FilterSend, Carrying

LEMMA FilterRecvTyped ==
  ASSUME NEW id, NEW d \in Carrying(id), NEW f \in Filters
  PROVE  FilterRecv(f, d) \in Remains(id)
<1>1. CASE FilterRecv(f, d) = <<>>
  BY <1>1 DEF Remains
<1>2. CASE d.layers # <<>>
  <2>1. [d EXCEPT !.layers = Tail(@)] \in Carrying(id)
    BY <1>2 DEF Carrying
  <2> QED
    BY <1>1, <2>1 DEF FilterRecv, Remains
<1>3. CASE d.layers = <<>>
  BY <1>1, <1>3 DEF FilterRecv
<1> QED
  BY <1>2, <1>3

(* Data on its way down is given a layer by each filter.                   *)
LEMMA SendChainLoop ==
  ASSUME NEW id, NEW d \in Carrying(id)
  PROVE  \E c \in [0..NFilters -> Carrying(id)] :
            /\ c[0] = d
            /\ \A i \in 1..NFilters : c[i] = FilterSend(i, c[i - 1])
            /\ SendChain(d) = c[NFilters]
<1> DEFINE n       == NFilters
           S       == Carrying(id)
           F(x, i) == FilterSend(i, x)
           R(f)    == f = [i \in 0..n |-> IF i = 0 THEN d ELSE F(f[i - 1], i)]
           c       == CHOOSE f : R(f)
           step    == [p \in S \X (1..n) |-> F(p[1], p[2])]
<1>1. n \in Nat /\ d \in S
  BY BoundsAssumption
<1>2. \A x \in S, i \in 1..n : F(x, i) \in S
  BY FilterSendTyped DEF Filters
<1>3. SendChain(d) = c[n]
  BY Zenon DEF SendChain
<1> HIDE DEF F
<1>4. \A x \in S, i \in 1..n : step[<<x, i>>] = F(x, i)
  OBVIOUS
<1>5. step \in [S \X (1..n) -> S]
  BY <1>2
<1> HIDE DEF step, n, S
<1>6. PICK f : f \in Iterates(S, d, step, n)
  BY <1>1, <1>5, IteratesExist DEF n, S
<1>7. /\ f \in [0..n -> S]
      /\ f = [i \in 0..n |-> IF i = 0 THEN d ELSE step[<<f[i - 1], i>>]]
  BY <1>6 DEF Iterates
<1>8. ASSUME NEW i \in 0..n, i # 0
      PROVE  step[<<f[i - 1], i>>] = F(f[i - 1], i)
  <2>1. i \in 1..n /\ i - 1 \in 0..n
    BY <1>1, <1>8
  <2>2. f[i - 1] \in S
    BY <1>7, <2>1
  <2> QED
    BY <1>4, <2>1, <2>2
<1>9. R(f)
  BY <1>7, <1>8
<1>10. R(c)
  <2> HIDE DEF R
  <2> QED
    BY <1>9, Zenon
<1> HIDE DEF c
<1>11. c[0] = d /\ \A i \in 1..n : c[i] = F(c[i - 1], i)
  <2>1. 0 \in 0..n /\ \A i \in 1..n : i \in 0..n /\ i # 0
    BY <1>1
  <2> QED
    BY <1>10, <2>1
<1>12. \A i \in 0..n : c[i] \in S
  <2>1. \A i \in 1..n : c[i - 1] \in S => c[i] \in S
    BY <1>2, <1>11
  <2> QED
    BY <1>1, <1>11, <2>1, StaysInside
<1>13. c \in [0..n -> S]
  BY <1>10, <1>12
<1> QED
  BY <1>3, <1>11, <1>13 DEF F, n, S

(* Data on its way up loses a layer to each filter, or is dropped.         *)
LEMMA RecvChainLoop ==
  ASSUME NEW id, NEW d \in Carrying(id)
  PROVE  \E c \in [0..NFilters -> Remains(id)] :
            /\ c[0] = <<d>>
            /\ \A i \in 1..NFilters : c[i] = IF c[i - 1] = <<>> THEN <<>> ELSE FilterRecv(i, c[i - 1][1])
            /\ RecvChain(d) = c[NFilters]
<1> DEFINE n       == NFilters
           S       == Remains(id)
           F(x, i) == IF x = <<>> THEN <<>> ELSE FilterRecv(i, x[1])
           R(f)    == f = [i \in 0..n |-> IF i = 0 THEN <<d>> ELSE F(f[i - 1], i)]
           c       == CHOOSE f : R(f)
           step    == [p \in S \X (1..n) |-> F(p[1], p[2])]
<1>1. n \in Nat /\ <<d>> \in S
  BY BoundsAssumption DEF Remains
<1>2. \A x \in S, i \in 1..n : F(x, i) \in S
  <2> SUFFICES ASSUME NEW x \in S, NEW i \in 1..n, x # <<>>
               PROVE  FilterRecv(i, x[1]) \in S
    BY DEF Remains
  <2>1. PICK e \in Carrying(id) : x = <<e>>
    BY DEF Remains
  <2>2. x[1] = e
    BY <2>1
  <2> QED
    BY <2>2, FilterRecvTyped DEF Filters
<1>3. RecvChain(d) = c[n]
  BY Zenon DEF RecvChain
<1> HIDE DEF F
<1>4. \A x \in S, i \in 1..n : step[<<x, i>>] = F(x, i)
  OBVIOUS
<1>5. step \in [S \X (1..n) -> S]
  BY <1>2
<1> HIDE DEF step, n, S
<1>6. PICK f : f \in Iterates(S, <<d>>, step, n)
  BY <1>1, <1>5, IteratesExist DEF n, S
<1>7. /\ f \in [0..n -> S]
      /\ f = [i \in 0..n |-> IF i = 0 THEN <<d>> ELSE step[<<f[i - 1], i>>]]
  BY <1>6 DEF Iterates
<1>8. ASSUME NEW i \in 0..n, i # 0
      PROVE  step[<<f[i - 1], i>>] = F(f[i - 1], i)
  <2>1. i \in 1..n /\ i - 1 \in 0..n
    BY <1>1, <1>8
  <2>2. f[i - 1] \in S
    BY <1>7, <2>1
  <2> QED
    BY <1>4, <2>1, <2>2
<1>9. R(f)
  BY <1>7, <1>8
<1>10. R(c)
  <2> HIDE DEF R
  <2> QED
    BY <1>9, Zenon
<1> HIDE DEF c
<1>11. c[0] = <<d>> /\ \A i \in 1..n : c[i] = F(c[i - 1], i)
  <2>1. 0 \in 0..n /\ \A i \in 1..n : i \in 0..n /\ i # 0
    BY <1>1
  <2> QED
    BY <1>10, <2>1
<1>12. \A i \in 0..n : c[i] \in S
  <2>1. \A i \in 1..n : c[i - 1] \in S => c[i] \in S
    BY <1>2, <1>11
  <2> QED
    BY <1>1, <1>11, <2>1, StaysInside
<1>13. c \in [0..n -> S]
  BY <1>10, <1>12
<1> QED
  BY <1>3, <1>11, <1>13 DEF F, n, S

LEMMA SendChainCarries ==
  ASSUME NEW id, NEW d \in Carrying(id)
  PROVE  SendChain(d) \in Carrying(id)
<1>1. PICK c \in [0..NFilters -> Carrying(id)] : SendChain(d) = c[NFilters]
  BY SendChainLoop
<1> QED
  BY <1>1, BoundsAssumption

LEMMA RecvChainRemains ==
  ASSUME NEW id, NEW d \in Carrying(id)
  PROVE  RecvChain(d) \in Remains(id)
<1>1. PICK c \in [0..NFilters -> Remains(id)] : RecvChain(d) = c[NFilters]
  BY RecvChainLoop
<1> QED
  BY <1>1, BoundsAssumption

(* What a filter has sent for itself never reaches the protocol.           *)
LEMMA OwnDataDropped ==
  ASSUME NEW d \in Packet, d.id = Own
  PROVE  RecvChain(d) = <<>>
<1>1. PICK f \in Filters : d.layers = <<f>>
  BY DEF Packet
<1>2. d \in Carrying(Own)
  BY DEF Packet, DataInfo, Carrying
<1>3. PICK c \in [0..NFilters -> Remains(Own)] :
        /\ c[0] = <<d>>
        /\ \A i \in 1..NFilters : c[i] = IF c[i - 1] = <<>> THEN <<>>
                                         ELSE FilterRecv(i, c[i - 1][1])
        /\ RecvChain(d) = c[NFilters]
  BY <1>2, RecvChainLoop
<1>4. NFilters \in Nat /\ 1 \in 1..NFilters
  BY <1>1, BoundsAssumption DEF Filters
<1>5. c[1] = <<>>
  <2>1. <<d>> # <<>> /\ <<d>>[1] = d
    OBVIOUS
  <2>2. c[1] = IF c[1 - 1] = <<>> THEN <<>> ELSE FilterRecv(1, c[1 - 1][1])
    BY <1>3, <1>4
  <2>3. c[1] = FilterRecv(1, d)
    <3>1. c[1 - 1] = <<d>>
      BY <1>3
    <3>2. c[1] = FilterRecv(1, <<d>>[1])
      BY <2>1, <2>2, <3>1, Zenon
    <3> QED
      BY <2>1, <3>2
  <2>4. Head(d.layers) = f
    BY <1>1
  <2>5. f = 1 => d = [id |-> Own, layers |-> <<1>>]
    BY <1>1, <1>2 DEF Carrying
  <2> QED
    BY <2>3, <2>4, <2>5 DEF FilterRecv
<1> DEFINE T == { k \in Nat : k + 1 <= NFilters => c[k + 1] = <<>> }
<1>6. 0 \in T
  BY <1>5
<1>7. ASSUME NEW k \in Nat, k \in T PROVE k + 1 \in T
  <2> SUFFICES ASSUME k + 1 + 1 <= NFilters PROVE c[k + 1 + 1] = <<>>
    OBVIOUS
  <2>1. c[k + 1] = <<>> /\ k + 2 \in 1..NFilters /\ k + 2 - 1 = k + 1
    BY <1>4, <1>7
  <2>2. c[k + 2] = <<>>
    BY <1>3, <2>1
  <2> QED
    BY <2>2
<1> HIDE DEF T
<1>8. Nat \subseteq T
  BY <1>6, <1>7, SetInduction
<1>9. NFilters - 1 \in T /\ NFilters - 1 + 1 = NFilters
  BY <1>4, <1>8
<1>10. NFilters - 1 + 1 <= NFilters
  BY <1>4
<1> QED
  BY <1>3, <1>9, <1>10 DEF T

(* What does reach it is a message, and the one that was sent.             *)
LEMMA ReceivedIsSent ==
  ASSUME NEW d \in Packet, RecvChain(d) # <<>>
  PROVE  /\ RecvChain(d)[1].id = d.id
         /\ d.id # Own
         /\ d.id \in 1..MaxSent
<1>1. d \in Carrying(d.id) /\ d.id \in {Own} \cup 1..MaxSent
  BY DEF Packet, DataInfo, Carrying
<1>2. RecvChain(d) \in Remains(d.id)
  BY <1>1, RecvChainRemains
<1>3. PICK e \in Carrying(d.id) : RecvChain(d) = <<e>>
  BY <1>2 DEF Remains
<1>4. e.id = d.id /\ <<e>>[1] = e
  BY DEF Carrying
<1>5. d.id # Own
  BY OwnDataDropped
<1> QED
  BY <1>1, <1>3, <1>4, <1>5

-----------------------------------------------------------------------------
(* Adding a message.                                                       *)

Kept(st, c) ==
    /\ Ascending(st.allMsgs)
    /\ Below(st.allMsgs, st.next)
    /\ Follow(st.allMsgs)
    /\ Issued(st.allMsgs, c)

NewEntry(st, type, id) == [num |-> st.next, type |-> type, id |-> id]

LEMMA StateFacts ==
  ASSUME NEW st \in State
  PROVE  /\ st.allMsgs \in Seq(AnyEntry) /\ st.next \in Nat \ {0}
         /\ st.shown \in Seq(AnyEntry) /\ st.pending \in Seq(Packet)
         /\ st.active \in BOOLEAN /\ st.timer \in BOOLEAN
BY DEF State

LEMMA AddIs ==
  ASSUME NEW st \in State, NEW type \in MsgType, NEW id \in MessageId
  PROVE  /\ NewEntry(st, type, id) \in AnyEntry
         /\ Add(st, type, id) \in State
         /\ Add(st, type, id).allMsgs = Append(st.allMsgs, NewEntry(st, type, id))
         /\ Add(st, type, id).next = st.next + 1
         /\ Add(st, type, id).shown =
                IF type \in m_recvListMode
                THEN Append(st.shown, NewEntry(st, type, id)) ELSE st.shown
         /\ Add(st, type, id).pending = st.pending
         /\ Add(st, type, id).active = st.active
         /\ Add(st, type, id).timer = st.timer
<1> DEFINE m     == NewEntry(st, type, id)
           shown == IF type \in m_recvListMode THEN Append(st.shown, m) ELSE st.shown
           new   == [allMsgs |-> Append(st.allMsgs, m), next |-> st.next + 1,
                     shown |-> shown, pending |-> st.pending,
                     active |-> st.active, timer |-> st.timer]
<1>1. m \in AnyEntry
  BY StateFacts DEF AnyEntry, NewEntry
<1>2. /\ Append(st.allMsgs, m) \in Seq(AnyEntry)
      /\ shown \in Seq(AnyEntry)
      /\ st.next + 1 \in Nat \ {0}
  BY <1>1, StateFacts
<1>3. m.type = type
  BY DEF NewEntry
<1>4. Add(st, type, id) = [st EXCEPT !.allMsgs = Append(@, m), !.next = @ + 1,
                                     !.shown = shown]
  BY <1>3 DEF Add, CanAddToRecvList, NewEntry
<1> HIDE DEF m, shown
<1>5. Add(st, type, id) = new
  BY <1>4 DEF State
<1>6. new \in State
  BY <1>2, StateFacts DEF State
<1> QED
  BY <1>1, <1>5, <1>6 DEF m, shown

CanFollow(msgs, m) == \A i \in 1..Len(msgs) : Precedes(msgs[i], m)

LEMMA AddKeeps ==
  ASSUME NEW st \in State, NEW type \in MsgType, NEW id \in MessageId, NEW c \in Nat,
         Kept(st, c), Shows(st.shown, st.allMsgs, m_recvListMode),
         id <= c, CanFollow(st.allMsgs, NewEntry(st, type, id))
  PROVE  /\ Kept(Add(st, type, id), c)
         /\ Shows(Add(st, type, id).shown, Add(st, type, id).allMsgs, m_recvListMode)
<1> DEFINE m == NewEntry(st, type, id)
           s == st.allMsgs
           t == Append(s, m)
           v == st.shown
<1>1. /\ s \in Seq(AnyEntry) /\ st.next \in Nat \ {0} /\ v \in Seq(AnyEntry)
      /\ m \in AnyEntry /\ m.num = st.next /\ m.type = type /\ m.id = id
  BY StateFacts, AddIs DEF NewEntry
<1>2. /\ Add(st, type, id).allMsgs = t /\ Add(st, type, id).next = st.next + 1
      /\ Add(st, type, id).shown = IF type \in m_recvListMode THEN Append(v, m) ELSE v
  BY AddIs
<1>3. /\ Ascending(s) /\ Below(s, st.next) /\ Follow(s) /\ Issued(s, c)
      /\ Ascending(v) /\ Selects(v, s, m_recvListMode) /\ CanFollow(s, m)
  BY DEF Kept, Shows
<1> HIDE DEF m, s, v
<1>4. /\ t \in Seq(AnyEntry) /\ Len(t) = Len(s) + 1 /\ Len(s) \in Nat
      /\ \A i \in 1..Len(s) : t[i] = s[i]
      /\ t[Len(s) + 1] = m
      /\ \A i \in 1..Len(s) : s[i] \in AnyEntry
      /\ \A i \in 1..Len(s) : s[i].num \in Nat
  <2>1. \A i \in 1..Len(s) : s[i] \in AnyEntry
    BY <1>1, SeqFacts
  <2>2. \A i \in 1..Len(s) : s[i].num \in Nat
    BY <2>1 DEF AnyEntry
  <2> QED
    BY <1>1, <2>1, <2>2, AppendFacts, SeqFacts
<1>5. \A o : In(o, t) <=> In(o, s) \/ o = m
  BY <1>1, InAppend
<1> HIDE DEF t
<1>6. \A i \in 1..Len(t) : \/ i \in 1..Len(s) /\ t[i] = s[i]
                           \/ i = Len(s) + 1 /\ t[i] = m
  BY <1>4
<1>7. Ascending(t)
  <2> SUFFICES ASSUME NEW i \in 1..Len(t), NEW j \in 1..Len(t), i < j
               PROVE  t[i].num < t[j].num
    BY DEF Ascending
  <2>1. i \in 1..Len(s) /\ t[i] = s[i]
    BY <1>4, <1>6
  <2>2. CASE j \in 1..Len(s) /\ t[j] = s[j]
    BY <1>3, <2>1, <2>2 DEF Ascending
  <2>3. CASE t[j] = m
    BY <1>1, <1>3, <2>1, <2>3 DEF Below
  <2> QED
    BY <1>6, <2>2, <2>3
<1>8. Below(t, st.next + 1)
  BY <1>1, <1>3, <1>4, <1>6 DEF Below
<1>9. Follow(t)
  <2> SUFFICES ASSUME NEW i \in 1..Len(t), NEW j \in 1..Len(t), i < j
               PROVE  Precedes(t[i], t[j])
    BY DEF Follow
  <2>1. i \in 1..Len(s) /\ t[i] = s[i]
    BY <1>4, <1>6
  <2>2. CASE j \in 1..Len(s) /\ t[j] = s[j]
    BY <1>3, <2>1, <2>2 DEF Follow
  <2>3. CASE t[j] = m
    BY <1>3, <2>1, <2>3 DEF CanFollow
  <2> QED
    BY <1>6, <2>2, <2>3
<1>10. Issued(t, c)
  BY <1>1, <1>3, <1>6 DEF Issued
<1>11. CASE type \in m_recvListMode
  <2> DEFINE w == Append(v, m)
  <2>1. /\ Len(w) = Len(v) + 1 /\ Len(v) \in Nat
        /\ \A i \in 1..Len(v) : w[i] = v[i]
        /\ w[Len(v) + 1] = m
        /\ \A i \in 1..Len(v) : v[i] \in AnyEntry
    BY <1>1, AppendFacts, SeqFacts
  <2>2. \A o : In(o, w) <=> In(o, v) \/ o = m
    BY <1>1, InAppend
  <2> HIDE DEF w
  <2>3. \A i \in 1..Len(v) : v[i].num < m.num
    <3> SUFFICES ASSUME NEW i \in 1..Len(v) PROVE v[i].num < m.num
      OBVIOUS
    <3>1. In(v[i], v) /\ v[i] \in AnyEntry
      BY <2>1 DEF In
    <3>2. In(v[i], s)
      BY <1>3, <3>1 DEF Selects
    <3>3. PICK j \in 1..Len(s) : s[j] = v[i]
      BY <3>2 DEF In
    <3> QED
      BY <1>1, <1>3, <3>3 DEF Below
  <2>4. \A i \in 1..Len(w) : \/ i \in 1..Len(v) /\ w[i] = v[i]
                             \/ i = Len(v) + 1 /\ w[i] = m
    BY <2>1
  <2>5. Ascending(w)
    BY <1>3, <2>1, <2>3, <2>4 DEF Ascending
  <2>6. Selects(w, t, m_recvListMode)
    BY <1>1, <1>3, <1>5, <1>11, <2>2 DEF Selects
  <2> QED
    BY <1>2, <1>7, <1>8, <1>9, <1>10, <1>11, <2>5, <2>6 DEF Kept, Shows, w
<1>12. CASE type \notin m_recvListMode
  <2>1. Selects(v, t, m_recvListMode)
    BY <1>1, <1>3, <1>5, <1>12 DEF Selects
  <2> QED
    BY <1>2, <1>3, <1>7, <1>8, <1>9, <1>10, <1>12, <2>1 DEF Kept, Shows
<1> QED
  BY <1>11, <1>12

LEMMA EarlierAppend ==
  ASSUME NEW msgs \in Seq(AnyEntry), NEW m \in AnyEntry, NEW data, NEW k,
         Earlier(msgs, data, k),
         m.type = "Received" /\ m.id # Loaded
            => \A j \in (k + 1)..Len(data) : data[j].id # Own => m.id < data[j].id
  PROVE  Earlier(Append(msgs, m), data, k)
<1> DEFINE t == Append(msgs, m)
<1>1. /\ Len(t) = Len(msgs) + 1 /\ Len(msgs) \in Nat
      /\ \A i \in 1..Len(msgs) : t[i] = msgs[i]
      /\ t[Len(msgs) + 1] = m
  BY AppendFacts, SeqFacts
<1> HIDE DEF t
<1>2. \A i \in 1..Len(t) : \/ i \in 1..Len(msgs) /\ t[i] = msgs[i]
                           \/ t[i] = m
  BY <1>1
<1>3. Earlier(t, data, k)
  BY <1>2 DEF Earlier
<1> QED
  BY <1>3 DEF t

-----------------------------------------------------------------------------
(* Data that waits in the socket, and the invariant of a state.            *)

OrderedData(data) ==
    \A i, j \in 1..Len(data) :
        i < j /\ data[i].id # Own /\ data[j].id # Own => data[i].id < data[j].id

IssuedData(data, c) == \A j \in 1..Len(data) : data[j].id <= c

Layered(d) == d.id # Own => d = SendChain([id |-> d.id, layers |-> <<>>])

Queued(data, c) ==
    /\ OrderedData(data)
    /\ IssuedData(data, c)
    /\ \A j \in 1..Len(data) : Layered(data[j])

Scheduled(st) ==
    /\ st.active => st.timer
    /\ st.pending # <<>> => st.timer

SoundIn(st, c, mode) ==
    /\ st \in State
    /\ Kept(st, c)
    /\ Shows(st.shown, st.allMsgs, mode)
    /\ Queued(st.pending, c)
    /\ Earlier(st.allMsgs, st.pending, 0)
    /\ Scheduled(st)

Sound(st, c) == SoundIn(st, c, m_recvListMode)

LEMMA PacketFacts ==
  ASSUME NEW d \in Packet
  PROVE  d.id = Own \/ d.id \in 1..MaxSent
BY DEF Packet, DataInfo

LEMMA SendDataImplIs ==
  ASSUME NEW st \in State, NEW d \in Packet
  PROVE  /\ SendDataImpl(st, d) \in State
         /\ SendDataImpl(st, d).allMsgs = st.allMsgs
         /\ SendDataImpl(st, d).next = st.next
         /\ SendDataImpl(st, d).shown = st.shown
         /\ SendDataImpl(st, d).pending = Append(st.pending, d)
         /\ SendDataImpl(st, d).active = TRUE
         /\ SendDataImpl(st, d).timer = IF st.active THEN st.timer ELSE TRUE
<1> DEFINE timer == IF st.active THEN st.timer ELSE TRUE
           new   == [allMsgs |-> st.allMsgs, next |-> st.next, shown |-> st.shown,
                     pending |-> Append(st.pending, d), active |-> TRUE,
                     timer |-> timer]
<1>1. timer \in BOOLEAN /\ Append(st.pending, d) \in Seq(Packet)
  <2>1. st.timer \in BOOLEAN /\ st.pending \in Seq(Packet)
    BY StateFacts
  <2>2. timer \in BOOLEAN
    BY <2>1, Zenon
  <2> QED
    BY <2>1, <2>2, AppendFacts
<1>2. SendDataImpl(st, d) = [st EXCEPT !.pending = Append(@, d), !.active = TRUE,
                                       !.timer = timer]
  BY DEF SendDataImpl
<1> HIDE DEF timer
<1>3. SendDataImpl(st, d) = new
  BY <1>2 DEF State
<1>4. new \in State
  BY <1>1, StateFacts DEF State
<1> QED
  BY <1>3, <1>4 DEF timer

LEMMA SendDataImplKeeps ==
  ASSUME NEW st, NEW c \in Nat, NEW cc \in Nat, c <= cc, Sound(st, c),
         NEW d \in Packet, d.id <= cc, d.id # Own => c < d.id, Layered(d)
  PROVE  Sound(SendDataImpl(st, d), cc)
<1> DEFINE s    == st.allMsgs
           p    == st.pending
           q    == Append(p, d)
           new  == SendDataImpl(st, d)
<1>1. /\ st \in State /\ Kept(st, c) /\ Shows(st.shown, s, m_recvListMode)
      /\ Queued(p, c) /\ Earlier(s, p, 0) /\ Scheduled(st)
  BY DEF Sound, SoundIn
<1>2. /\ new \in State /\ new.allMsgs = s /\ new.next = st.next
      /\ new.shown = st.shown /\ new.pending = q /\ new.active = TRUE
      /\ new.timer = IF st.active THEN st.timer ELSE TRUE
  BY <1>1, SendDataImplIs
<1>3. s \in Seq(AnyEntry) /\ p \in Seq(Packet)
  BY <1>1, StateFacts
<1> HIDE DEF s, p, new
<1>4. /\ Len(q) = Len(p) + 1 /\ Len(p) \in Nat /\ q \in Seq(Packet)
      /\ \A i \in 1..Len(p) : q[i] = p[i]
      /\ q[Len(p) + 1] = d
  BY <1>3, AppendFacts, SeqFacts
<1> HIDE DEF q
<1>5. \A i \in 1..Len(q) : \/ i \in 1..Len(p) /\ q[i] = p[i]
                           \/ i = Len(p) + 1 /\ q[i] = d
  BY <1>4
<1>6. \A i \in 1..Len(p) : p[i].id \in Int
  <2>1. \A i \in 1..Len(p) : p[i] \in Packet
    BY <1>3, SeqFacts
  <2>2. Own \in Int /\ 1..MaxSent \subseteq Int
    BY BoundsAssumption DEF Own
  <2> QED
    BY <2>1, <2>2, PacketFacts
<1>7. \A i \in 1..Len(s) : s[i].id \in Nat /\ s[i].id <= c
  <2>1. \A i \in 1..Len(s) : s[i] \in AnyEntry
    BY <1>3, SeqFacts
  <2>2. \A i \in 1..Len(s) : s[i].id \in Nat
    BY <2>1, BoundsAssumption DEF AnyEntry, MessageId
  <2>3. \A i \in 1..Len(s) : s[i].id <= c
    BY <1>1 DEF Kept, Issued, s
  <2> QED
    BY <2>2, <2>3
<1>8. d.id \in Int
  <2>1. Own \in Int /\ 1..MaxSent \subseteq Int
    BY BoundsAssumption DEF Own
  <2> QED
    BY <2>1, PacketFacts
<1>9. Kept(new, cc)
  <2>1. Issued(s, cc)
    BY <1>7 DEF Issued
  <2> QED
    BY <1>1, <1>2, <2>1 DEF Kept, s
<1>10. Shows(new.shown, new.allMsgs, m_recvListMode)
  BY <1>1, <1>2
<1>11. OrderedData(p) /\ IssuedData(p, c) /\ \A j \in 1..Len(p) : Layered(p[j])
  BY <1>1 DEF Queued
<1>12. OrderedData(q)
  <2> SUFFICES ASSUME NEW i \in 1..Len(q), NEW j \in 1..Len(q),
                      i < j, q[i].id # Own, q[j].id # Own
               PROVE  q[i].id < q[j].id
    BY DEF OrderedData
  <2>1. i \in 1..Len(p) /\ q[i] = p[i]
    BY <1>4, <1>5
  <2>2. CASE j \in 1..Len(p) /\ q[j] = p[j]
    BY <1>11, <2>1, <2>2 DEF OrderedData
  <2>3. CASE q[j] = d
    <3>1. p[i].id <= c /\ c < d.id
      BY <1>11, <2>1, <2>3 DEF IssuedData
    <3> QED
      BY <1>6, <1>8, <2>1, <2>3, <3>1
  <2> QED
    BY <1>5, <2>2, <2>3
<1>13. IssuedData(q, cc)
  <2> SUFFICES ASSUME NEW j \in 1..Len(q) PROVE q[j].id <= cc
    BY DEF IssuedData
  <2>1. CASE j \in 1..Len(p) /\ q[j] = p[j]
    <3>1. p[j].id <= c
      BY <1>11, <2>1 DEF IssuedData
    <3> QED
      BY <1>6, <2>1, <3>1
  <2>2. CASE q[j] = d
    BY <2>2
  <2> QED
    BY <1>5, <2>1, <2>2
<1>14. \A j \in 1..Len(q) : Layered(q[j])
  BY <1>5, <1>11
<1>15. Earlier(s, q, 0)
  <2> SUFFICES ASSUME NEW i \in 1..Len(s), NEW j \in 1..Len(q),
                      s[i].type = "Received", s[i].id # Loaded, q[j].id # Own
               PROVE  s[i].id < q[j].id
    BY DEF Earlier
  <2>1. CASE j \in 1..Len(p) /\ q[j] = p[j]
    <3>1. j \in (0 + 1)..Len(p)
      BY <2>1
    <3> QED
      BY <1>1, <2>1, <3>1 DEF Earlier
  <2>2. CASE q[j] = d
    <3>1. c < d.id /\ s[i].id <= c /\ s[i].id \in Nat
      BY <1>7, <2>2
    <3> QED
      BY <1>8, <2>2, <3>1
  <2> QED
    BY <1>5, <2>1, <2>2
<1>16. Scheduled(new)
  BY <1>1, <1>2 DEF Scheduled
<1> QED
  BY <1>2, <1>9, <1>10, <1>12, <1>13, <1>14, <1>15, <1>16 DEF Sound, SoundIn, Queued, new

(* A message of the user, with the layers of all the filters.              *)
LEMMA OutgoingPacket ==
  ASSUME NEW id \in 1..MaxSent
  PROVE  LET d == SendChain([id |-> id, layers |-> <<>>])
         IN  d \in Packet /\ d.id = id /\ Layered(d)
<1> DEFINE d == SendChain([id |-> id, layers |-> <<>>])
<1>1. [id |-> id, layers |-> <<>>] \in Carrying(id)
  BY DEF Carrying
<1>2. d \in Carrying(id)
  BY <1>1, SendChainCarries
<1> HIDE DEF d
<1>3. d.id = id /\ d \in DataInfo
  BY <1>2 DEF Carrying, DataInfo
<1>4. id # Own
  BY BoundsAssumption DEF Own
<1> QED
  BY <1>3, <1>4 DEF Packet, Layered, d

-----------------------------------------------------------------------------
(* The loops of the manager and the socket.                                *)

LEMMA SoundLater ==
  ASSUME NEW st, NEW c \in Nat, NEW cc \in Nat, c <= cc, Sound(st, c)
  PROVE  Sound(st, cc)
<1>1. /\ st \in State /\ Issued(st.allMsgs, c) /\ IssuedData(st.pending, c)
  BY DEF Sound, SoundIn, Kept, Queued
<1>2. \A i \in 1..Len(st.allMsgs) : st.allMsgs[i].id \in Int
  <2>1. \A i \in 1..Len(st.allMsgs) : st.allMsgs[i] \in AnyEntry
    BY <1>1, StateFacts, SeqFacts
  <2> QED
    BY <2>1, BoundsAssumption DEF AnyEntry, MessageId
<1>3. \A i \in 1..Len(st.pending) : st.pending[i].id \in Int
  <2>1. \A i \in 1..Len(st.pending) : st.pending[i] \in Packet
    BY <1>1, StateFacts, SeqFacts
  <2>2. Own \in Int /\ 1..MaxSent \subseteq Int
    BY BoundsAssumption DEF Own
  <2> QED
    BY <2>1, <2>2, PacketFacts
<1>4. Issued(st.allMsgs, cc)
  BY <1>1, <1>2 DEF Issued
<1>5. IssuedData(st.pending, cc)
  BY <1>1, <1>3 DEF IssuedData
<1> QED
  BY <1>4, <1>5 DEF Sound, SoundIn, Kept, Queued

LEMMA SendMsgTyped ==
  ASSUME NEW st \in State, NEW id \in 1..MaxSent, NEW withheld
  PROVE  SendMsg(st, id, withheld) \in State
<1> DEFINE d  == SendChain([id |-> id, layers |-> <<>>])
           to == IF id \in withheld THEN st ELSE SendDataImpl(st, d)
<1>1. to \in State
  BY OutgoingPacket, SendDataImplIs
<1>2. id \in MessageId /\ "Sent" \in MsgType
  BY BoundsAssumption DEF MessageId, MsgType
<1> HIDE DEF to
<1>3. Add(to, "Sent", id) \in State
  BY <1>1, <1>2, AddIs
<1> QED
  BY <1>3 DEF SendMsg, to

LEMMA SendMsgKeeps ==
  ASSUME NEW st, NEW c \in Nat, Sound(st, c), c + 1 \in 1..MaxSent,
         NEW withheld
  PROVE  /\ Sound(SendMsg(st, c + 1, withheld), c + 1)
         /\ SendMsg(st, c + 1, withheld).next = st.next + 1
<1> DEFINE id  == c + 1
           d   == SendChain([id |-> id, layers |-> <<>>])
           to  == IF id \in withheld THEN st ELSE SendDataImpl(st, d)
           m   == NewEntry(to, "Sent", id)
           new == Add(to, "Sent", id)
<1>1. id \in Nat /\ c <= id /\ c < id /\ id <= id /\ id \in 1..MaxSent
  OBVIOUS
<1>2. st \in State /\ Issued(st.allMsgs, c)
  BY DEF Sound, SoundIn, Kept
<1> HIDE DEF id
<1>3. d \in Packet /\ d.id = id /\ Layered(d)
  BY <1>1, OutgoingPacket
<1> HIDE DEF d
<1>4. Sound(to, id) /\ to.next = st.next /\ to.allMsgs = st.allMsgs
  <2>1. CASE id \in withheld
    BY <1>1, <2>1, SoundLater
  <2>2. CASE id \notin withheld
    <3>1. Sound(SendDataImpl(st, d), id)
      BY <1>1, <1>3, SendDataImplKeeps
    <3> QED
      BY <1>2, <1>3, <2>2, <3>1, SendDataImplIs
  <2> QED
    BY <2>1, <2>2
<1> HIDE DEF to
<1>5. id \in MessageId /\ "Sent" \in MsgType
  BY <1>1, BoundsAssumption DEF MessageId, MsgType
<1>6. /\ to \in State /\ Kept(to, id) /\ Shows(to.shown, to.allMsgs, m_recvListMode)
      /\ Queued(to.pending, id) /\ Earlier(to.allMsgs, to.pending, 0)
      /\ Scheduled(to)
  BY <1>4 DEF Sound, SoundIn
<1>7. /\ m \in AnyEntry /\ new \in State /\ new.allMsgs = Append(to.allMsgs, m)
      /\ new.next = to.next + 1 /\ new.pending = to.pending
      /\ new.active = to.active /\ new.timer = to.timer
  BY <1>5, <1>6, AddIs
<1>8. m.id = id /\ m.type = "Sent"
  BY DEF NewEntry
<1>9. CanFollow(to.allMsgs, m)
  <2> SUFFICES ASSUME NEW i \in 1..Len(to.allMsgs) PROVE to.allMsgs[i].id # id
    BY <1>8 DEF CanFollow, Precedes
  <2>1. to.allMsgs[i].id <= c
    BY <1>2, <1>4 DEF Issued
  <2>2. to.allMsgs[i] \in AnyEntry
    BY <1>6, StateFacts, SeqFacts
  <2>3. to.allMsgs[i].id \in Nat
    BY <2>2, BoundsAssumption DEF AnyEntry, MessageId
  <2> QED
    BY <1>1, <2>1, <2>3
<1>10. Kept(new, id) /\ Shows(new.shown, new.allMsgs, m_recvListMode)
  BY <1>1, <1>5, <1>6, <1>9, AddKeeps
<1>11. Earlier(new.allMsgs, new.pending, 0)
  <2>1. to.allMsgs \in Seq(AnyEntry)
    BY <1>6, StateFacts
  <2> QED
    BY <1>6, <1>7, <1>8, <2>1, EarlierAppend
<1>12. Scheduled(new) /\ Queued(new.pending, id)
  BY <1>6, <1>7 DEF Scheduled
<1>13. SendMsg(st, id, withheld) = new
  BY DEF SendMsg, to, d
<1> HIDE DEF new
<1>14. Sound(new, id)
  BY <1>7, <1>10, <1>11, <1>12 DEF Sound, SoundIn
<1> QED
  BY <1>4, <1>7, <1>13, <1>14 DEF id

(* sendMsgs sends the messages one after the other.                        *)
Sendings(st, count, withheld) ==
    { c \in [0..count -> State] :
        /\ c[0] = st
        /\ \A i \in 1..count : c[i] = SendMsg(c[i - 1], created + i, withheld)
        /\ SendAll(st, count, withheld) = c[count] }

LEMMA SendAllLoop ==
  ASSUME NEW st \in State, NEW count \in Nat, NEW withheld,
         created \in Nat, created + count <= MaxSent
  PROVE  Sendings(st, count, withheld) # {}
<1> DEFINE n       == count
           S       == State
           F(x, i) == SendMsg(x, created + i, withheld)
           R(f)    == f = [i \in 0..n |-> IF i = 0 THEN st ELSE F(f[i - 1], i)]
           c       == CHOOSE f : R(f)
           step    == [p \in S \X (1..n) |-> F(p[1], p[2])]
<1>1. n \in Nat /\ st \in S
  OBVIOUS
<1>2. \A x \in S, i \in 1..n : F(x, i) \in S
  <2> SUFFICES ASSUME NEW x \in S, NEW i \in 1..n PROVE F(x, i) \in S
    BY Zenon
  <2>1. created + i \in 1..MaxSent
    BY BoundsAssumption
  <2> QED
    BY <2>1, SendMsgTyped
<1>3. SendAll(st, count, withheld) = c[n]
  BY Zenon DEF SendAll
<1> HIDE DEF F
<1>4. \A x \in S, i \in 1..n : step[<<x, i>>] = F(x, i)
  OBVIOUS
<1>5. step \in [S \X (1..n) -> S]
  BY <1>2
<1> HIDE DEF step, n, S
<1>6. PICK f : f \in Iterates(S, st, step, n)
  BY <1>1, <1>5, IteratesExist DEF n, S
<1>7. /\ f \in [0..n -> S]
      /\ f = [i \in 0..n |-> IF i = 0 THEN st ELSE step[<<f[i - 1], i>>]]
  BY <1>6 DEF Iterates
<1>8. ASSUME NEW i \in 0..n, i # 0
      PROVE  step[<<f[i - 1], i>>] = F(f[i - 1], i)
  <2>1. i \in 1..n /\ i - 1 \in 0..n
    BY <1>1, <1>8
  <2>2. f[i - 1] \in S
    BY <1>7, <2>1
  <2> QED
    BY <1>4, <2>1, <2>2
<1>9. R(f)
  BY <1>7, <1>8
<1>10. R(c)
  <2> HIDE DEF R
  <2> QED
    BY <1>9, Zenon
<1> HIDE DEF c
<1>11. c[0] = st /\ \A i \in 1..n : c[i] = F(c[i - 1], i)
  <2>1. 0 \in 0..n /\ \A i \in 1..n : i \in 0..n /\ i # 0
    BY <1>1
  <2> QED
    BY <1>10, <2>1
<1>12. \A i \in 0..n : c[i] \in S
  <2>1. \A i \in 1..n : c[i - 1] \in S => c[i] \in S
    BY <1>2, <1>11
  <2> QED
    BY <1>1, <1>11, <2>1, StaysInside
<1>13. c \in [0..n -> S]
  BY <1>10, <1>12
<1> QED
  BY <1>3, <1>11, <1>13 DEF F, n, S, Sendings

LEMMA SendAllKeeps ==
  ASSUME NEW st, NEW count \in Nat, NEW withheld,
         created \in Nat, created + count <= MaxSent, Sound(st, created)
  PROVE  /\ Sound(SendAll(st, count, withheld), created + count)
         /\ SendAll(st, count, withheld).next = st.next + count
<1>1. st \in State /\ st.next \in Nat
  BY StateFacts DEF Sound, SoundIn
<1>0. PICK a : a \in Sendings(st, count, withheld)
  BY <1>1, SendAllLoop
<1>2. /\ a \in [0..count -> State]
      /\ a[0] = st
      /\ \A i \in 1..count : a[i] = SendMsg(a[i - 1], created + i, withheld)
      /\ SendAll(st, count, withheld) = a[count]
  BY <1>0 DEF Sendings
<1> DEFINE Fine(k) == Sound(a[k], created + k) /\ a[k].next = st.next + k
           T == { k \in Nat : k <= count => Fine(k) }
<1>3. 0 \in T
  <2>1. created + 0 = created /\ st.next + 0 = st.next
    BY <1>1
  <2> QED
    BY <1>2, <2>1
<1>4. ASSUME NEW k \in Nat, k \in T PROVE k + 1 \in T
  <2> SUFFICES ASSUME k + 1 <= count PROVE Fine(k + 1)
    OBVIOUS
  <2> DEFINE c == created + k
  <2>1. /\ c \in Nat /\ c + 1 \in 1..MaxSent /\ k + 1 \in 1..count /\ k + 1 - 1 = k
        /\ created + (k + 1) = c + 1 /\ k <= count
    BY BoundsAssumption
  <2>2. Sound(a[k], c) /\ a[k].next = st.next + k
    BY <1>4, <2>1
  <2>3. a[k + 1] = SendMsg(a[k], c + 1, withheld)
    <3>1. a[k + 1] = SendMsg(a[k + 1 - 1], created + (k + 1), withheld)
      BY <1>2, <2>1
    <3> QED
      BY <2>1, <3>1
  <2> HIDE DEF c
  <2>4. /\ Sound(SendMsg(a[k], c + 1, withheld), c + 1)
        /\ SendMsg(a[k], c + 1, withheld).next = a[k].next + 1
    BY <2>1, <2>2, SendMsgKeeps
  <2>5. a[k + 1].next = st.next + (k + 1)
    BY <1>1, <2>2, <2>3, <2>4
  <2> QED
    BY <2>1, <2>3, <2>4, <2>5
<1> HIDE DEF T, Fine
<1>5. Nat \subseteq T
  BY <1>3, <1>4, SetInduction
<1>6. Fine(count)
  BY <1>5 DEF T
<1> QED
  BY <1>2, <1>6 DEF Fine

(* addMsgs adds the messages one after the other.                          *)
Loadings(st, types) ==
    { c \in [0..Len(types) -> State] :
        /\ c[0] = st
        /\ \A i \in 1..Len(types) : c[i] = Add(c[i - 1], types[i], Loaded)
        /\ AddAll(st, types) = c[Len(types)] }

LEMMA AddAllLoop ==
  ASSUME NEW st \in State, NEW types \in Seq(MsgType)
  PROVE  Loadings(st, types) # {}
<1> DEFINE n       == Len(types)
           S       == State
           F(x, i) == Add(x, types[i], Loaded)
           R(f)    == f = [i \in 0..n |-> IF i = 0 THEN st ELSE F(f[i - 1], i)]
           c       == CHOOSE f : R(f)
           step    == [p \in S \X (1..n) |-> F(p[1], p[2])]
<1>1. n \in Nat /\ st \in S
  BY SeqFacts
<1>2. \A x \in S, i \in 1..n : F(x, i) \in S
  <2>1. Loaded \in MessageId /\ \A i \in 1..n : types[i] \in MsgType
    BY BoundsAssumption, SeqFacts DEF Loaded, MessageId
  <2> QED
    BY <2>1, AddIs
<1>3. AddAll(st, types) = c[n]
  BY Zenon DEF AddAll
<1> HIDE DEF F
<1>4. \A x \in S, i \in 1..n : step[<<x, i>>] = F(x, i)
  OBVIOUS
<1>5. step \in [S \X (1..n) -> S]
  BY <1>2
<1> HIDE DEF step, n, S
<1>6. PICK f : f \in Iterates(S, st, step, n)
  BY <1>1, <1>5, IteratesExist DEF n, S
<1>7. /\ f \in [0..n -> S]
      /\ f = [i \in 0..n |-> IF i = 0 THEN st ELSE step[<<f[i - 1], i>>]]
  BY <1>6 DEF Iterates
<1>8. ASSUME NEW i \in 0..n, i # 0
      PROVE  step[<<f[i - 1], i>>] = F(f[i - 1], i)
  <2>1. i \in 1..n /\ i - 1 \in 0..n
    BY <1>1, <1>8
  <2>2. f[i - 1] \in S
    BY <1>7, <2>1
  <2> QED
    BY <1>4, <2>1, <2>2
<1>9. R(f)
  BY <1>7, <1>8
<1>10. R(c)
  <2> HIDE DEF R
  <2> QED
    BY <1>9, Zenon
<1> HIDE DEF c
<1>11. c[0] = st /\ \A i \in 1..n : c[i] = F(c[i - 1], i)
  <2>1. 0 \in 0..n /\ \A i \in 1..n : i \in 0..n /\ i # 0
    BY <1>1
  <2> QED
    BY <1>10, <2>1
<1>12. \A i \in 0..n : c[i] \in S
  <2>1. \A i \in 1..n : c[i - 1] \in S => c[i] \in S
    BY <1>2, <1>11
  <2> QED
    BY <1>1, <1>11, <2>1, StaysInside
<1>13. c \in [0..n -> S]
  BY <1>10, <1>12
<1> QED
  BY <1>3, <1>11, <1>13 DEF F, n, S, Loadings

LEMMA AddLoadedKeeps ==
  ASSUME NEW st, NEW c \in Nat, Sound(st, c), NEW type \in MsgType
  PROVE  /\ Sound(Add(st, type, Loaded), c)
         /\ Add(st, type, Loaded).next = st.next + 1
<1> DEFINE m   == NewEntry(st, type, Loaded)
           new == Add(st, type, Loaded)
<1>1. /\ st \in State /\ Kept(st, c) /\ Shows(st.shown, st.allMsgs, m_recvListMode)
      /\ Queued(st.pending, c) /\ Earlier(st.allMsgs, st.pending, 0)
      /\ Scheduled(st)
  BY DEF Sound, SoundIn
<1>2. Loaded \in MessageId /\ Loaded <= c
  BY BoundsAssumption DEF Loaded, MessageId
<1>3. /\ m \in AnyEntry /\ new \in State /\ new.allMsgs = Append(st.allMsgs, m)
      /\ new.next = st.next + 1 /\ new.pending = st.pending
      /\ new.active = st.active /\ new.timer = st.timer
  BY <1>1, <1>2, AddIs
<1>4. m.id = Loaded
  BY DEF NewEntry
<1>5. CanFollow(st.allMsgs, m)
  BY <1>4 DEF CanFollow, Precedes
<1>6. Kept(new, c) /\ Shows(new.shown, new.allMsgs, m_recvListMode)
  BY <1>1, <1>2, <1>5, AddKeeps
<1> HIDE DEF m, new
<1>7. Earlier(new.allMsgs, new.pending, 0)
  <2>1. st.allMsgs \in Seq(AnyEntry)
    BY <1>1, StateFacts
  <2> QED
    BY <1>1, <1>3, <1>4, <2>1, EarlierAppend
<1>8. Scheduled(new) /\ Queued(new.pending, c)
  BY <1>1, <1>3 DEF Scheduled
<1>9. Sound(new, c)
  BY <1>3, <1>6, <1>7, <1>8 DEF Sound, SoundIn
<1> QED
  BY <1>3, <1>9 DEF new

LEMMA AddAllKeeps ==
  ASSUME NEW st, NEW types \in Seq(MsgType), NEW c \in Nat, Sound(st, c)
  PROVE  /\ Sound(AddAll(st, types), c)
         /\ AddAll(st, types).next = st.next + Len(types)
<1> DEFINE n == Len(types)
<1>1. /\ st \in State /\ st.next \in Nat /\ n \in Nat
      /\ \A i \in 1..n : types[i] \in MsgType
  BY StateFacts, SeqFacts DEF Sound, SoundIn
<1>2. PICK a : a \in Loadings(st, types)
  BY <1>1, AddAllLoop
<1>3. /\ a[0] = st
      /\ \A i \in 1..n : a[i] = Add(a[i - 1], types[i], Loaded)
      /\ AddAll(st, types) = a[n]
  BY <1>2 DEF Loadings
<1> DEFINE Fine(k) == Sound(a[k], c) /\ a[k].next = st.next + k
           T == { k \in Nat : k <= n => Fine(k) }
<1> HIDE DEF n
<1>4. 0 \in T
  BY <1>1, <1>3
<1>5. ASSUME NEW k \in Nat, k \in T PROVE k + 1 \in T
  <2> SUFFICES ASSUME k + 1 <= n PROVE Fine(k + 1)
    OBVIOUS
  <2>1. k + 1 \in 1..n /\ k + 1 - 1 = k /\ k <= n
    BY <1>1
  <2>2. Sound(a[k], c) /\ a[k].next = st.next + k
    BY <1>5, <2>1
  <2>3. a[k + 1] = Add(a[k], types[k + 1], Loaded) /\ types[k + 1] \in MsgType
    BY <1>1, <1>3, <2>1
  <2>4. /\ Sound(Add(a[k], types[k + 1], Loaded), c)
        /\ Add(a[k], types[k + 1], Loaded).next = a[k].next + 1
    BY <2>2, <2>3, AddLoadedKeeps
  <2>5. a[k + 1].next = st.next + (k + 1)
    BY <1>1, <2>2, <2>3, <2>4
  <2> QED
    BY <2>3, <2>4, <2>5
<1> HIDE DEF T, Fine
<1>6. Nat \subseteq T
  BY <1>4, <1>5, SetInduction
<1>7. Fine(n)
  BY <1>1, <1>6 DEF T
<1> QED
  BY <1>3, <1>7 DEF Fine, n

LEMMA SocketDataReceivedTyped ==
  ASSUME NEW st \in State, NEW d \in Packet
  PROVE  SocketDataReceived(st, d) \in State
<1>1. CASE ~m_recvEnabled \/ RecvChain(d) = <<>>
  BY <1>1 DEF SocketDataReceived
<1>2. CASE m_recvEnabled /\ RecvChain(d) # <<>>
  <2>1. RecvChain(d)[1].id = d.id /\ d.id \in 1..MaxSent
    BY <1>2, ReceivedIsSent
  <2>2. d.id \in MessageId /\ "Received" \in MsgType
    BY <2>1, BoundsAssumption DEF MessageId, MsgType
  <2>3. SocketDataReceived(st, d) = Add(st, "Received", d.id)
    BY <1>2, <2>1 DEF SocketDataReceived
  <2> QED
    BY <2>2, <2>3, AddIs
<1> QED
  BY <1>1, <1>2

(* sendDataPostponed delivers the data piece by piece.                     *)
Deliveries(st, data) ==
    { c \in [0..Len(data) -> State] :
        /\ c[0] = st
        /\ \A i \in 1..Len(data) : c[i] = SocketDataReceived(c[i - 1], data[i])
        /\ DeliverAll(st, data) = c[Len(data)] }

LEMMA DeliverAllLoop ==
  ASSUME NEW st \in State, NEW data \in Seq(Packet)
  PROVE  Deliveries(st, data) # {}
<1> DEFINE n       == Len(data)
           S       == State
           F(x, i) == SocketDataReceived(x, data[i])
           R(f)    == f = [i \in 0..n |-> IF i = 0 THEN st ELSE F(f[i - 1], i)]
           c       == CHOOSE f : R(f)
           step    == [p \in S \X (1..n) |-> F(p[1], p[2])]
<1>1. n \in Nat /\ st \in S
  BY SeqFacts
<1>2. \A x \in S, i \in 1..n : F(x, i) \in S
  <2>1. \A i \in 1..n : data[i] \in Packet
    BY SeqFacts
  <2> QED
    BY <2>1, SocketDataReceivedTyped
<1>3. DeliverAll(st, data) = c[n]
  BY Zenon DEF DeliverAll
<1> HIDE DEF F
<1>4. \A x \in S, i \in 1..n : step[<<x, i>>] = F(x, i)
  OBVIOUS
<1>5. step \in [S \X (1..n) -> S]
  BY <1>2
<1> HIDE DEF step, n, S
<1>6. PICK f : f \in Iterates(S, st, step, n)
  BY <1>1, <1>5, IteratesExist DEF n, S
<1>7. /\ f \in [0..n -> S]
      /\ f = [i \in 0..n |-> IF i = 0 THEN st ELSE step[<<f[i - 1], i>>]]
  BY <1>6 DEF Iterates
<1>8. ASSUME NEW i \in 0..n, i # 0
      PROVE  step[<<f[i - 1], i>>] = F(f[i - 1], i)
  <2>1. i \in 1..n /\ i - 1 \in 0..n
    BY <1>1, <1>8
  <2>2. f[i - 1] \in S
    BY <1>7, <2>1
  <2> QED
    BY <1>4, <2>1, <2>2
<1>9. R(f)
  BY <1>7, <1>8
<1>10. R(c)
  <2> HIDE DEF R
  <2> QED
    BY <1>9, Zenon
<1> HIDE DEF c
<1>11. c[0] = st /\ \A i \in 1..n : c[i] = F(c[i - 1], i)
  <2>1. 0 \in 0..n /\ \A i \in 1..n : i \in 0..n /\ i # 0
    BY <1>1
  <2> QED
    BY <1>10, <2>1
<1>12. \A i \in 0..n : c[i] \in S
  <2>1. \A i \in 1..n : c[i - 1] \in S => c[i] \in S
    BY <1>2, <1>11
  <2> QED
    BY <1>1, <1>11, <2>1, StaysInside
<1>13. c \in [0..n -> S]
  BY <1>10, <1>12
<1> QED
  BY <1>3, <1>11, <1>13 DEF F, n, S, Deliveries

(* The state when the first k pieces of the data have been delivered.      *)
Delivered(st, c, data, k) ==
    /\ st \in State
    /\ Kept(st, c)
    /\ Shows(st.shown, st.allMsgs, m_recvListMode)
    /\ st.pending = <<>>
    /\ Earlier(st.allMsgs, data, k)
    /\ Scheduled(st)

LEMMA SocketDataReceivedKeeps ==
  ASSUME NEW st, NEW c \in Nat, NEW data \in Seq(Packet), NEW k \in Nat,
         k + 1 \in 1..Len(data), Queued(data, c), Delivered(st, c, data, k)
  PROVE  /\ Delivered(SocketDataReceived(st, data[k + 1]), c, data, k + 1)
         /\ SocketDataReceived(st, data[k + 1]).next \in {st.next, st.next + 1}
<1> DEFINE d   == data[k + 1]
           m   == NewEntry(st, "Received", d.id)
           new == Add(st, "Received", d.id)
<1>1. /\ st \in State /\ Kept(st, c) /\ Shows(st.shown, st.allMsgs, m_recvListMode)
      /\ st.pending = <<>> /\ Earlier(st.allMsgs, data, k) /\ Scheduled(st)
  BY DEF Delivered
<1>2. Len(data) \in Nat /\ d \in Packet
  BY SeqFacts
<1>3. Earlier(st.allMsgs, data, k + 1)
  BY <1>1, <1>2 DEF Earlier
<1>4. CASE ~m_recvEnabled \/ RecvChain(d) = <<>>
  <2>1. SocketDataReceived(st, d) = st
    BY <1>4 DEF SocketDataReceived
  <2>2. Delivered(st, c, data, k + 1)
    BY <1>1, <1>3 DEF Delivered
  <2> QED
    BY <2>1, <2>2
<1>5. CASE m_recvEnabled /\ RecvChain(d) # <<>>
  <2>1. RecvChain(d)[1].id = d.id /\ d.id \in 1..MaxSent /\ d.id # Own
    BY <1>2, <1>5, ReceivedIsSent
  <2>2. d.id \in MessageId /\ "Received" \in MsgType
    BY <2>1, BoundsAssumption DEF MessageId, MsgType
  <2>3. SocketDataReceived(st, d) = new
    BY <1>5, <2>1 DEF SocketDataReceived
  <2>4. d.id <= c
    BY DEF Queued, IssuedData
  <2>5. m.id = d.id /\ m.type = "Received"
    BY DEF NewEntry
  <2>6. CanFollow(st.allMsgs, m)
    <3> SUFFICES ASSUME NEW i \in 1..Len(st.allMsgs),
                        st.allMsgs[i].type = "Received", st.allMsgs[i].id # Loaded
                 PROVE  st.allMsgs[i].id < d.id
      BY <2>5 DEF CanFollow, Precedes
    <3>1. k + 1 \in (k + 1)..Len(data)
      BY <1>2
    <3> QED
      BY <1>1, <2>1, <3>1 DEF Earlier
  <2>7. Kept(new, c) /\ Shows(new.shown, new.allMsgs, m_recvListMode)
    BY <1>1, <2>2, <2>4, <2>6, AddKeeps
  <2>8. /\ m \in AnyEntry /\ new \in State /\ new.allMsgs = Append(st.allMsgs, m)
        /\ new.next = st.next + 1 /\ new.pending = st.pending
        /\ new.active = st.active /\ new.timer = st.timer
    BY <1>1, <2>2, AddIs
  <2>9. \A j \in (k + 1 + 1)..Len(data) : data[j].id # Own => m.id < data[j].id
    <3> SUFFICES ASSUME NEW j \in (k + 1 + 1)..Len(data), data[j].id # Own
                 PROVE  d.id < data[j].id
      BY <2>5
    <3>1. j \in 1..Len(data) /\ k + 1 < j
      BY <1>2
    <3> QED
      BY <2>1, <3>1 DEF Queued, OrderedData
  <2> HIDE DEF new, m
  <2>10. Earlier(new.allMsgs, data, k + 1)
    <3>1. st.allMsgs \in Seq(AnyEntry)
      BY <1>1, StateFacts
    <3>2. Earlier(Append(st.allMsgs, m), data, k + 1)
      BY <1>3, <2>8, <2>9, <3>1, EarlierAppend
    <3> QED
      BY <2>8, <3>2
  <2>11. Scheduled(new)
    BY <1>1, <2>8 DEF Scheduled
  <2>12. Delivered(new, c, data, k + 1)
    BY <1>1, <2>7, <2>8, <2>10, <2>11 DEF Delivered
  <2> QED
    BY <2>3, <2>8, <2>12
<1> QED
  BY <1>4, <1>5

LEMMA DeliverAllKeeps ==
  ASSUME NEW st, NEW c \in Nat, NEW data \in Seq(Packet),
         Queued(data, c), Delivered(st, c, data, 0)
  PROVE  /\ Sound(DeliverAll(st, data), c)
         /\ DeliverAll(st, data).next <= st.next + Len(data)
<1> DEFINE n == Len(data)
<1>1. st \in State /\ st.next \in Nat /\ n \in Nat
  BY StateFacts, SeqFacts DEF Delivered
<1>2. PICK a : a \in Deliveries(st, data)
  BY <1>1, DeliverAllLoop
<1>3. /\ a[0] = st
      /\ \A i \in 1..n : a[i] = SocketDataReceived(a[i - 1], data[i])
      /\ DeliverAll(st, data) = a[n]
  BY <1>2 DEF Deliveries
<1> DEFINE Fine(k) == Delivered(a[k], c, data, k) /\ a[k].next <= st.next + k
           T == { k \in Nat : k <= n => Fine(k) }
<1>4. 0 \in T
  BY <1>1, <1>3
<1>5. ASSUME NEW k \in Nat, k \in T PROVE k + 1 \in T
  <2> SUFFICES ASSUME k + 1 <= n PROVE Fine(k + 1)
    OBVIOUS
  <2>1. k + 1 \in 1..n /\ k + 1 - 1 = k /\ k <= n
    BY <1>1
  <2>2. Delivered(a[k], c, data, k) /\ a[k].next <= st.next + k
    BY <1>5, <2>1
  <2> DEFINE next == SocketDataReceived(a[k], data[k + 1])
  <2>3. a[k + 1] = next
    BY <1>3, <2>1
  <2>4. Delivered(next, c, data, k + 1) /\ next.next \in {a[k].next, a[k].next + 1}
    BY <2>1, <2>2, SocketDataReceivedKeeps
  <2> HIDE DEF next
  <2>5. a[k].next \in Nat
    BY <2>2, StateFacts DEF Delivered
  <2>6. a[k + 1].next <= st.next + (k + 1)
    BY <1>1, <2>2, <2>3, <2>4, <2>5
  <2> QED
    BY <2>3, <2>4, <2>6
<1> HIDE DEF T, Fine
<1>6. Nat \subseteq T
  BY <1>4, <1>5, SetInduction
<1>7. Fine(n)
  BY <1>1, <1>6 DEF T
<1>8. Delivered(a[n], c, data, n) /\ a[n].next <= st.next + n
  BY <1>7 DEF Fine
<1>9. Queued(<<>>, c) /\ Earlier(a[n].allMsgs, <<>>, 0)
  BY DEF Queued, OrderedData, IssuedData, Earlier
<1>10. Sound(a[n], c)
  BY <1>8, <1>9 DEF Delivered, Sound, SoundIn
<1> QED
  BY <1>3, <1>8, <1>10

-----------------------------------------------------------------------------
(* The invariant of the specification.                                     *)

IInv ==
    /\ m_running \in BOOLEAN
    /\ m_recvEnabled \in BOOLEAN
    /\ m_recvListMode \in SUBSET MsgType
    /\ created \in 0..MaxSent
    /\ own \in 0..MaxOwn
    /\ m_nextMsgNum <= MaxNum + 1
    /\ SoundIn(Now, created, m_recvListMode)

LEMMA BecomeIs ==
  ASSUME NEW st \in State, Become(st)
  PROVE  Now' = st
<1>1. /\ m_allMsgs' = st.allMsgs /\ m_nextMsgNum' = st.next /\ recvList' = st.shown
      /\ m_pendingData' = st.pending /\ m_timerActive' = st.active
      /\ m_timer' = st.timer
  BY Zenon DEF Become
<1>2. st = [allMsgs |-> st.allMsgs, next |-> st.next, shown |-> st.shown,
            pending |-> st.pending, active |-> st.active, timer |-> st.timer]
  BY DEF State
<1>3. Now' = [allMsgs |-> m_allMsgs', next |-> m_nextMsgNum', shown |-> recvList',
              pending |-> m_pendingData', active |-> m_timerActive',
              timer |-> m_timer']
  BY DEF Now
<1> QED
  BY <1>1, <1>2, <1>3

LEMMA IInvFacts ==
  ASSUME IInv
  PROVE  /\ Now \in State /\ created \in Nat /\ Sound(Now, created)
         /\ m_allMsgs \in Seq(AnyEntry) /\ recvList \in Seq(AnyEntry)
         /\ m_pendingData \in Seq(Packet) /\ m_nextMsgNum \in Nat \ {0}
         /\ m_timerActive \in BOOLEAN /\ m_timer \in BOOLEAN
         /\ Ascending(m_allMsgs) /\ Below(m_allMsgs, m_nextMsgNum)
         /\ Follow(m_allMsgs) /\ Issued(m_allMsgs, created)
         /\ Shows(recvList, m_allMsgs, m_recvListMode)
         /\ Queued(m_pendingData, created)
         /\ Earlier(m_allMsgs, m_pendingData, 0)
         /\ m_timerActive => m_timer
         /\ m_pendingData # <<>> => m_timer
<1>1. SoundIn(Now, created, m_recvListMode) /\ created \in Nat
  BY BoundsAssumption DEF IInv
<1>2. /\ Now.allMsgs = m_allMsgs /\ Now.next = m_nextMsgNum /\ Now.shown = recvList
      /\ Now.pending = m_pendingData /\ Now.active = m_timerActive
      /\ Now.timer = m_timer
  BY DEF Now
<1>3. /\ Now \in State /\ Kept(Now, created)
      /\ Shows(Now.shown, Now.allMsgs, m_recvListMode)
      /\ Queued(Now.pending, created) /\ Earlier(Now.allMsgs, Now.pending, 0)
      /\ Scheduled(Now)
  BY <1>1 DEF SoundIn
<1>4. /\ Now.allMsgs \in Seq(AnyEntry) /\ Now.next \in Nat \ {0}
      /\ Now.shown \in Seq(AnyEntry) /\ Now.pending \in Seq(Packet)
      /\ Now.active \in BOOLEAN /\ Now.timer \in BOOLEAN
  BY <1>3, StateFacts
<1> HIDE DEF Now
<1> QED
  BY <1>1, <1>2, <1>3, <1>4 DEF Sound, Kept, Scheduled

(* A step that leads to a sound state keeps the invariant.                 *)
LEMMA SoundStep ==
  ASSUME IInv, NEW st, NEW c \in 0..MaxSent, NEW mode \in SUBSET MsgType,
         SoundIn(st, c, mode), st.next <= MaxNum + 1,
         Now' = st, created' = c, m_recvListMode' = mode,
         m_running' \in BOOLEAN, m_recvEnabled' \in BOOLEAN, own' \in 0..MaxOwn
  PROVE  IInv'
<1>1. SoundIn(Now', created', m_recvListMode')
  OBVIOUS
<1>2. m_nextMsgNum' = st.next
  <2>1. Now'.next = m_nextMsgNum'
    BY DEF Now
  <2> QED
    BY <2>1
<1> QED
  BY <1>1, <1>2 DEF IInv

(* The lists when messages have been taken out, or others are to be shown. *)
LEMMA ThinnedSound ==
  ASSUME IInv, NEW all \in Seq(AnyEntry), NEW shown \in Seq(AnyEntry),
         NEW mode, Thinned(all, m_allMsgs), Shows(shown, all, mode)
  PROVE  LET st == [Now EXCEPT !.allMsgs = all, !.shown = shown]
         IN  SoundIn(st, created, mode) /\ st.next = m_nextMsgNum
<1> DEFINE st == [Now EXCEPT !.allMsgs = all, !.shown = shown]
<1>1. /\ Now \in State /\ created \in Nat
      /\ m_allMsgs \in Seq(AnyEntry)
      /\ Ascending(m_allMsgs) /\ Below(m_allMsgs, m_nextMsgNum)
      /\ Follow(m_allMsgs) /\ Issued(m_allMsgs, created)
      /\ Queued(m_pendingData, created)
      /\ Earlier(m_allMsgs, m_pendingData, 0)
      /\ m_timerActive => m_timer
      /\ m_pendingData # <<>> => m_timer
  BY IInvFacts
<1>2. /\ st \in State /\ st.allMsgs = all /\ st.next = m_nextMsgNum /\ st.shown = shown
      /\ st.pending = m_pendingData /\ st.active = m_timerActive
      /\ st.timer = m_timer
  BY <1>1 DEF Now, State
<1> HIDE DEF st
<1>3. /\ Ascending(all) /\ Follow(all) /\ Below(all, m_nextMsgNum)
      /\ Issued(all, created) /\ Earlier(all, m_pendingData, 0)
  BY <1>1, ThinnedKeeps
<1>4. Kept(st, created) /\ Scheduled(st)
  BY <1>1, <1>2, <1>3 DEF Kept, Scheduled
<1>5. SoundIn(st, created, mode)
  BY <1>1, <1>2, <1>3, <1>4 DEF SoundIn
<1> QED
  BY <1>2, <1>5 DEF st

LEMMA EmptyLists ==
  ASSUME NEW mode, NEW n, NEW c, NEW data, NEW k
  PROVE  /\ <<>> \in Seq(AnyEntry) /\ <<>> \in Seq(Packet)
         /\ Ascending(<<>>) /\ Below(<<>>, n) /\ Follow(<<>>) /\ Issued(<<>>, c)
         /\ Shows(<<>>, <<>>, mode) /\ Queued(<<>>, c) /\ Earlier(<<>>, data, k)
BY DEF Ascending, Below, Follow, Issued, Shows, Selects, In, Queued, OrderedData,
       IssuedData, Earlier

LEMMA NoDataEarlier ==
  ASSUME NEW msgs
  PROVE  Earlier(msgs, <<>>, 0)
BY DEF Earlier

LEMMA InitKeeps == Init => IInv
<1> SUFFICES ASSUME Init PROVE IInv
  OBVIOUS
<1>1. /\ m_running = FALSE /\ m_recvEnabled = TRUE /\ m_allMsgs = <<>>
      /\ m_nextMsgNum = 1 /\ m_recvListMode = MsgType /\ recvList = <<>>
      /\ m_pendingData = <<>> /\ m_timerActive = FALSE /\ m_timer = FALSE
      /\ created = 0 /\ own = 0
  BY Zenon DEF Init
<1>2. Now = [allMsgs |-> <<>>, next |-> 1, shown |-> <<>>, pending |-> <<>>,
             active |-> FALSE, timer |-> FALSE]
  BY <1>1 DEF Now
<1>3. Now \in State
  BY <1>2, EmptyLists DEF State
<1>4. Kept(Now, 0) /\ Shows(Now.shown, Now.allMsgs, m_recvListMode)
  BY <1>2, EmptyLists DEF Kept
<1>5. Queued(Now.pending, 0) /\ Earlier(Now.allMsgs, Now.pending, 0) /\ Scheduled(Now)
  BY <1>2, EmptyLists DEF Scheduled
<1>6. SoundIn(Now, created, m_recvListMode)
  BY <1>1, <1>3, <1>4, <1>5 DEF SoundIn
<1>7. MaxNum \in Nat /\ MaxSent \in Nat /\ MaxOwn \in Nat
  BY BoundsAssumption
<1>8. created \in 0..MaxSent /\ own \in 0..MaxOwn /\ m_nextMsgNum <= MaxNum + 1
  BY <1>1, <1>7
<1> QED
  BY <1>1, <1>6, <1>8 DEF IInv

-----------------------------------------------------------------------------
(* Every action keeps the invariant.                                       *)

LEMMA SendMsgsKeeps == IInv /\ SendMsgs => IInv'
<1> SUFFICES ASSUME IInv, SendMsgs PROVE IInv'
  OBVIOUS
<1>0. PICK n \in 1..MaxBatch :
        \E withheld \in SUBSET ((created + 1)..(created + n)) :
            /\ created + n <= MaxSent
            /\ m_nextMsgNum + n <= MaxNum + 1
            /\ Become(SendAll(Now, n, withheld))
            /\ created' = created + n
  BY Zenon DEF SendMsgs
<1>1. PICK withheld \in SUBSET ((created + 1)..(created + n)) :
        /\ created + n <= MaxSent
        /\ m_nextMsgNum + n <= MaxNum + 1
        /\ Become(SendAll(Now, n, withheld))
        /\ created' = created + n
  BY <1>0
<1>2. /\ m_running' = m_running /\ m_recvEnabled' = m_recvEnabled
      /\ m_recvListMode' = m_recvListMode /\ own' = own
  BY Zenon DEF SendMsgs
<1>3. Sound(Now, created) /\ created \in Nat /\ m_nextMsgNum \in Nat
  BY IInvFacts
<1>4. n \in Nat /\ created + n \in 0..MaxSent
  BY <1>1, <1>3, BoundsAssumption
<1> DEFINE st == SendAll(Now, n, withheld)
<1>5. Sound(st, created + n) /\ st.next = Now.next + n
  BY <1>1, <1>3, <1>4, SendAllKeeps
<1>6. Become(st)
  BY <1>1
<1> HIDE DEF st
<1>7. Now.next = m_nextMsgNum
  BY DEF Now
<1>8. SoundIn(st, created + n, m_recvListMode) /\ st \in State
  BY <1>5 DEF Sound, SoundIn
<1>9. Now' = st
  BY <1>6, <1>8, BecomeIs
<1>10. st.next <= MaxNum + 1
  BY <1>1, <1>5, <1>7
<1>11. /\ m_running \in BOOLEAN /\ m_recvEnabled \in BOOLEAN
       /\ m_recvListMode \in SUBSET MsgType /\ own \in 0..MaxOwn
  BY DEF IInv
<1>12. /\ m_running' \in BOOLEAN /\ m_recvEnabled' \in BOOLEAN /\ own' \in 0..MaxOwn
  BY <1>2, <1>11
<1> QED
  BY <1>1, <1>2, <1>4, <1>8, <1>9, <1>10, <1>11, <1>12, SoundStep

LEMMA OwnPacket ==
  ASSUME NEW f \in Filters
  PROVE  LET d == FilterSend(f, [id |-> Own, layers |-> <<>>])
         IN  d \in Packet /\ d.id = Own /\ Layered(d)
<1> DEFINE d == FilterSend(f, [id |-> Own, layers |-> <<>>])
<1>1. <<f>> \o <<>> = <<f>> /\ <<f>> \in Seq(Filters)
  OBVIOUS
<1>2. d = [id |-> Own, layers |-> <<f>>]
  BY <1>1 DEF FilterSend
<1> HIDE DEF d
<1>3. d.id = Own /\ d.layers = <<f>>
  BY <1>2
<1>4. d \in DataInfo
  BY <1>1, <1>2 DEF DataInfo
<1> QED
  BY <1>3, <1>4 DEF Packet, Layered, d

LEMMA DataToSendKeeps == IInv /\ DataToSend => IInv'
<1> SUFFICES ASSUME IInv, DataToSend PROVE IInv'
  OBVIOUS
<1>1. PICK f \in Filters :
        Become(SendDataImpl(Now, FilterSend(f, [id |-> Own, layers |-> <<>>])))
  BY Zenon DEF DataToSend
<1>2. /\ m_running' = m_running /\ m_recvEnabled' = m_recvEnabled
      /\ m_recvListMode' = m_recvListMode /\ own' = own + 1
      /\ created' = created /\ own < MaxOwn
  BY Zenon DEF DataToSend
<1> DEFINE d  == FilterSend(f, [id |-> Own, layers |-> <<>>])
           st == SendDataImpl(Now, d)
<1>3. Sound(Now, created) /\ created \in Nat /\ m_nextMsgNum \in Nat /\ Now \in State
  BY IInvFacts
<1>4. d \in Packet /\ d.id = Own /\ Layered(d)
  BY OwnPacket
<1>5. Become(st)
  BY <1>1
<1> HIDE DEF d
<1>6. d.id <= created /\ (d.id # Own => created < d.id) /\ created <= created
  BY <1>3, <1>4 DEF Own
<1>7. Sound(st, created)
  BY <1>3, <1>4, <1>6, SendDataImplKeeps
<1>8. st \in State /\ st.next = Now.next
  BY <1>3, <1>4, SendDataImplIs
<1> HIDE DEF st
<1>9. Now' = st
  BY <1>5, <1>8, BecomeIs
<1>10. Now.next = m_nextMsgNum
  BY DEF Now
<1>11. /\ m_running \in BOOLEAN /\ m_recvEnabled \in BOOLEAN
       /\ m_recvListMode \in SUBSET MsgType /\ own \in 0..MaxOwn
       /\ created \in 0..MaxSent /\ m_nextMsgNum <= MaxNum + 1
  BY DEF IInv
<1>12. st.next <= MaxNum + 1 /\ SoundIn(st, created, m_recvListMode)
  BY <1>7, <1>8, <1>10, <1>11 DEF Sound
<1>13. own' \in 0..MaxOwn
  BY <1>2, <1>11, BoundsAssumption
<1>14. m_running' \in BOOLEAN /\ m_recvEnabled' \in BOOLEAN
  BY <1>2, <1>11
<1> QED
  BY <1>2, <1>9, <1>11, <1>12, <1>13, <1>14, SoundStep

LEMMA SendDataPostponedKeeps == IInv /\ SendDataPostponed => IInv'
<1> SUFFICES ASSUME IInv, SendDataPostponed PROVE IInv'
  OBVIOUS
<1> DEFINE from == [Now EXCEPT !.timer = FALSE, !.active = FALSE, !.pending = <<>>]
           st   == DeliverAll(from, m_pendingData)
<1>1. /\ m_nextMsgNum + Len(m_pendingData) <= MaxNum + 1 /\ Become(st)
      /\ m_running' = m_running /\ m_recvEnabled' = m_recvEnabled
      /\ m_recvListMode' = m_recvListMode /\ own' = own /\ created' = created
  BY Zenon DEF SendDataPostponed
<1>2. /\ Now \in State /\ created \in Nat
      /\ m_allMsgs \in Seq(AnyEntry) /\ recvList \in Seq(AnyEntry)
      /\ m_pendingData \in Seq(Packet) /\ m_nextMsgNum \in Nat
      /\ Ascending(m_allMsgs) /\ Below(m_allMsgs, m_nextMsgNum)
      /\ Follow(m_allMsgs) /\ Issued(m_allMsgs, created)
      /\ Shows(recvList, m_allMsgs, m_recvListMode)
      /\ Queued(m_pendingData, created)
      /\ Earlier(m_allMsgs, m_pendingData, 0)
  BY IInvFacts
<1>3. <<>> \in Seq(Packet)
  BY EmptyLists
<1>4. /\ from \in State /\ from.allMsgs = m_allMsgs /\ from.next = m_nextMsgNum
      /\ from.shown = recvList /\ from.pending = <<>>
      /\ from.active = FALSE /\ from.timer = FALSE
  BY <1>2, <1>3 DEF Now, State
<1> HIDE DEF from
<1>5. Kept(from, created) /\ Scheduled(from)
  BY <1>2, <1>4 DEF Kept, Scheduled
<1>6. Delivered(from, created, m_pendingData, 0)
  BY <1>2, <1>4, <1>5 DEF Delivered
<1>7. Sound(st, created) /\ st.next <= from.next + Len(m_pendingData)
  BY <1>2, <1>6, DeliverAllKeeps
<1> HIDE DEF st
<1>8. SoundIn(st, created, m_recvListMode) /\ st \in State
  BY <1>7 DEF Sound, SoundIn
<1>9. Now' = st
  BY <1>1, <1>8, BecomeIs
<1>10. st.next <= MaxNum + 1
  <2>1. st.next \in Nat /\ Len(m_pendingData) \in Nat
    BY <1>2, <1>8, StateFacts, SeqFacts
  <2> QED
    BY <1>1, <1>2, <1>4, <1>7, <2>1, BoundsAssumption
<1>11. /\ m_running \in BOOLEAN /\ m_recvEnabled \in BOOLEAN
       /\ m_recvListMode \in SUBSET MsgType /\ own \in 0..MaxOwn
       /\ created \in 0..MaxSent
  BY DEF IInv
<1>12. m_running' \in BOOLEAN /\ m_recvEnabled' \in BOOLEAN /\ own' \in 0..MaxOwn
  BY <1>1, <1>11
<1> QED
  BY <1>1, <1>8, <1>9, <1>10, <1>11, <1>12, SoundStep

(* A step that changes neither the lists nor the socket.                   *)
LEMMA SetRecvEnabledKeeps == IInv /\ SetRecvEnabled => IInv'
<1> SUFFICES ASSUME IInv, SetRecvEnabled PROVE IInv'
  OBVIOUS
<1>1. /\ m_recvEnabled' = ~m_recvEnabled /\ m_running' = m_running
      /\ m_allMsgs' = m_allMsgs /\ m_nextMsgNum' = m_nextMsgNum
      /\ m_recvListMode' = m_recvListMode /\ recvList' = recvList
      /\ m_pendingData' = m_pendingData /\ m_timerActive' = m_timerActive
      /\ m_timer' = m_timer /\ created' = created /\ own' = own
  BY Zenon DEF SetRecvEnabled
<1>2. Now' = Now
  BY <1>1 DEF Now
<1>3. SoundIn(Now, created, m_recvListMode)
  BY DEF IInv
<1>4. SoundIn(Now', created', m_recvListMode')
  BY <1>1, <1>2, <1>3
<1>5. m_recvEnabled' \in BOOLEAN
  BY <1>1
<1> QED
  BY <1>1, <1>4, <1>5 DEF IInv

LEMMA OtherLists ==
  ASSUME NEW st \in State, NEW all, NEW shown
  PROVE  [st EXCEPT !.allMsgs = all, !.shown = shown] =
             [allMsgs |-> all, next |-> st.next, shown |-> shown,
              pending |-> st.pending, active |-> st.active, timer |-> st.timer]
<1>1. PICK x : x = [st EXCEPT !.allMsgs = all, !.shown = shown]
  OBVIOUS
<1>2. x = [allMsgs |-> all, next |-> st.next, shown |-> shown,
           pending |-> st.pending, active |-> st.active, timer |-> st.timer]
  BY <1>1 DEF State
<1> QED
  BY <1>1, <1>2

(* A step that takes messages out or shows others, and nothing else.       *)
LEMMA ListStep ==
  ASSUME IInv, NEW all \in Seq(AnyEntry), NEW shown \in Seq(AnyEntry),
         NEW mode \in SUBSET MsgType,
         Thinned(all, m_allMsgs), Shows(shown, all, mode),
         m_allMsgs' = all, recvList' = shown, m_recvListMode' = mode,
         m_running' = m_running, m_recvEnabled' = m_recvEnabled,
         m_nextMsgNum' = m_nextMsgNum, m_pendingData' = m_pendingData,
         m_timerActive' = m_timerActive, m_timer' = m_timer,
         created' = created, own' = own
  PROVE  IInv'
<1>1. SoundIn([Now EXCEPT !.allMsgs = all, !.shown = shown], created, mode)
  BY ThinnedSound
<1>2. Now \in State
  BY IInvFacts
<1>3. /\ Now.next = m_nextMsgNum /\ Now.pending = m_pendingData
      /\ Now.active = m_timerActive /\ Now.timer = m_timer
  BY DEF Now
<1>4. Now' = [allMsgs |-> m_allMsgs', next |-> m_nextMsgNum', shown |-> recvList',
              pending |-> m_pendingData', active |-> m_timerActive',
              timer |-> m_timer']
  BY DEF Now
<1> DEFINE st == [Now EXCEPT !.allMsgs = all, !.shown = shown]
<1>5. st = [allMsgs |-> all, next |-> m_nextMsgNum, shown |-> shown,
            pending |-> m_pendingData, active |-> m_timerActive, timer |-> m_timer]
  <2>1. st = [allMsgs |-> all, next |-> Now.next, shown |-> shown,
              pending |-> Now.pending, active |-> Now.active, timer |-> Now.timer]
    BY <1>2, OtherLists
  <2> HIDE DEF st
  <2> QED
    BY <1>3, <2>1, Zenon
<1>6. Now' = st
  BY <1>4, <1>5
<1>7. st.next = m_nextMsgNum
  BY <1>5
<1>8. SoundIn(st, created, mode)
  BY <1>1
<1> HIDE DEF st
<1>9. /\ m_running' \in BOOLEAN /\ m_recvEnabled' \in BOOLEAN
      /\ own' \in 0..MaxOwn /\ created \in 0..MaxSent
      /\ m_nextMsgNum <= MaxNum + 1
  BY DEF IInv
<1> QED
  BY <1>6, <1>7, <1>8, <1>9, SoundStep

LEMMA UpdateRecvListModeKeeps == IInv /\ UpdateRecvListMode => IInv'
<1> SUFFICES ASSUME IInv, UpdateRecvListMode PROVE IInv'
  OBVIOUS
<1> DEFINE mode  == m_recvListMode'
           shown == Listed(m_allMsgs, mode)
<1>1. /\ recvList' = shown /\ m_running' = m_running
      /\ m_recvEnabled' = m_recvEnabled /\ m_allMsgs' = m_allMsgs
      /\ m_nextMsgNum' = m_nextMsgNum /\ m_pendingData' = m_pendingData
      /\ m_timerActive' = m_timerActive /\ m_timer' = m_timer
      /\ created' = created /\ own' = own
  BY Zenon DEF UpdateRecvListMode
<1>2. PICK type \in MsgType :
        m_recvListMode' = IF type \in m_recvListMode
                          THEN m_recvListMode \ {type}
                          ELSE m_recvListMode \cup {type}
  BY Zenon DEF UpdateRecvListMode
<1>3. mode \in SUBSET MsgType
  BY <1>2 DEF IInv
<1>4. m_allMsgs \in Seq(AnyEntry) /\ Ascending(m_allMsgs)
  BY IInvFacts
<1>5. shown \in Seq(AnyEntry) /\ Shows(shown, m_allMsgs, mode)
  BY <1>4, ListedShows
<1>6. Thinned(m_allMsgs, m_allMsgs)
  BY <1>4, ThinnedSelf
<1> HIDE DEF shown
<1> QED
  BY <1>1, <1>3, <1>4, <1>5, <1>6, ListStep

LEMMA RecvDeleteKeeps == IInv /\ RecvDelete => IInv'
<1> SUFFICES ASSUME IInv, RecvDelete PROVE IInv'
  OBVIOUS
<1>1. /\ m_running' = m_running
      /\ m_recvEnabled' = m_recvEnabled /\ m_recvListMode' = m_recvListMode
      /\ m_nextMsgNum' = m_nextMsgNum /\ m_pendingData' = m_pendingData
      /\ m_timerActive' = m_timerActive /\ m_timer' = m_timer
      /\ created' = created /\ own' = own
  BY Zenon DEF RecvDelete
<1>2. PICK i \in DOMAIN recvList :
        /\ m_allMsgs' = DeleteMsg(m_allMsgs, recvList[i])
        /\ recvList' = RemoveAt(recvList, i)
  BY Zenon DEF RecvDelete
<1>3. /\ m_allMsgs \in Seq(AnyEntry) /\ recvList \in Seq(AnyEntry)
      /\ Ascending(m_allMsgs) /\ Shows(recvList, m_allMsgs, m_recvListMode)
      /\ m_recvListMode \in SUBSET MsgType
  BY IInvFacts DEF IInv
<1>4. i \in 1..Len(recvList) /\ recvList[i] \in AnyEntry
  BY <1>3, SeqFacts
<1> DEFINE m     == recvList[i]
           all   == DeleteMsg(m_allMsgs, m)
           shown == RemoveAt(recvList, i)
<1>5. In(m, recvList)
  BY <1>4 DEF In
<1>6. In(m, m_allMsgs)
  BY <1>3, <1>4, <1>5 DEF Shows, Selects
<1>7. /\ all \in Seq(AnyEntry) /\ Thinned(all, m_allMsgs)
      /\ \A o : In(o, all) <=> In(o, m_allMsgs) /\ o # m
  BY <1>3, <1>4, <1>6, DeletesTheMessage
<1>8. Ascending(recvList)
  BY <1>3 DEF Shows
<1>9. /\ shown \in Seq(AnyEntry) /\ Thinned(shown, recvList)
      /\ \A o : In(o, shown) <=> In(o, recvList) /\ o # m
  BY <1>3, <1>4, <1>8, RemoveAtThins
<1>10. m_allMsgs' = all /\ recvList' = shown
  BY <1>2
<1> HIDE DEF m, all, shown
<1>11. Ascending(shown)
  BY <1>3, <1>8, <1>9, ThinnedKeeps
<1>12. Shows(shown, all, m_recvListMode)
  BY <1>3, <1>7, <1>9, <1>11 DEF Shows, Selects
<1> QED
  BY <1>1, <1>3, <1>7, <1>9, <1>10, <1>12, ListStep

LEMMA RecvClearKeeps == IInv /\ RecvClear => IInv'
<1> SUFFICES ASSUME IInv, RecvClear PROVE IInv'
  OBVIOUS
<1> DEFINE all == DeleteAll(m_allMsgs, recvList)
<1>1. /\ m_running' = m_running
      /\ m_recvEnabled' = m_recvEnabled /\ m_recvListMode' = m_recvListMode
      /\ m_nextMsgNum' = m_nextMsgNum /\ m_pendingData' = m_pendingData
      /\ m_timerActive' = m_timerActive /\ m_timer' = m_timer
      /\ created' = created /\ own' = own
      /\ m_allMsgs' = all /\ recvList' = <<>>
  BY Zenon DEF RecvClear
<1>2. /\ m_allMsgs \in Seq(AnyEntry) /\ recvList \in Seq(AnyEntry)
      /\ Ascending(m_allMsgs) /\ Shows(recvList, m_allMsgs, m_recvListMode)
      /\ m_recvListMode \in SUBSET MsgType
  BY IInvFacts DEF IInv
<1>3. ASSUME NEW i \in 1..Len(recvList) PROVE In(recvList[i], m_allMsgs)
  <2>1. recvList[i] \in AnyEntry
    BY <1>2, SeqFacts
  <2>2. In(recvList[i], recvList)
    BY DEF In
  <2> QED
    BY <1>2, <2>1, <2>2 DEF Shows, Selects
<1>4. Ascending(recvList)
  BY <1>2 DEF Shows
<1>5. /\ all \in Seq(AnyEntry) /\ Thinned(all, m_allMsgs)
      /\ \A o : In(o, all) <=> In(o, m_allMsgs) /\ ~ In(o, recvList)
  BY <1>2, <1>3, <1>4, DeleteAllDeletes
<1> HIDE DEF all
<1>6. <<>> \in Seq(AnyEntry) /\ Ascending(<<>>)
  BY EmptyLists
<1>7. ASSUME NEW m \in AnyEntry
      PROVE  In(m, <<>>) <=> In(m, all) /\ m.type \in m_recvListMode
  <2>1. ~ In(m, <<>>)
    BY DEF In
  <2>2. In(m, all) => In(m, m_allMsgs) /\ ~ In(m, recvList)
    BY <1>5
  <2>3. In(m, recvList) <=> In(m, m_allMsgs) /\ m.type \in m_recvListMode
    BY <1>2 DEF Shows, Selects
  <2> QED
    BY <2>1, <2>2, <2>3
<1>8. Shows(<<>>, all, m_recvListMode)
  BY <1>6, <1>7 DEF Shows, Selects
<1> QED
  BY <1>1, <1>2, <1>5, <1>6, <1>8, ListStep

LEMMA RecvLoadKeeps == IInv /\ RecvLoad => IInv'
<1> SUFFICES ASSUME IInv, RecvLoad PROVE IInv'
  OBVIOUS
<1> DEFINE from == [Now EXCEPT !.allMsgs = <<>>, !.shown = <<>>]
<1>1. PICK n \in 1..MaxBatch :
        \E types \in [1..n -> MsgType] :
            /\ m_nextMsgNum + n <= MaxNum + 1
            /\ Become(AddAll(from, types))
  BY Zenon DEF RecvLoad
<1>2. PICK types \in [1..n -> MsgType] :
        /\ m_nextMsgNum + n <= MaxNum + 1
        /\ Become(AddAll(from, types))
  BY <1>1
<1>3. /\ m_running' = m_running /\ m_recvEnabled' = m_recvEnabled
      /\ m_recvListMode' = m_recvListMode /\ own' = own /\ created' = created
  BY Zenon DEF RecvLoad
<1>4. n \in Nat
  BY BoundsAssumption
<1>5. types \in Seq(MsgType) /\ Len(types) = n
  BY <1>4, FunctionIsSequence
<1>6. Thinned(<<>>, m_allMsgs)
  <2>1. [i \in 1..0 |-> i] \in Places(<<>>, m_allMsgs)
    BY DEF Places
  <2> QED
    BY <2>1 DEF Thinned
<1>7. <<>> \in Seq(AnyEntry) /\ Shows(<<>>, <<>>, m_recvListMode)
  BY EmptyLists
<1>8. SoundIn(from, created, m_recvListMode) /\ from.next = m_nextMsgNum
  BY <1>6, <1>7, ThinnedSound
<1> HIDE DEF from
<1>9. Sound(from, created) /\ created \in Nat
  BY <1>8, IInvFacts DEF Sound
<1> DEFINE st == AddAll(from, types)
<1>10. Sound(st, created) /\ st.next = from.next + Len(types)
  BY <1>5, <1>9, AddAllKeeps
<1>11. Become(st)
  BY <1>2
<1> HIDE DEF st
<1>12. SoundIn(st, created, m_recvListMode) /\ st \in State
  BY <1>10 DEF Sound, SoundIn
<1>13. Now' = st
  BY <1>11, <1>12, BecomeIs
<1>14. st.next <= MaxNum + 1
  BY <1>2, <1>5, <1>8, <1>10
<1>15. /\ m_running \in BOOLEAN /\ m_recvEnabled \in BOOLEAN
       /\ m_recvListMode \in SUBSET MsgType /\ own \in 0..MaxOwn
       /\ created \in 0..MaxSent
  BY DEF IInv
<1>16. m_running' \in BOOLEAN /\ m_recvEnabled' \in BOOLEAN /\ own' \in 0..MaxOwn
  BY <1>3, <1>15
<1> QED
  BY <1>3, <1>12, <1>13, <1>14, <1>15, <1>16, SoundStep

LEMMA ApplyNewPluginsKeeps == IInv /\ ApplyNewPlugins => IInv'
<1> SUFFICES ASSUME IInv, ApplyNewPlugins PROVE IInv'
  OBVIOUS
<1>1. /\ m_running' = TRUE /\ m_pendingData' = <<>> /\ m_timerActive' = FALSE
      /\ m_timer' = FALSE /\ m_recvEnabled' = m_recvEnabled
      /\ m_nextMsgNum' = m_nextMsgNum /\ m_recvListMode' = m_recvListMode
      /\ created' = created /\ own' = own
  BY Zenon DEF ApplyNewPlugins
<1>2. \/ m_allMsgs' = m_allMsgs /\ recvList' = recvList
      \/ m_allMsgs' = <<>> /\ recvList' = <<>>
  BY Zenon DEF ApplyNewPlugins
<1>3. /\ Now \in State /\ created \in Nat
      /\ m_allMsgs \in Seq(AnyEntry) /\ recvList \in Seq(AnyEntry)
      /\ m_nextMsgNum \in Nat \ {0}
      /\ Ascending(m_allMsgs) /\ Below(m_allMsgs, m_nextMsgNum)
      /\ Follow(m_allMsgs) /\ Issued(m_allMsgs, created)
      /\ Shows(recvList, m_allMsgs, m_recvListMode)
  BY IInvFacts
<1> DEFINE st == Now'
<1>4. /\ st = [allMsgs |-> m_allMsgs', next |-> m_nextMsgNum, shown |-> recvList',
               pending |-> <<>>, active |-> FALSE, timer |-> FALSE]
  BY <1>1 DEF Now
<1>5. /\ m_allMsgs' \in Seq(AnyEntry) /\ recvList' \in Seq(AnyEntry)
      /\ Ascending(m_allMsgs') /\ Below(m_allMsgs', m_nextMsgNum)
      /\ Follow(m_allMsgs') /\ Issued(m_allMsgs', created)
      /\ Shows(recvList', m_allMsgs', m_recvListMode)
  <2>1. CASE m_allMsgs' = m_allMsgs /\ recvList' = recvList
    BY <1>3, <2>1
  <2>2. CASE m_allMsgs' = <<>> /\ recvList' = <<>>
    BY <2>2, EmptyLists
  <2> QED
    BY <1>2, <2>1, <2>2
<1>6. /\ st.allMsgs = m_allMsgs' /\ st.next = m_nextMsgNum /\ st.shown = recvList'
      /\ st.pending = <<>> /\ st.active = FALSE /\ st.timer = FALSE
  BY <1>4
<1>7. <<>> \in Seq(Packet) /\ Queued(<<>>, created) /\ Earlier(m_allMsgs', <<>>, 0)
  BY EmptyLists, NoDataEarlier
<1>8. st \in State
  BY <1>3, <1>4, <1>5, <1>7 DEF State
<1> HIDE DEF st
<1>9. Kept(st, created) /\ Scheduled(st)
  BY <1>5, <1>6 DEF Kept, Scheduled
<1>10. SoundIn(st, created, m_recvListMode)
  BY <1>5, <1>6, <1>7, <1>8, <1>9 DEF SoundIn
<1>11. /\ m_recvEnabled \in BOOLEAN /\ m_recvListMode \in SUBSET MsgType
       /\ own \in 0..MaxOwn /\ created \in 0..MaxSent
       /\ m_nextMsgNum <= MaxNum + 1
  BY DEF IInv
<1>12. st = Now'
  BY DEF st
<1>13. m_running' \in BOOLEAN /\ m_recvEnabled' \in BOOLEAN /\ own' \in 0..MaxOwn
  BY <1>1, <1>11
<1>14. st.next <= MaxNum + 1
  BY <1>6, <1>11
<1> QED
  BY <1>1, <1>10, <1>11, <1>12, <1>13, <1>14, SoundStep

LEMMA StutterKeeps == IInv /\ UNCHANGED vars => IInv'
<1> SUFFICES ASSUME IInv, UNCHANGED vars PROVE IInv'
  OBVIOUS
<1>1. /\ m_running' = m_running /\ m_recvEnabled' = m_recvEnabled
      /\ m_allMsgs' = m_allMsgs /\ m_nextMsgNum' = m_nextMsgNum
      /\ m_recvListMode' = m_recvListMode /\ recvList' = recvList
      /\ m_pendingData' = m_pendingData /\ m_timerActive' = m_timerActive
      /\ m_timer' = m_timer /\ created' = created /\ own' = own
  BY Zenon DEF vars
<1>2. Now' = Now
  BY <1>1 DEF Now
<1>3. SoundIn(Now', created', m_recvListMode')
  BY <1>1, <1>2 DEF IInv
<1> QED
  BY <1>1, <1>3 DEF IInv

LEMMA NextKeeps == IInv /\ [Next]_vars => IInv'
BY SendMsgsKeeps, DataToSendKeeps, SendDataPostponedKeeps, SetRecvEnabledKeeps,
   UpdateRecvListModeKeeps, RecvDeleteKeeps, RecvClearKeeps, RecvLoadKeeps,
   ApplyNewPluginsKeeps, StutterKeeps, Zenon DEF Next

-----------------------------------------------------------------------------
(* What the invariant says of the program.                                 *)

(* For any bounds and any chain of filters, the state of the manager, the  *)
(* view and the echo socket is sound: messages are numbered in ascending   *)
(* order below the next number, the view lists those to be shown, what is  *)
(* pending has all its layers, and the flag of the timer is not set        *)
(* without the timer.                                                      *)
THEOREM ManagerInvariance == Spec => []IInv
<1>1. Init => IInv
  BY InitKeeps
<1>2. IInv /\ [Next]_vars => IInv'
  BY NextKeeps
<1> QED
  BY <1>1, <1>2, PTL DEF Spec

LEMMA Typed == IInv => TypeOK
<1> SUFFICES ASSUME IInv PROVE TypeOK
  OBVIOUS
<1>1. /\ m_running \in BOOLEAN /\ m_recvEnabled \in BOOLEAN
      /\ m_recvListMode \in SUBSET MsgType /\ created \in 0..MaxSent
      /\ own \in 0..MaxOwn /\ m_nextMsgNum <= MaxNum + 1
  BY DEF IInv
<1>2. /\ m_allMsgs \in Seq(AnyEntry) /\ recvList \in Seq(AnyEntry)
      /\ m_pendingData \in Seq(Packet) /\ m_nextMsgNum \in Nat \ {0}
      /\ m_timerActive \in BOOLEAN /\ m_timer \in BOOLEAN
      /\ Below(m_allMsgs, m_nextMsgNum)
      /\ Shows(recvList, m_allMsgs, m_recvListMode)
  BY IInvFacts
<1>3. MaxNum \in Nat
  BY BoundsAssumption
<1>4. m_nextMsgNum \in 1..(MaxNum + 1)
  BY <1>1, <1>2, <1>3
<1>5. ASSUME NEW m \in AnyEntry, In(m, m_allMsgs) PROVE m \in Entry
  <2>1. PICK i \in 1..Len(m_allMsgs) : m_allMsgs[i] = m
    BY <1>5 DEF In
  <2>2. m.num < m_nextMsgNum
    BY <1>2, <2>1 DEF Below
  <2>3. m.num \in Nat \ {0}
    BY DEF AnyEntry
  <2>4. m.num \in 1..MaxNum
    BY <1>1, <1>2, <1>3, <2>2, <2>3
  <2> QED
    BY <2>4 DEF AnyEntry, Entry
<1>6. ASSUME NEW i \in 1..Len(m_allMsgs) PROVE m_allMsgs[i] \in Entry
  <2>1. m_allMsgs[i] \in AnyEntry
    BY <1>2, SeqFacts
  <2>2. In(m_allMsgs[i], m_allMsgs)
    BY DEF In
  <2> QED
    BY <1>5, <2>1, <2>2
<1>7. ASSUME NEW i \in 1..Len(recvList) PROVE recvList[i] \in Entry
  <2>1. recvList[i] \in AnyEntry
    BY <1>2, SeqFacts
  <2>2. In(recvList[i], recvList)
    BY DEF In
  <2>3. In(recvList[i], m_allMsgs)
    BY <1>2, <2>1, <2>2 DEF Shows, Selects
  <2> QED
    BY <1>5, <2>1, <2>3
<1>8. m_allMsgs \in Seq(Entry) /\ recvList \in Seq(Entry)
  <2>1. ASSUME NEW s \in Seq(AnyEntry), \A i \in 1..Len(s) : s[i] \in Entry
        PROVE  s \in Seq(Entry)
    <3>1. Len(s) \in Nat /\ s = [i \in 1..Len(s) |-> s[i]]
      OBVIOUS
    <3>2. s \in [1..Len(s) -> Entry]
      BY <2>1, <3>1
    <3> QED
      BY <3>1, <3>2, FunctionIsSequence
  <2> QED
    BY <1>2, <1>6, <1>7, <2>1
<1>9. m_pendingData \in Seq(DataInfo)
  <2>1. Packet \subseteq DataInfo
    BY DEF Packet
  <2> QED
    BY <1>2, <2>1
<1> QED
  BY <1>1, <1>2, <1>4, <1>8, <1>9 DEF TypeOK

(* Every variable keeps to its type.                                       *)
THEOREM ManagerTypesCorrect == Spec => []TypeOK
BY ManagerInvariance, Typed, PTL

LEMMA Agreeing == IInv => ListsAgree
<1> SUFFICES ASSUME IInv PROVE ListsAgree
  OBVIOUS
<1>1. /\ m_allMsgs \in Seq(AnyEntry) /\ recvList \in Seq(AnyEntry)
      /\ Ascending(m_allMsgs) /\ Shows(recvList, m_allMsgs, m_recvListMode)
  BY IInvFacts
<1> QED
  BY <1>1, OneListShows DEF ListsAgree

(* The view lists exactly the messages of the manager that are to be       *)
(* shown, in the manager's order: deleteMsg always removes the message the *)
(* user meant.                                                             *)
THEOREM ListsAlwaysAgree == Spec => []ListsAgree
BY ManagerInvariance, Agreeing, PTL

LEMMA Following == IInv => EchoesFollow
<1> SUFFICES ASSUME IInv PROVE EchoesFollow
  OBVIOUS
<1>1. m_allMsgs \in Seq(AnyEntry) /\ Follow(m_allMsgs)
  BY IInvFacts
<1>2. DOMAIN m_allMsgs = 1..Len(m_allMsgs)
  BY <1>1, SeqFacts
<1> QED
  BY <1>1, <1>2 DEF EchoesFollow, Follow, Precedes

(* An echo is recorded after the message it echoes, and echoes in the      *)
(* order of the messages, whatever is sent, withheld, received, loaded or  *)
(* deleted in between.                                                     *)
THEOREM EchoesAlwaysFollow == Spec => []EchoesFollow
BY ManagerInvariance, Following, PTL

LEMMA Scheduling == IInv => PendingIsScheduled
BY IInvFacts DEF PendingIsScheduled

(* Data never waits in the echo socket without a timer that delivers it.   *)
THEOREM PendingAlwaysScheduled == Spec => []PendingIsScheduled
BY ManagerInvariance, Scheduling, PTL
=============================================================================
