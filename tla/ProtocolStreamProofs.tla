------------------------ MODULE ProtocolStreamProofs ------------------------
(* Proofs about ProtocolStream: wherever the stream is cut into chunks, and*)
(* whatever the sizes of bytes, messages and the garbage limit, no byte is *)
(* lost, duplicated or reordered, the receiver is told the same, and what  *)
(* has been sent arrives.                                                  *)
EXTENDS ProtocolStream, Induction, SequenceTheorems, TLAPS

-----------------------------------------------------------------------------
(* Sequences put one after the other.                                      *)

Flattens(f, ss) ==
    f = [i \in 1..Len(ss) |-> IF i = 1 THEN ss[i] ELSE f[i - 1] \o ss[i]]

LEMMA FlattenExists ==
  ASSUME NEW S, NEW ss \in Seq(Seq(S))
  PROVE  \E f \in [1..Len(ss) -> Seq(S)] : Flattens(f, ss)
<1> DEFINE n == Len(ss)
           step == [p \in Seq(S) \X (1..n) |-> p[1] \o ss[p[2]]]
<1>1. n \in Nat /\ \A i \in 1..n : ss[i] \in Seq(S)
  OBVIOUS
<1>2. \A t \in Seq(S), i \in 1..n : step[<<t, i>>] = t \o ss[i]
  OBVIOUS
<1>3. step \in [Seq(S) \X (1..n) -> Seq(S)]
  BY <1>1
<1>4. <<>> \in Seq(S)
  OBVIOUS
<1> HIDE DEF step
<1>5. PICK g : g \in Iterates(Seq(S), <<>>, step, n)
  BY <1>1, <1>3, <1>4, IteratesExist
<1>6. /\ g \in [0..n -> Seq(S)]
      /\ g = [i \in 0..n |-> IF i = 0 THEN <<>> ELSE step[<<g[i - 1], i>>]]
  BY <1>5 DEF Iterates
<1>7. ASSUME NEW i \in 1..n
      PROVE  g[i] = IF i = 1 THEN ss[i] ELSE g[i - 1] \o ss[i]
  <2>1. i \in 0..n /\ i - 1 \in 0..n /\ g[i - 1] \in Seq(S)
    <3>1. i \in 0..n /\ i - 1 \in 0..n /\ i # 0
      BY <1>1
    <3>2. g \in [0..n -> Seq(S)]
      BY <1>6
    <3> HIDE DEF n
    <3> QED
      BY <3>1, <3>2
  <2>2. g[i] = g[i - 1] \o ss[i]
    <3>1. step[<<g[i - 1], i>>] = g[i - 1] \o ss[i]
      BY <2>1, <1>2
    <3>2. g[i] = step[<<g[i - 1], i>>]
      BY <2>1, <1>6
    <3> QED
      BY <3>1, <3>2
  <2>3. i = 1 => g[i - 1] = <<>>
    <3>1. g[0] = <<>>
      BY <1>1, <1>6
    <3> QED
      BY <3>1
  <2>4. <<>> \o ss[i] = ss[i]
    BY <1>1, ConcatEmptySeq
  <2> QED
    BY <2>2, <2>3, <2>4
<1> DEFINE f == [i \in 1..n |-> g[i]]
<1>8. f \in [1..n -> Seq(S)]
  BY <1>1, <1>6
<1>9. ASSUME NEW i \in 1..n
      PROVE  f[i] = IF i = 1 THEN ss[i] ELSE f[i - 1] \o ss[i]
  <2>1. i # 1 => i - 1 \in 1..n
    BY <1>1
  <2> QED
    BY <1>7, <2>1
<1>10. Flattens(f, ss)
  BY <1>9 DEF Flattens
<1> QED
  BY <1>8, <1>10

LEMMA FlattensAt ==
  ASSUME NEW ss, NEW f, Flattens(f, ss), NEW i \in 1..Len(ss)
  PROVE  f[i] = IF i = 1 THEN ss[i] ELSE f[i - 1] \o ss[i]
BY DEF Flattens

(* Flattening goes on where flattening of a prefix has ended.              *)
Continues(tt, ss) ==
    /\ Len(ss) \in Nat /\ Len(tt) \in Nat /\ Len(ss) <= Len(tt)
    /\ \A i \in 1..Len(ss) : ss[i] = tt[i]

Agree(f, g, n) == \A i \in 1..n : f[i] = g[i]

LEMMA FlattenAgrees ==
  ASSUME NEW ss, NEW tt, NEW f, NEW g, Flattens(f, ss), Flattens(g, tt),
         Continues(tt, ss)
  PROVE  Agree(f, g, Len(ss))
<1> USE DEF Continues
<1> DEFINE T == { k \in Nat : k \in 1..Len(ss) => f[k] = g[k] }
<1>1. 0 \in T
  OBVIOUS
<1>2. ASSUME NEW k \in Nat, k \in T
      PROVE  k + 1 \in T
  <2> SUFFICES ASSUME k + 1 \in 1..Len(ss)
               PROVE  f[k + 1] = g[k + 1]
    OBVIOUS
  <2>1. f[k + 1] = IF k + 1 = 1 THEN ss[k + 1] ELSE f[k + 1 - 1] \o ss[k + 1]
    BY FlattensAt
  <2>2. k + 1 \in 1..Len(tt)
    OBVIOUS
  <2>3. g[k + 1] = IF k + 1 = 1 THEN tt[k + 1] ELSE g[k + 1 - 1] \o tt[k + 1]
    BY <2>2, FlattensAt
  <2>4. k + 1 # 1 => f[k] = g[k]
    BY <1>2
  <2> QED
    BY <2>1, <2>3, <2>4
<1> HIDE DEF T
<1>3. Nat \subseteq T
  BY <1>1, <1>2, SetInduction
<1> QED
  BY <1>3 DEF T, Agree

LEMMA FlattenIs ==
  ASSUME NEW S, NEW ss \in Seq(Seq(S)), Len(ss) # 0
  PROVE  /\ FlattenSeq(ss) \in Seq(S)
         /\ \E f \in [1..Len(ss) -> Seq(S)] :
               Flattens(f, ss) /\ FlattenSeq(ss) = f[Len(ss)]
<1> DEFINE R(f) == f = [i \in 1..Len(ss) |-> IF i = 1 THEN ss[i] ELSE f[i - 1] \o ss[i]]
           c == CHOOSE f : R(f)
<1>1. PICK f \in [1..Len(ss) -> Seq(S)] : Flattens(f, ss)
  BY FlattenExists
<1>2. R(c)
  <2>1. R(f)
    BY <1>1 DEF Flattens
  <2> HIDE DEF R
  <2> QED
    BY <2>1, Zenon
<1>3. FlattenSeq(ss) = c[Len(ss)]
  BY Zenon DEF FlattenSeq
<1> HIDE DEF c
<1>4. Flattens(c, ss)
  BY <1>2 DEF Flattens
<1>5. \A i \in 1..Len(ss) : c[i] = f[i]
  <2>1. Continues(ss, ss)
    BY DEF Continues
  <2> QED
    BY <1>1, <1>4, <2>1, FlattenAgrees DEF Agree
<1>6. Len(ss) \in 1..Len(ss)
  OBVIOUS
<1> QED
  BY <1>1, <1>3, <1>5, <1>6

LEMMA FlattenTyped ==
  ASSUME NEW S, NEW ss \in Seq(Seq(S))
  PROVE  FlattenSeq(ss) \in Seq(S) /\ (ss = <<>> => FlattenSeq(ss) = <<>>)
<1>1. CASE Len(ss) = 0
  <2>1. ss = <<>>
    BY <1>1
  <2>2. FlattenSeq(ss) = ss
    BY <1>1, Zenon DEF FlattenSeq
  <2>3. <<>> \in Seq(S)
    OBVIOUS
  <2> QED
    BY <2>1, <2>2, <2>3
<1>2. CASE Len(ss) # 0
  <2>1. ss # <<>>
    BY <1>2
  <2> QED
    BY <1>2, <2>1, FlattenIs
<1> QED
  BY <1>1, <1>2

LEMMA FlattenAppend ==
  ASSUME NEW S, NEW ss \in Seq(Seq(S)), NEW x \in Seq(S)
  PROVE  FlattenSeq(Append(ss, x)) = FlattenSeq(ss) \o x
<1> DEFINE tt == Append(ss, x)
           n  == Len(ss)
<1>1. /\ tt \in Seq(Seq(S)) /\ Len(tt) = n + 1 /\ n \in Nat
      /\ \A i \in 1..n : tt[i] = ss[i]
      /\ tt[n + 1] = x
  OBVIOUS
<1> HIDE DEF tt
<1>2. PICK g \in [1..(n + 1) -> Seq(S)] : Flattens(g, tt) /\ FlattenSeq(tt) = g[n + 1]
  <2>1. Len(tt) # 0
    BY <1>1
  <2>2. \E f \in [1..Len(tt) -> Seq(S)] : Flattens(f, tt) /\ FlattenSeq(tt) = f[Len(tt)]
    BY <1>1, <2>1, FlattenIs
  <2> QED
    BY <1>1, <2>2
<1>3. n + 1 \in 1..Len(tt)
  BY <1>1
<1>4. g[n + 1] = IF n + 1 = 1 THEN tt[n + 1] ELSE g[n + 1 - 1] \o tt[n + 1]
  BY <1>2, <1>3, FlattensAt
<1>5. CASE n = 0
  <2>1. g[n + 1] = x
    BY <1>1, <1>4, <1>5
  <2>2. ss = <<>>
    BY <1>5
  <2>3. FlattenSeq(ss) = <<>>
    BY <2>2, FlattenTyped
  <2>4. <<>> \o x = x
    BY ConcatEmptySeq
  <2> QED
    BY <1>2, <2>1, <2>3, <2>4 DEF tt
<1>6. CASE n # 0
  <2>1. PICK f \in [1..n -> Seq(S)] : Flattens(f, ss) /\ FlattenSeq(ss) = f[n]
    BY <1>6, FlattenIs
  <2>2. n \in 1..n
    BY <1>1, <1>6
  <2>3. f[n] = g[n]
    <3>1. Continues(tt, ss)
      BY <1>1 DEF Continues
    <3>2. Flattens(f, ss) /\ Flattens(g, tt)
      BY <1>2, <2>1
    <3>3. Agree(f, g, Len(ss))
      BY <3>1, <3>2, FlattenAgrees
    <3> QED
      BY <2>2, <3>3 DEF Agree
  <2>4. g[n + 1] = g[n] \o x
    BY <1>1, <1>4, <1>6
  <2> QED
    BY <1>2, <2>1, <2>3, <2>4 DEF tt
<1> QED
  BY <1>5, <1>6

(* What the members of a list of results hold of the stream.               *)
Return    == [raw : Seq(Byte), msg : MsgType \cup {NoMsg}]
Raws(msgs) == [i \in DOMAIN msgs |-> msgs[i].raw]
Bytes(msgs) == FlattenSeq(Raws(msgs))

LEMMA RawsTyped ==
  ASSUME NEW msgs \in Seq(Return)
  PROVE  /\ Raws(msgs) \in Seq(Seq(Byte)) /\ Len(Raws(msgs)) = Len(msgs)
         /\ Bytes(msgs) \in Seq(Byte)
<1>1. DOMAIN msgs = 1..Len(msgs) /\ Len(msgs) \in Nat
  OBVIOUS
<1>2. \A i \in 1..Len(msgs) : msgs[i].raw \in Seq(Byte)
  <2>1. \A i \in 1..Len(msgs) : msgs[i] \in Return
    OBVIOUS
  <2> QED
    BY <2>1 DEF Return
<1>3. Raws(msgs) \in [1..Len(msgs) -> Seq(Byte)]
  BY <1>1, <1>2 DEF Raws
<1>4. Raws(msgs) \in Seq(Seq(Byte)) /\ Len(Raws(msgs)) = Len(msgs)
  BY <1>1, <1>3, FunctionIsSequence
<1> QED
  BY <1>4, FlattenTyped DEF Bytes

LEMMA BytesAppend ==
  ASSUME NEW msgs \in Seq(Return), NEW r \in Return
  PROVE  /\ Append(msgs, r) \in Seq(Return)
         /\ Bytes(Append(msgs, r)) = Bytes(msgs) \o r.raw
<1> DEFINE more == Append(msgs, r)
<1>1. /\ more \in Seq(Return) /\ Len(more) = Len(msgs) + 1 /\ Len(msgs) \in Nat
      /\ \A i \in 1..Len(msgs) : more[i] = msgs[i]
      /\ more[Len(msgs) + 1] = r
  OBVIOUS
<1>2. r.raw \in Seq(Byte)
  BY DEF Return
<1> HIDE DEF more
<1>3. /\ Raws(msgs) \in Seq(Seq(Byte)) /\ Len(Raws(msgs)) = Len(msgs)
      /\ Raws(more) \in Seq(Seq(Byte)) /\ Len(Raws(more)) = Len(msgs) + 1
  BY <1>1, RawsTyped
<1>4. /\ \A i \in 1..Len(msgs) : Raws(msgs)[i] = msgs[i].raw
      /\ \A i \in 1..(Len(msgs) + 1) : Raws(more)[i] = more[i].raw
  <2>1. DOMAIN msgs = 1..Len(msgs) /\ DOMAIN more = 1..(Len(msgs) + 1)
    BY <1>1
  <2> QED
    BY <2>1 DEF Raws
<1>5. ASSUME NEW i \in 1..(Len(msgs) + 1)
      PROVE  Raws(more)[i] = Append(Raws(msgs), r.raw)[i]
  <2>1. CASE i = Len(msgs) + 1
    BY <1>1, <1>2, <1>3, <1>4, <2>1
  <2>2. CASE i \in 1..Len(msgs)
    <3>1. Append(Raws(msgs), r.raw)[i] = Raws(msgs)[i]
      BY <1>2, <1>3, <2>2
    <3>2. Raws(more)[i] = more[i].raw /\ more[i] = msgs[i]
      BY <1>1, <1>4, <2>2
    <3>3. Raws(msgs)[i] = msgs[i].raw
      BY <1>4, <2>2
    <3> QED
      BY <3>1, <3>2, <3>3
  <2>3. i = Len(msgs) + 1 \/ i \in 1..Len(msgs)
    OBVIOUS
  <2> QED
    BY <2>1, <2>2, <2>3, Zenon
<1>6. Append(Raws(msgs), r.raw) \in Seq(Seq(Byte))
      /\ Len(Append(Raws(msgs), r.raw)) = Len(msgs) + 1
  BY <1>2, <1>3
<1>7. Raws(more) = Append(Raws(msgs), r.raw)
  <2>1. /\ Len(Raws(more)) = Len(Append(Raws(msgs), r.raw))
        /\ \A i \in 1..Len(Raws(more)) : Raws(more)[i] = Append(Raws(msgs), r.raw)[i]
    BY <1>3, <1>5, <1>6
  <2> QED
    BY <1>3, <1>6, <2>1, SeqEqual
<1>8. Bytes(more) = FlattenSeq(Raws(msgs)) \o r.raw
  BY <1>2, <1>3, <1>7, FlattenAppend DEF Bytes
<1> QED
  BY <1>1, <1>8 DEF Bytes, more

LEMMA BytesEmpty == <<>> \in Seq(Return) /\ Bytes(<<>>) = <<>>
<1>1. <<>> \in Seq(Return)
  OBVIOUS
<1>2. Raws(<<>>) = <<>>
  BY DEF Raws
<1>3. <<>> \in Seq(Seq(Byte))
  OBVIOUS
<1> QED
  BY <1>1, <1>2, <1>3, FlattenTyped DEF Bytes

LEMMA BytesConcat ==
  ASSUME NEW msgs \in Seq(Return), NEW more \in Seq(Return)
  PROVE  /\ msgs \o more \in Seq(Return)
         /\ Bytes(msgs \o more) = Bytes(msgs) \o Bytes(more)
<1> DEFINE first(k) == SubSeq(more, 1, k)
           T == { k \in Nat : k <= Len(more) =>
                    Bytes(msgs \o first(k)) = Bytes(msgs) \o Bytes(first(k)) }
<1>0. Bytes(msgs) \in Seq(Byte) /\ Bytes(more) \in Seq(Byte)
  BY RawsTyped
<1>1. 0 \in T
  <2>1. first(0) = <<>>
    BY SubSeqEmpty
  <2>2. msgs \o <<>> = msgs /\ Bytes(msgs) \o <<>> = Bytes(msgs)
    BY <1>0, ConcatEmptySeq
  <2> HIDE DEF first
  <2> QED
    BY <2>1, <2>2, BytesEmpty
<1>2. ASSUME NEW k \in Nat, k \in T
      PROVE  k + 1 \in T
  <2> SUFFICES ASSUME k + 1 <= Len(more)
               PROVE  Bytes(msgs \o first(k + 1)) = Bytes(msgs) \o Bytes(first(k + 1))
    OBVIOUS
  <2>1. Bytes(msgs \o first(k)) = Bytes(msgs) \o Bytes(first(k))
    BY <1>2
  <2>2. more[k + 1] \in Return /\ more[k + 1].raw \in Seq(Byte)
    <3>1. more[k + 1] \in Return
      OBVIOUS
    <3> QED
      BY <3>1 DEF Return
  <2>3. /\ first(k) \in Seq(Return) /\ first(k + 1) = Append(first(k), more[k + 1])
    OBVIOUS
  <2>4. msgs \o first(k) \in Seq(Return)
    BY <2>3
  <2>5. msgs \o Append(first(k), more[k + 1]) = Append(msgs \o first(k), more[k + 1])
    <3> HIDE DEF first
    <3> QED
      BY <2>2, <2>3
  <2> HIDE DEF first
  <2>6. Bytes(first(k + 1)) = Bytes(first(k)) \o more[k + 1].raw
    BY <2>2, <2>3, BytesAppend
  <2>7. Bytes(msgs \o first(k + 1)) = Bytes(msgs \o first(k)) \o more[k + 1].raw
    BY <2>2, <2>3, <2>4, <2>5, BytesAppend
  <2>8. Bytes(first(k)) \in Seq(Byte)
    BY <2>3, RawsTyped
  <2>9. (Bytes(msgs) \o Bytes(first(k))) \o more[k + 1].raw
            = Bytes(msgs) \o (Bytes(first(k)) \o more[k + 1].raw)
    <3> DEFINE x == Bytes(msgs)
               y == Bytes(first(k))
               z == more[k + 1].raw
    <3>1. x \in Seq(Byte) /\ y \in Seq(Byte) /\ z \in Seq(Byte)
      BY <1>0, <2>2, <2>8
    <3> HIDE DEF x, y, z
    <3>2. (x \o y) \o z = x \o (y \o z)
      BY <3>1, ConcatAssociative
    <3> QED
      BY <3>2 DEF x, y, z
  <2> QED
    BY <2>1, <2>6, <2>7, <2>9
<1>3. first(Len(more)) = more
  BY SubSeqFull
<1> HIDE DEF T
<1>4. Nat \subseteq T
  BY <1>1, <1>2, SetInduction
<1>5. Len(more) \in Nat /\ msgs \o more \in Seq(Return)
  OBVIOUS
<1>6. Bytes(msgs \o first(Len(more))) = Bytes(msgs) \o Bytes(first(Len(more)))
  BY <1>4, <1>5 DEF T
<1> QED
  BY <1>3, <1>5, <1>6

-----------------------------------------------------------------------------
(* What the stack answers.                                                 *)

Statuses == {"Success", "NotEnoughData", "InvalidMsgData", "InvalidMsgId",
             "ProtocolError"}
Answer   == [es : Statuses, consumed : Nat, msg : MsgType \cup {NoMsg}]

(* An answer by which readImpl takes the bytes for a message, valid or not.*)
Takes(r) == r.es \in {"Success", "InvalidMsgData"}

LEMMA FailureTyped ==
  ASSUME NEW es \in Statuses, NEW consumed \in Nat
  PROVE  /\ Failure(es, consumed) \in Answer
         /\ Failure(es, consumed).es = es
BY DEF Failure, Answer

LEMMA ByteIsNat == Byte \subseteq Nat
BY BaseAssumption DEF Byte

LEMMA TypeProperties ==
  ASSUME NEW i \in DOMAIN AllMessages
  PROVE  /\ AllMessages[i].fields \in Seq(SUBSET Byte)
         /\ AllMessages[i].id \in Byte
         /\ i \in Nat /\ i \in 1..Len(AllMessages) /\ Len(AllMessages) \in Nat
<1>1. AllMessages \in Seq([id : Byte, fields : Seq(SUBSET Byte)])
  BY MessagesAssumption
<1>2. DOMAIN AllMessages = 1..Len(AllMessages) /\ Len(AllMessages) \in Nat
  BY <1>1
<1>3. AllMessages[i] \in [id : Byte, fields : Seq(SUBSET Byte)]
  BY <1>1, <1>2, ElementOfSeq
<1> QED
  BY <1>2, <1>3

LEMMA MinIsIn ==
  ASSUME NEW T, T \subseteq Nat, T # {}
  PROVE  Min(T) \in T
<1>1. \E x \in T : \A y \in T : x <= y
  BY LeastElement
<1> QED
  BY <1>1, Zenon DEF Min

LEMMA MaxIsIn ==
  ASSUME NEW n \in Nat, NEW T, T \subseteq 1..n, T # {}
  PROVE  Max(T) \in T
<1> DEFINE D == { n - y : y \in T }
<1>1. D \subseteq Nat /\ D # {}
  <2>1. \A y \in T : n - y \in Nat
    OBVIOUS
  <2> QED
    BY <2>1
<1>2. PICK d \in D : \A e \in D : d <= e
  BY <1>1, LeastElement
<1>3. PICK x \in T : d = n - x
  BY <1>2
<1>4. ASSUME NEW y \in T PROVE x >= y
  <2>1. n - y \in D
    OBVIOUS
  <2>2. n - x <= n - y
    BY <1>2, <1>3, <2>1
  <2> QED
    BY <2>2
<1>5. \E z \in T : \A y \in T : z >= y
  BY <1>4
<1> QED
  BY <1>5, Zenon DEF Max

LEMMA MsgDataReadTyped ==
  ASSUME NEW type \in DOMAIN AllMessages, NEW s \in Seq(Byte)
  PROVE  MsgDataRead(type, s) \in Answer
<1> DEFINE fields == AllMessages[type].fields
           bad    == { i \in DOMAIN fields : i > Len(s) \/ s[i] \notin fields[i] }
           first  == CHOOSE j \in bad : \A k \in bad : j <= k
<1>1. fields \in Seq(SUBSET Byte) /\ Len(fields) \in Nat /\ Len(s) \in Nat
  BY TypeProperties
<1>2. DOMAIN fields = 1..Len(fields)
  BY <1>1
<1>3. CASE bad = {}
  <2>1. Len(fields) <= Len(s)
    <3>1. Len(fields) = 0 \/ Len(fields) \in DOMAIN fields
      BY <1>1, <1>2
    <3> QED
      BY <1>1, <1>3, <3>1
  <2>2. SubSeq(s, 1, Len(fields)) \in Seq(Byte)
    <3> HIDE DEF fields
    <3> QED
      BY <1>1, <2>1
  <2>3. MsgDataRead(type, s)
          = [es |-> "Success", consumed |-> Len(fields),
             msg |-> [type |-> type, payload |-> SubSeq(s, 1, Len(fields))]]
    BY <1>3, Zenon DEF MsgDataRead
  <2> HIDE DEF fields
  <2> QED
    BY <1>1, <2>2, <2>3 DEF Answer, Statuses, MsgType
<1>4. CASE bad # {}
  <2>1. bad \subseteq Nat /\ \A i \in bad : i >= 1
    BY <1>1, <1>2
  <2>2. \E j \in bad : \A k \in bad : j <= k
    <3> HIDE DEF bad
    <3> QED
      BY <1>4, <2>1, LeastElement
  <2>3. first \in bad
    <3> HIDE DEF bad
    <3> QED
      BY <2>2, Zenon
  <2>4. first - 1 \in Nat
    <3> HIDE DEF bad, first
    <3> QED
      BY <2>1, <2>3
  <2>5. MsgDataRead(type, s)
          = Failure(IF Len(s) < first THEN "NotEnoughData" ELSE "InvalidMsgData",
                    first - 1)
    BY <1>4, Zenon DEF MsgDataRead
  <2> HIDE DEF first
  <2> QED
    BY <2>4, <2>5, FailureTyped DEF Statuses
<1> QED
  BY <1>3, <1>4

LEMMA FirstReadTyped ==
  ASSUME NEW types, types \subseteq DOMAIN AllMessages, NEW s \in Seq(Byte)
  PROVE  FirstRead(types, s) \in Answer
<1> DEFINE readable == { i \in types : MsgDataRead(i, s).es = "Success" }
<1>1. types \subseteq Nat /\ types \subseteq 1..Len(AllMessages)
  BY TypeProperties
<1>2. CASE readable # {}
  <2>1. Min(readable) \in readable
    <3>1. readable \subseteq Nat
      BY <1>1
    <3> HIDE DEF readable
    <3> QED
      BY <1>2, <3>1, MinIsIn
  <2> DEFINE r == MsgDataRead(Min(readable), s)
  <2>2. r \in Answer
    BY <2>1, MsgDataReadTyped
  <2>3. FirstRead(types, s) = [r EXCEPT !.consumed = @ + 1]
    BY <1>2, Zenon DEF FirstRead
  <2> HIDE DEF r
  <2> QED
    BY <2>2, <2>3 DEF Answer
<1>3. CASE readable = {}
  <2> DEFINE es == IF types = {} THEN "InvalidMsgId" ELSE MsgDataRead(Max(types), s).es
  <2>1. FirstRead(types, s) = Failure(es, 1)
    BY <1>3, Zenon DEF FirstRead
  <2>2. es \in Statuses
    <3>1. CASE types = {}
      BY <3>1 DEF Statuses
    <3>2. CASE types # {}
      <4>1. Len(AllMessages) \in Nat
        BY <3>2, TypeProperties
      <4>2. Max(types) \in types
        BY <1>1, <3>2, <4>1, MaxIsIn
      <4>3. MsgDataRead(Max(types), s) \in Answer
        BY <4>2, MsgDataReadTyped
      <4> QED
        BY <3>2, <4>3 DEF Answer
    <3> QED
      BY <3>1, <3>2
  <2> HIDE DEF es
  <2> QED
    BY <2>1, <2>2, FailureTyped
<1> QED
  BY <1>2, <1>3

LEMMA MsgIdReadTyped ==
  ASSUME NEW s \in Seq(Byte)
  PROVE  MsgIdRead(s) \in Answer
<1>1. CASE s = <<>>
  BY <1>1, FailureTyped DEF MsgIdRead, Statuses
<1>2. CASE s # <<>>
  <2>1. TypesWithId(s[1]) \subseteq DOMAIN AllMessages
    BY DEF TypesWithId
  <2>2. Tail(s) \in Seq(Byte)
    BY <1>2
  <2>3. MsgIdRead(s) = FirstRead(TypesWithId(s[1]), Tail(s))
    BY <1>2 DEF MsgIdRead
  <2> QED
    BY <2>1, <2>2, <2>3, FirstReadTyped
<1> QED
  BY <1>1, <1>2

(* What is taken for a message lies within the bytes there are.            *)
Within(r, s) == Takes(r) => r.consumed \in 1..Len(s)

LEMMA MsgSizeReadTyped ==
  ASSUME NEW s \in Seq(Byte)
  PROVE  MsgSizeRead(s) \in Answer /\ Within(MsgSizeRead(s), s)
<1>0. \A es \in {"NotEnoughData", "ProtocolError"} : \A consumed \in Nat :
         Failure(es, consumed) \in Answer /\ Within(Failure(es, consumed), s)
  <2> TAKE es \in {"NotEnoughData", "ProtocolError"}
  <2> TAKE consumed \in Nat
  <2>1. Failure(es, consumed) \in Answer /\ Failure(es, consumed).es = es
    BY FailureTyped DEF Statuses
  <2> QED
    BY <2>1 DEF Within, Takes
<1>1. CASE s = <<>> \/ Len(s) - 1 < s[1]
  BY <1>0, <1>1 DEF MsgSizeRead
<1>2. CASE s # <<>> /\ ~(Len(s) - 1 < s[1])
  <2> DEFINE next == MsgIdRead(SubSeq(s, 2, s[1] + 1))
  <2>1. s[1] \in Nat /\ Len(s) \in Nat /\ s[1] + 1 <= Len(s)
    <3>1. s[1] \in Byte /\ Len(s) \in Nat
      BY <1>2
    <3>2. s[1] \in Nat
      BY <3>1, ByteIsNat
    <3> QED
      BY <1>2, <3>1, <3>2
  <2>2. SubSeq(s, 2, s[1] + 1) \in Seq(Byte)
    BY <2>1
  <2>3. next \in Answer
    BY <2>2, MsgIdReadTyped
  <2>4. MsgSizeRead(s) = Sized(next, s[1])
    BY <1>2, Zenon DEF MsgSizeRead
  <2> HIDE DEF next
  <2>5. CASE next.es = "NotEnoughData"
    <3>1. 1 + next.consumed \in Nat
      BY <2>3 DEF Answer
    <3> QED
      BY <1>0, <2>4, <2>5, <3>1 DEF Sized
  <2>6. CASE next.es # "NotEnoughData"
    <3>1. MsgSizeRead(s) = [next EXCEPT !.consumed = 1 + s[1]]
      BY <2>4, <2>6 DEF Sized
    <3>2. 1 + s[1] \in Nat /\ 1 + s[1] \in 1..Len(s)
      BY <2>1
    <3> QED
      BY <2>3, <3>1, <3>2 DEF Answer, Within
  <2> QED
    BY <2>5, <2>6
<1> QED
  BY <1>1, <1>2

LEMMA ChecksumReadTyped ==
  ASSUME NEW s \in Seq(Byte)
  PROVE  ChecksumRead(s) \in Answer /\ Within(ChecksumRead(s), s)
<1> DEFINE next == MsgSizeRead(s)
<1>1. next \in Answer /\ Within(next, s)
  BY MsgSizeReadTyped
<1>2. Len(s) \in Nat
  OBVIOUS
<1>3. ChecksumRead(s) = Verified(next, s)
  BY DEF ChecksumRead
<1>4. \A es \in {"NotEnoughData", "ProtocolError"} : \A consumed \in Nat :
         Failure(es, consumed) \in Answer /\ Within(Failure(es, consumed), s)
  <2> TAKE es \in {"NotEnoughData", "ProtocolError"}
  <2> TAKE consumed \in Nat
  <2>1. Failure(es, consumed) \in Answer /\ Failure(es, consumed).es = es
    BY FailureTyped DEF Statuses
  <2> QED
    BY <2>1 DEF Within, Takes
<1> HIDE DEF next
<1>5. CASE next.es \in {"NotEnoughData", "ProtocolError"}
  BY <1>1, <1>3, <1>5 DEF Verified
<1>6. CASE next.es \notin {"NotEnoughData", "ProtocolError"} /\ Len(s) = next.consumed
  <2>1. ChecksumRead(s) = Failure("NotEnoughData", Len(s))
    BY <1>3, <1>6 DEF Verified
  <2> QED
    BY <1>2, <1>4, <2>1
<1>7. CASE next.es \notin {"NotEnoughData", "ProtocolError"} /\ Len(s) # next.consumed
  <2>1. next.consumed \in Nat
    BY <1>1 DEF Answer
  <2>2. \/ ChecksumRead(s) = Failure("ProtocolError", next.consumed + 1)
        \/ ChecksumRead(s) = [next EXCEPT !.consumed = @ + 1]
    BY <1>3, <1>7 DEF Verified
  <2>3. next.consumed + 1 \in Nat
    BY <2>1
  <2>4. CASE ChecksumRead(s) = Failure("ProtocolError", next.consumed + 1)
    BY <1>4, <2>3, <2>4
  <2>5. CASE ChecksumRead(s) = [next EXCEPT !.consumed = @ + 1]
    <3>1. Takes(next) => next.consumed + 1 \in 1..Len(s)
      BY <1>1, <1>2, <1>7, <2>1 DEF Within
    <3> QED
      BY <1>1, <2>3, <2>5, <3>1 DEF Answer, Within, Takes
  <2> QED
    BY <2>2, <2>4, <2>5
<1> QED
  BY <1>5, <1>6, <1>7

LEMMA StackReadTyped ==
  ASSUME NEW s \in Seq(Byte)
  PROVE  StackRead(s) \in Answer /\ Within(StackRead(s), s)
<1>1. CASE s = <<>> \/ s[1] # SyncPrefix
  <2>1. PICK es \in {"NotEnoughData", "ProtocolError"}, consumed \in {0, 1} :
            StackRead(s) = Failure(es, consumed)
    BY <1>1 DEF StackRead
  <2>2. StackRead(s) \in Answer /\ StackRead(s).es = es
    BY <2>1, FailureTyped DEF Statuses
  <2> QED
    BY <2>2 DEF Within, Takes
<1>2. CASE s # <<>> /\ s[1] = SyncPrefix
  <2> DEFINE next == ChecksumRead(Tail(s))
  <2>1. Tail(s) \in Seq(Byte) /\ Len(Tail(s)) = Len(s) - 1 /\ Len(s) \in Nat
    BY <1>2
  <2>2. next \in Answer /\ Within(next, Tail(s))
    BY <2>1, ChecksumReadTyped
  <2>3. StackRead(s) = [next EXCEPT !.consumed = @ + 1]
    BY <1>2, Zenon DEF StackRead
  <2> HIDE DEF next
  <2>4. next.consumed + 1 \in Nat
    BY <2>2 DEF Answer
  <2>5. Takes(next) => next.consumed + 1 \in 1..Len(s)
    BY <2>1, <2>2 DEF Within
  <2> QED
    BY <2>2, <2>3, <2>4, <2>5 DEF Answer, Within, Takes
<1> QED
  BY <1>1, <1>2

-----------------------------------------------------------------------------
(* The loop of readImpl.                                                   *)

LEMMA BytesOne ==
  ASSUME NEW r \in Return
  PROVE  <<r>> \in Seq(Return) /\ Bytes(<<r>>) = r.raw
<1>1. <<r>> = Append(<<>>, r) /\ r.raw \in Seq(Byte)
  BY DEF Return
<1>2. Bytes(Append(<<>>, r)) = <<>> \o r.raw /\ Append(<<>>, r) \in Seq(Return)
  BY BytesEmpty, BytesAppend
<1>3. <<>> \o r.raw = r.raw
  BY <1>1, ConcatEmptySeq
<1> QED
  BY <1>1, <1>2, <1>3

LEMMA FlushedBytes ==
  ASSUME NEW garbage \in Seq(Byte)
  PROVE  Flushed(garbage) \in Seq(Return) /\ Bytes(Flushed(garbage)) = garbage
<1>1. CASE garbage = <<>>
  BY <1>1, BytesEmpty DEF Flushed
<1>2. CASE garbage # <<>>
  <2>1. Invalid(garbage) \in Return /\ Invalid(garbage).raw = garbage
    BY DEF Invalid, Return
  <2>2. Flushed(garbage) = <<Invalid(garbage)>>
    BY <1>2 DEF Flushed
  <2> QED
    BY <2>1, <2>2, BytesOne
<1> QED
  BY <1>1, <1>2

LEMMA NextPrefix ==
  ASSUME NEW data \in Seq(Byte), NEW p \in Nat, p + 1 <= Len(data)
  PROVE  SubSeq(data, 1, p + 1) = SubSeq(data, 1, p) \o <<data[p + 1]>>
<1>1. SubSeq(data, 1, p + 1) = Append(SubSeq(data, 1, p), data[p + 1])
  OBVIOUS
<1>2. SubSeq(data, 1, p) \in Seq(Byte) /\ data[p + 1] \in Byte
  OBVIOUS
<1>3. ASSUME NEW t \in Seq(Byte), NEW b \in Byte
      PROVE  Append(t, b) = t \o <<b>>
  BY AppendIsConcat
<1> QED
  BY <1>1, <1>2, <1>3

LEMMA Associates ==
  ASSUME NEW b \in Seq(Byte), NEW g \in Seq(Byte), NEW x \in Seq(Byte)
  PROVE  (b \o g) \o x = b \o (g \o x)
BY ConcatAssociative

(* The stream goes on: what comes next is appended on either side.         *)
SameBytes(b, g, k, s) == b \o g = k \o s

LEMMA GoesOn ==
  ASSUME NEW b \in Seq(Byte), NEW g \in Seq(Byte), NEW k \in Seq(Byte),
         NEW s \in Seq(Byte), NEW x \in Seq(Byte)
  PROVE  SameBytes(b, g, k, s) => SameBytes(b, g \o x, k, s \o x)
<1>1. (b \o g) \o x = b \o (g \o x)
  BY Associates
<1>2. (k \o s) \o x = k \o (s \o x)
  BY Associates
<1> QED
  BY <1>1, <1>2 DEF SameBytes

LoopState(data) ==
    [pos : 0..Len(data), garbage : Seq(Byte), msgs : Seq(Return), done : BOOLEAN]

(* The bytes up to pos are in the messages or kept as garbage.             *)
Good(garbage, data) ==
    { st \in LoopState(data) :
        /\ Bytes(st.msgs) \o st.garbage = garbage \o SubSeq(data, 1, st.pos)
        /\ Len(st.garbage) < GarbageLimit }

LEMMA TakenKeeps ==
  ASSUME NEW garbage \in Seq(Byte), NEW data \in Seq(Byte),
         NEW st \in Good(garbage, data), NEW r \in Answer,
         NEW c \in 1..(Len(data) - st.pos)
  PROVE  Taken(st, SubSeq(Rest(st, data), 1, c), r.msg) \in Good(garbage, data)
<1> DEFINE raw   == SubSeq(Rest(st, data), 1, c)
           this  == [raw |-> raw, msg |-> r.msg]
           before == SubSeq(data, 1, st.pos)
           msgs  == st.msgs \o Flushed(st.garbage) \o <<this>>
<1>1. /\ st.pos \in 0..Len(data) /\ st.garbage \in Seq(Byte) /\ st.msgs \in Seq(Return)
      /\ Bytes(st.msgs) \o st.garbage = garbage \o before
      /\ st \in LoopState(data)
  BY DEF Good, LoopState
<1>2. Len(data) \in Nat /\ st.pos \in Nat /\ c \in Nat /\ c >= 1 /\ st.pos + c <= Len(data)
  BY <1>1
<1>3. raw = SubSeq(data, st.pos + 1, st.pos + c) /\ raw \in Seq(Byte) /\ Len(raw) = c
  <2> DEFINE i == st.pos + 1
             j == Len(data)
  <2>1. /\ i \in 1..Len(data) /\ j \in 1..Len(data)
        /\ 1 \in 1..(j - i + 1) /\ c \in 1..(j - i + 1)
        /\ i + 1 - 1 = st.pos + 1 /\ i + c - 1 = st.pos + c
    BY <1>2
  <2>2. raw = SubSeq(SubSeq(data, i, j), 1, c)
    BY DEF Rest
  <2> HIDE DEF i, j, raw
  <2>3. SubSeq(SubSeq(data, i, j), 1, c) = SubSeq(data, i + 1 - 1, i + c - 1)
    BY <2>1, SubSeqOfSubSeq
  <2>4. raw = SubSeq(data, st.pos + 1, st.pos + c)
    BY <2>1, <2>2, <2>3
  <2>5. /\ SubSeq(data, st.pos + 1, st.pos + c) \in Seq(Byte)
        /\ Len(SubSeq(data, st.pos + 1, st.pos + c)) = c
    <3> DEFINE a == st.pos + 1
               b == st.pos + c
    <3>1. /\ a \in 1..Len(data) /\ b \in 1..Len(data) /\ a <= b
          /\ b - a + 1 = c
      BY <1>2
    <3> HIDE DEF a, b
    <3>2. SubSeq(data, a, b) \in Seq(Byte) /\ Len(SubSeq(data, a, b)) = b - a + 1
      BY <3>1
    <3> QED
      BY <3>1, <3>2 DEF a, b
  <2> QED
    BY <2>4, <2>5, Zenon
<1>4. before \in Seq(Byte) /\ before \o raw = SubSeq(data, 1, st.pos + c)
  <2>1. before \in Seq(Byte)
    BY <1>2
  <2>2. SubSeq(data, 1, st.pos) \o SubSeq(data, st.pos + 1, st.pos + c)
            = SubSeq(data, 1, st.pos + c)
    <3>1. 1 \in 1..(Len(data) + 1) /\ st.pos \in (1 - 1)..Len(data)
          /\ st.pos + c \in st.pos..Len(data)
      BY <1>2
    <3> QED
      BY <3>1, ConcatAdjacentSubSeq
  <2> QED
    BY <1>3, <2>1, <2>2
<1>5. this \in Return /\ this.raw = raw
  BY <1>3 DEF Return, Answer
<1>6. <<this>> \in Seq(Return) /\ Bytes(<<this>>) = raw
  BY <1>5, BytesOne
<1>7. Flushed(st.garbage) \in Seq(Return) /\ Bytes(Flushed(st.garbage)) = st.garbage
  BY <1>1, FlushedBytes
<1> HIDE DEF this, raw, before
<1>8. msgs \in Seq(Return) /\ Bytes(msgs) = (Bytes(st.msgs) \o st.garbage) \o raw
  <2>1. /\ st.msgs \o Flushed(st.garbage) \in Seq(Return)
        /\ Bytes(st.msgs \o Flushed(st.garbage)) = Bytes(st.msgs) \o st.garbage
    BY <1>1, <1>7, BytesConcat
  <2> QED
    BY <1>6, <2>1, BytesConcat
<1>9. Bytes(msgs) = garbage \o (before \o raw)
  <2>1. /\ Bytes(st.msgs) \in Seq(Byte) /\ st.garbage \in Seq(Byte)
        /\ before \in Seq(Byte) /\ raw \in Seq(Byte)
        /\ Bytes(st.msgs) \o st.garbage = garbage \o before
    BY <1>1, <1>3, <1>4, RawsTyped
  <2>2. SameBytes(Bytes(st.msgs), st.garbage, garbage, before)
    BY <2>1 DEF SameBytes
  <2>3. SameBytes(Bytes(st.msgs), st.garbage \o raw, garbage, before \o raw)
    BY <2>1, <2>2, GoesOn
  <2>4. (Bytes(st.msgs) \o st.garbage) \o raw = Bytes(st.msgs) \o (st.garbage \o raw)
    BY <2>1, Associates
  <2> QED
    BY <1>8, <2>3, <2>4 DEF SameBytes
<1>10. Bytes(msgs) \o <<>> = Bytes(msgs)
  BY <1>8, RawsTyped, ConcatEmptySeq
<1>11. Taken(st, raw, r.msg)
          = [st EXCEPT !.pos = st.pos + c, !.garbage = <<>>, !.msgs = msgs]
  BY <1>3 DEF Taken, this
<1>12. st.pos + c \in 0..Len(data) /\ <<>> \in Seq(Byte) /\ Len(<<>>) < GarbageLimit
  BY <1>2, GarbageLimitAssumption
<1> HIDE DEF msgs
<1>13. Taken(st, raw, r.msg) \in LoopState(data)
  BY <1>1, <1>8, <1>11, <1>12 DEF LoopState
<1>14. /\ Taken(st, raw, r.msg).pos = st.pos + c
       /\ Taken(st, raw, r.msg).garbage = <<>>
       /\ Taken(st, raw, r.msg).msgs = msgs
  BY <1>1, <1>11 DEF LoopState
<1>15. Bytes(msgs) \o <<>> = garbage \o SubSeq(data, 1, st.pos + c)
  BY <1>4, <1>9, <1>10
<1> QED
  BY <1>12, <1>13, <1>14, <1>15 DEF Good, raw

LEMMA DroppedKeeps ==
  ASSUME NEW garbage \in Seq(Byte), NEW data \in Seq(Byte),
         NEW st \in Good(garbage, data), st.pos < Len(data)
  PROVE  Dropped(st, Rest(st, data)[1]) \in Good(garbage, data)
<1> DEFINE byte    == Rest(st, data)[1]
           before  == SubSeq(data, 1, st.pos)
           dropped == Append(st.garbage, byte)
           full    == GarbageLimit <= Len(dropped)
           left    == IF full THEN <<>> ELSE dropped
           msgs    == IF full THEN st.msgs \o Flushed(dropped) ELSE st.msgs
<1>1. /\ st.pos \in 0..Len(data) /\ st.garbage \in Seq(Byte) /\ st.msgs \in Seq(Return)
      /\ Bytes(st.msgs) \o st.garbage = garbage \o before
      /\ st \in LoopState(data)
  BY DEF Good, LoopState
<1>2. Len(data) \in Nat /\ st.pos \in Nat /\ st.pos + 1 <= Len(data)
  BY <1>1
<1>3. byte = data[st.pos + 1] /\ byte \in Byte
  BY <1>2 DEF Rest
<1>4. before \in Seq(Byte) /\ before \o <<byte>> = SubSeq(data, 1, st.pos + 1)
  <2>1. before \in Seq(Byte)
    BY <1>2
  <2>2. SubSeq(data, 1, st.pos + 1) = SubSeq(data, 1, st.pos) \o <<data[st.pos + 1]>>
    BY <1>2, NextPrefix
  <2> QED
    BY <1>3, <2>1, <2>2
<1> HIDE DEF byte, before
<1>5. <<byte>> \in Seq(Byte) /\ dropped \in Seq(Byte) /\ dropped = st.garbage \o <<byte>>
  BY <1>1, <1>3
<1>6. Bytes(st.msgs) \in Seq(Byte)
  BY <1>1, RawsTyped
<1>7. Bytes(st.msgs) \o dropped = garbage \o SubSeq(data, 1, st.pos + 1)
  <2>1. /\ Bytes(st.msgs) \in Seq(Byte) /\ st.garbage \in Seq(Byte)
        /\ before \in Seq(Byte) /\ <<byte>> \in Seq(Byte)
        /\ Bytes(st.msgs) \o st.garbage = garbage \o before
    BY <1>1, <1>4, <1>5, <1>6
  <2>2. SameBytes(Bytes(st.msgs), st.garbage, garbage, before)
    BY <2>1 DEF SameBytes
  <2>3. SameBytes(Bytes(st.msgs), st.garbage \o <<byte>>, garbage, before \o <<byte>>)
    BY <2>1, <2>2, GoesOn
  <2> QED
    BY <1>4, <1>5, <2>3 DEF SameBytes
<1> HIDE DEF dropped
<1>8. /\ msgs \in Seq(Return) /\ left \in Seq(Byte) /\ Len(left) < GarbageLimit
      /\ Bytes(msgs) \o left = Bytes(st.msgs) \o dropped
  <2>1. CASE full
    <3>1. Flushed(dropped) \in Seq(Return) /\ Bytes(Flushed(dropped)) = dropped
      BY <1>5, FlushedBytes
    <3>2. /\ st.msgs \o Flushed(dropped) \in Seq(Return)
          /\ Bytes(st.msgs \o Flushed(dropped)) = Bytes(st.msgs) \o dropped
      BY <1>1, <3>1, BytesConcat
    <3>3. Bytes(st.msgs \o Flushed(dropped)) \o <<>> = Bytes(st.msgs \o Flushed(dropped))
      BY <3>2, RawsTyped, ConcatEmptySeq
    <3>4. <<>> \in Seq(Byte) /\ Len(<<>>) < GarbageLimit
      BY GarbageLimitAssumption
    <3> HIDE DEF full
    <3> QED
      BY <2>1, <3>2, <3>3, <3>4
  <2>2. CASE ~full
    <3>1. Len(dropped) \in Nat
      BY <1>5
    <3>2. Len(dropped) < GarbageLimit
      BY <2>2, <3>1, GarbageLimitAssumption
    <3> HIDE DEF full
    <3> QED
      BY <1>1, <1>5, <2>2, <3>2
  <2> QED
    BY <2>1, <2>2
<1>9. Dropped(st, byte) = [st EXCEPT !.pos = st.pos + 1, !.garbage = left, !.msgs = msgs]
  BY DEF Dropped, dropped
<1> HIDE DEF left, msgs
<1>10. st.pos + 1 \in 0..Len(data)
  BY <1>2
<1>11. Dropped(st, byte) \in LoopState(data)
  BY <1>1, <1>8, <1>9, <1>10 DEF LoopState
<1>12. /\ Dropped(st, byte).pos = st.pos + 1
       /\ Dropped(st, byte).garbage = left
       /\ Dropped(st, byte).msgs = msgs
  BY <1>1, <1>9 DEF LoopState
<1> QED
  BY <1>7, <1>8, <1>11, <1>12 DEF Good, byte

LEMMA StepKeeps ==
  ASSUME NEW garbage \in Seq(Byte), NEW data \in Seq(Byte),
         NEW st \in Good(garbage, data)
  PROVE  ReadStep(st, Rest(st, data), StackRead(Rest(st, data))) \in Good(garbage, data)
<1> DEFINE rest == Rest(st, data)
           r    == StackRead(rest)
<1>1. st.pos \in 0..Len(data) /\ st \in LoopState(data) /\ Len(data) \in Nat
  BY DEF Good, LoopState
<1>2. rest \in Seq(Byte) /\ Len(rest) = Len(data) - st.pos
  BY <1>1 DEF Rest
<1>3. r \in Answer /\ Within(r, rest)
  BY <1>2, StackReadTyped
<1> HIDE DEF r
<1>4. CASE rest = <<>> \/ r.es = "NotEnoughData"
  <2>1. ReadStep(st, rest, r) = [st EXCEPT !.done = TRUE]
    BY <1>4 DEF ReadStep
  <2>2. [st EXCEPT !.done = TRUE] \in Good(garbage, data)
    BY DEF Good, LoopState
  <2> QED
    BY <2>1, <2>2 DEF r
<1>5. CASE rest # <<>> /\ Takes(r)
  <2>1. r.consumed \in 1..(Len(data) - st.pos)
    BY <1>2, <1>3, <1>5 DEF Within
  <2>2. ReadStep(st, rest, r) = Taken(st, SubSeq(rest, 1, r.consumed), r.msg)
    BY <1>5 DEF ReadStep, Takes
  <2>3. Taken(st, SubSeq(rest, 1, r.consumed), r.msg) \in Good(garbage, data)
    BY <1>3, <2>1, TakenKeeps
  <2> QED
    BY <2>2, <2>3 DEF r
<1>6. CASE rest # <<>> /\ r.es # "NotEnoughData" /\ ~Takes(r)
  <2>1. ReadStep(st, rest, r) = Dropped(st, rest[1])
    BY <1>6 DEF ReadStep, Takes
  <2>2. st.pos < Len(data)
    BY <1>1, <1>2, <1>6
  <2>3. Dropped(st, rest[1]) \in Good(garbage, data)
    BY <2>2, DroppedKeeps
  <2> QED
    BY <2>1, <2>3 DEF r
<1> QED
  BY <1>4, <1>5, <1>6 DEF r

(* The loop of readImpl: where it starts, and one round.                   *)
Begin(garbage) == [pos |-> 0, garbage |-> garbage, msgs |-> <<>>, done |-> FALSE]

StepOn(st, data) ==
    IF st.done THEN st
    ELSE ReadStep(st, Rest(st, data), StackRead(Rest(st, data)))

(* The states the loop goes through, as a function of the round.           *)
Course(garbage, data) ==
    { f \in [0..(Len(data) + 1) -> Good(garbage, data)] :
        /\ f[0] = Begin(garbage)
        /\ \A i \in 1..(Len(data) + 1) : f[i] = StepOn(f[i - 1], data)
        /\ ReadLoop(garbage, data) = f[Len(data) + 1] }

LEMMA CourseExists ==
  ASSUME NEW garbage \in Seq(Byte), NEW data \in Seq(Byte), Len(garbage) < GarbageLimit
  PROVE  Course(garbage, data) # {}
<1> DEFINE n     == Len(data) + 1
           G     == Good(garbage, data)
           start == Begin(garbage)
           next(st) == StepOn(st, data)
           step  == [p \in G \X (1..n) |-> next(p[1])]
           R(f)  == f = [i \in 0..n |-> IF i = 0 THEN start ELSE next(f[i - 1])]
           loop  == CHOOSE f : R(f)
<1>1. n \in Nat
  OBVIOUS
<1>2. start \in G
  <2>1. start \in LoopState(data)
    BY BytesEmpty DEF LoopState, Begin
  <2>2. SubSeq(data, 1, 0) = <<>>
    BY SubSeqEmpty
  <2>3. <<>> \o garbage = garbage /\ garbage \o <<>> = garbage
    BY ConcatEmptySeq
  <2>4. Bytes(<<>>) = <<>>
    BY BytesEmpty
  <2> QED
    BY <2>1, <2>2, <2>3, <2>4 DEF Good, Begin
<1>3. ASSUME NEW st \in G PROVE next(st) \in G
  BY StepKeeps DEF StepOn
<1> HIDE DEF G, start, next
<1>4. step \in [G \X (1..n) -> G]
  BY <1>3
<1>5. \A st \in G, i \in 1..n : step[<<st, i>>] = next(st)
  OBVIOUS
<1> HIDE DEF step
<1>6. PICK f : f \in Iterates(G, start, step, n)
  BY <1>1, <1>2, <1>4, IteratesExist
<1>7. /\ f \in [0..n -> G]
      /\ f = [i \in 0..n |-> IF i = 0 THEN start ELSE step[<<f[i - 1], i>>]]
  BY <1>6 DEF Iterates
<1>8. f \in [0..n -> G]
  BY <1>7
<1>9. ASSUME NEW i \in 0..n, i # 0
      PROVE  step[<<f[i - 1], i>>] = next(f[i - 1])
  <2>1. i \in 1..n /\ i - 1 \in 0..n
    BY <1>1, <1>9
  <2>2. f[i - 1] \in G
    BY <1>8, <2>1
  <2> QED
    BY <1>5, <2>1, <2>2
<1>10. R(f)
  BY <1>7, <1>9
<1>11. R(loop)
  <2> HIDE DEF R
  <2> QED
    BY <1>10, Zenon
<1>12. ReadLoop(garbage, data) = loop[n]
  BY Zenon DEF ReadLoop, start, next, Begin, StepOn
<1> HIDE DEF loop
<1>13. loop[0] = start /\ \A i \in 1..n : loop[i] = next(loop[i - 1])
  BY <1>1, <1>11
<1>14. \A i \in 0..n : loop[i] \in G
  <2>1. loop[0] \in G /\ \A i \in 1..n : loop[i - 1] \in G => loop[i] \in G
    BY <1>2, <1>3, <1>13
  <2> HIDE DEF n
  <2> QED
    BY <1>1, <2>1, StaysInside
<1>15. loop \in [0..n -> G]
  BY <1>11, <1>14
<1> QED
  BY <1>12, <1>13, <1>15 DEF Course, G, start, next

(* Where the loop ends, the bytes it has used up are told of or kept.      *)
LEMMA ReadLoopKeeps ==
  ASSUME NEW garbage \in Seq(Byte), NEW data \in Seq(Byte), Len(garbage) < GarbageLimit
  PROVE  ReadLoop(garbage, data) \in Good(garbage, data)
<1>1. PICK f : f \in Course(garbage, data)
  BY CourseExists
<1>2. Len(data) + 1 \in 0..(Len(data) + 1)
  OBVIOUS
<1> QED
  BY <1>1, <1>2 DEF Course

(* What readImpl returns and keeps is what it kept and was given.          *)
Result == [data : Seq(Byte), garbage : Seq(Byte), msgs : Seq(Return)]

LEMMA ReadImplKeeps ==
  ASSUME NEW data \in Seq(Byte), NEW garbage \in Seq(Byte), NEW chunk \in Seq(Byte),
         NEW final \in BOOLEAN, Len(garbage) < GarbageLimit
  PROVE  LET r == ReadImpl(data, garbage, chunk, final)
         IN  /\ r \in Result /\ Len(r.garbage) < GarbageLimit
             /\ SameBytes(Bytes(r.msgs), r.garbage \o r.data, garbage, data \o chunk)
<1> DEFINE all  == data \o chunk
           end  == ReadLoop(garbage, all)
           rest == Rest(end, all)
           r    == ReadImpl(data, garbage, chunk, final)
<1>1. all \in Seq(Byte) /\ Len(all) \in Nat
  OBVIOUS
<1> HIDE DEF all
<1>2. end \in Good(garbage, all)
  BY <1>1, ReadLoopKeeps
<1> HIDE DEF end
<1>3. /\ end.pos \in 0..Len(all) /\ end.garbage \in Seq(Byte) /\ end.msgs \in Seq(Return)
      /\ Len(end.garbage) < GarbageLimit
      /\ SameBytes(Bytes(end.msgs), end.garbage, garbage, SubSeq(all, 1, end.pos))
  BY <1>2 DEF Good, LoopState, SameBytes
<1>4. /\ rest \in Seq(Byte) /\ SubSeq(all, 1, end.pos) \in Seq(Byte)
      /\ SubSeq(all, 1, end.pos) \o rest = all
  <2>1. /\ 1 \in 1..(Len(all) + 1) /\ end.pos \in (1 - 1)..Len(all)
        /\ Len(all) \in end.pos..Len(all)
    BY <1>1, <1>3
  <2>2. SubSeq(all, 1, end.pos) \o SubSeq(all, end.pos + 1, Len(all))
            = SubSeq(all, 1, Len(all))
    BY <1>1, <2>1, ConcatAdjacentSubSeq
  <2>3. SubSeq(all, 1, Len(all)) = all
    BY <1>1, SubSeqFull
  <2>4. rest \in Seq(Byte) /\ SubSeq(all, 1, end.pos) \in Seq(Byte)
    BY <1>1, <1>3 DEF Rest
  <2> QED
    BY <2>2, <2>3, <2>4 DEF Rest
<1> HIDE DEF rest
<1>5. Bytes(end.msgs) \in Seq(Byte)
  BY <1>3, RawsTyped
<1>6. SameBytes(Bytes(end.msgs), end.garbage \o rest, garbage, all)
  <2>1. SameBytes(Bytes(end.msgs), end.garbage \o rest,
                  garbage, SubSeq(all, 1, end.pos) \o rest)
    BY <1>3, <1>4, <1>5, GoesOn
  <2> QED
    BY <1>4, <2>1
<1>7. r = Finish(end, rest, final)
  BY DEF ReadImpl, ReadAll, all, end, rest
<1> HIDE DEF r
<1>8. CASE final
  <2> DEFINE left == end.garbage \o rest
  <2>1. left \in Seq(Byte) /\ <<>> \in Seq(Byte)
    BY <1>3, <1>4
  <2>2. r = [data |-> <<>>, garbage |-> <<>>, msgs |-> end.msgs \o Flushed(left)]
    BY <1>7, <1>8 DEF Finish
  <2> HIDE DEF left
  <2>3. Flushed(left) \in Seq(Return) /\ Bytes(Flushed(left)) = left
    BY <2>1, FlushedBytes
  <2>4. /\ end.msgs \o Flushed(left) \in Seq(Return)
        /\ Bytes(end.msgs \o Flushed(left)) = Bytes(end.msgs) \o left
    BY <1>3, <2>3, BytesConcat
  <2>5. Bytes(end.msgs \o Flushed(left)) \o (<<>> \o <<>>)
            = Bytes(end.msgs \o Flushed(left))
    <3>1. <<>> \o <<>> = <<>>
      BY <2>1, ConcatEmptySeq
    <3>2. Bytes(end.msgs \o Flushed(left)) \o <<>> = Bytes(end.msgs \o Flushed(left))
      BY <2>4, RawsTyped, ConcatEmptySeq
    <3> QED
      BY <3>1, <3>2
  <2>6. Bytes(end.msgs) \o left = garbage \o all
    BY <1>6 DEF SameBytes, left
  <2>7. /\ r.data = <<>> /\ r.garbage = <<>> /\ r.msgs = end.msgs \o Flushed(left)
        /\ r \in Result
    BY <2>1, <2>2, <2>4 DEF Result
  <2>8. Len(<<>>) < GarbageLimit
    BY GarbageLimitAssumption
  <2>9. SameBytes(Bytes(r.msgs), r.garbage \o r.data, garbage, all)
    BY <2>4, <2>5, <2>6, <2>7 DEF SameBytes
  <2> QED
    BY <2>7, <2>8, <2>9 DEF r, all
<1>9. CASE ~final
  <2>1. r = [data |-> rest, garbage |-> end.garbage, msgs |-> end.msgs]
    BY <1>7, <1>9 DEF Finish
  <2>2. /\ r \in Result /\ r.data = rest /\ r.garbage = end.garbage
        /\ r.msgs = end.msgs
    BY <1>3, <1>4, <2>1 DEF Result
  <2> QED
    BY <1>3, <1>6, <2>2 DEF r, all
<1> QED
  BY <1>8, <1>9

-----------------------------------------------------------------------------
(* Messages that are written are bytes.                                    *)

LEMMA RemainderIsByte ==
  ASSUME NEW n \in Int
  PROVE  n % Base \in Byte
<1>1. \A b \in Nat \ {0} : n % b \in 0..(b - 1)
  OBVIOUS
<1> QED
  BY <1>1, BaseAssumption DEF Byte

LEMMA ChecksumTyped ==
  ASSUME NEW bytes \in Seq(Byte)
  PROVE  Checksum(bytes) \in Byte
<1> DEFINE n     == Len(bytes)
           step  == [p \in Byte \X (1..n) |-> (p[1] + bytes[p[2]]) % Base]
           R(f)  == f = [i \in 0..n |-> IF i = 0 THEN 0 ELSE (f[i - 1] + bytes[i]) % Base]
           sum   == CHOOSE f : R(f)
<1>1. n \in Nat /\ \A i \in 1..n : bytes[i] \in Byte
  OBVIOUS
<1>2. 0 \in Byte /\ Byte \subseteq Int
  BY BaseAssumption DEF Byte
<1>3. \A a, b \in Byte : (a + b) % Base \in Byte
  <2>1. \A a, b \in Byte : a + b \in Int
    BY <1>2
  <2> QED
    BY <2>1, RemainderIsByte
<1>4. \A a \in Byte, i \in 1..n : step[<<a, i>>] = (a + bytes[i]) % Base
  OBVIOUS
<1>5. step \in [Byte \X (1..n) -> Byte]
  BY <1>1, <1>3
<1> HIDE DEF step
<1>6. PICK f : f \in Iterates(Byte, 0, step, n)
  BY <1>1, <1>2, <1>5, IteratesExist
<1>7. /\ f \in [0..n -> Byte]
      /\ f = [i \in 0..n |-> IF i = 0 THEN 0 ELSE step[<<f[i - 1], i>>]]
  BY <1>6 DEF Iterates
<1>8. ASSUME NEW i \in 0..n, i # 0
      PROVE  step[<<f[i - 1], i>>] = (f[i - 1] + bytes[i]) % Base
  <2>1. i \in 1..n /\ i - 1 \in 0..n
    BY <1>1, <1>8
  <2>2. f[i - 1] \in Byte
    <3>1. f \in [0..n -> Byte]
      BY <1>7
    <3> QED
      BY <2>1, <3>1
  <2> QED
    BY <1>4, <2>1, <2>2
<1>9. R(f)
  BY <1>7, <1>8
<1>10. R(sum)
  <2> HIDE DEF R
  <2> QED
    BY <1>9, Zenon
<1>11. Checksum(bytes) = sum[n]
  BY Zenon DEF Checksum
<1> HIDE DEF sum
<1> DEFINE T == { k \in Nat : k <= n => sum[k] \in Byte }
<1>12. 0 \in T
  BY <1>1, <1>2, <1>10
<1>13. ASSUME NEW k \in Nat, k \in T PROVE k + 1 \in T
  <2> SUFFICES ASSUME k + 1 <= n PROVE sum[k + 1] \in Byte
    OBVIOUS
  <2>1. sum[k] \in Byte /\ bytes[k + 1] \in Byte
    BY <1>1, <1>13
  <2>2. k + 1 \in 0..n /\ k + 1 # 0 /\ k + 1 - 1 = k
    BY <1>1
  <2>3. sum[k + 1] = (sum[k] + bytes[k + 1]) % Base
    BY <1>10, <2>2
  <2> QED
    BY <1>3, <2>1, <2>3
<1> HIDE DEF T
<1>14. Nat \subseteq T
  BY <1>12, <1>13, SetInduction
<1> QED
  BY <1>1, <1>11, <1>14 DEF T

LEMMA WriteImplTyped ==
  ASSUME NEW msg \in Outgoing
  PROVE  WriteImpl(msg) \in Seq(Byte)
<1> DEFINE body  == <<AllMessages[msg.type].id>> \o msg.payload
           data  == <<SyncPrefix, Len(body) % Base>> \o body \o <<0>>
           n     == Len(data)
           sized == [data EXCEPT ![2] = (n - 3) % Base]
<1>1. msg.type \in DOMAIN AllMessages /\ msg.payload \in Seq(Byte)
  BY OutgoingAssumption DEF MsgType
<1>2. AllMessages[msg.type].id \in Byte
  BY <1>1, TypeProperties
<1>3. body \in Seq(Byte) /\ Len(body) \in Int
  BY <1>1, <1>2
<1> HIDE DEF body
<1>4. Len(body) % Base \in Byte /\ SyncPrefix \in Byte /\ 0 \in Byte
  BY <1>3, RemainderIsByte, BaseAssumption DEF Byte
<1>5. data \in Seq(Byte) /\ n \in Nat /\ n >= 2
  BY <1>3, <1>4
<1>6. StackWrite(msg) = data
  BY DEF StackWrite, body
<1> HIDE DEF data
<1>7. (n - 3) % Base \in Byte
  BY <1>5, RemainderIsByte
<1>8. sized \in Seq(Byte) /\ Len(sized) = n
  BY <1>5, <1>7, ExceptSeq
<1> HIDE DEF sized
<1>9. SubSeq(sized, 2, n - 1) \in Seq(Byte)
  BY <1>5, <1>8
<1>10. Checksum(SubSeq(sized, 2, n - 1)) \in Byte
  BY <1>9, ChecksumTyped
<1>11. [sized EXCEPT ![n] = Checksum(SubSeq(sized, 2, n - 1))] \in Seq(Byte)
  BY <1>5, <1>8, <1>10, ExceptSeq
<1> QED
  BY <1>6, <1>11 DEF WriteImpl, StackUpdate, sized

-----------------------------------------------------------------------------
(* The invariant.                                                          *)

BytesTyped ==
    /\ m_data \in Seq(Byte)
    /\ m_garbage \in Seq(Byte)
    /\ Len(m_garbage) < GarbageLimit
    /\ wire \in Seq(Byte)
    /\ received \in Seq(Byte)
    /\ read \in Seq(Byte)

ListsTyped ==
    /\ sent \in Seq(MsgType)
    /\ typed \in Nat
    /\ reported \in Seq(Return)
    /\ recvList \in Seq(Return)
    /\ sendList \in Seq(Return)

Conserved == SameBytes(Bytes(reported), m_garbage \o m_data, read, <<>>)

IInv ==
    /\ around \in Surroundings
    /\ BytesTyped
    /\ ListsTyped
    /\ Conserved

LEMMA InitKeeps == Init => IInv
<1> SUFFICES ASSUME Init PROVE IInv
  OBVIOUS
<1>1. <<>> \in Seq(Byte) /\ <<>> \in Seq(MsgType) /\ <<>> \o <<>> = <<>> /\ Len(<<>>) = 0
  BY ConcatEmptySeq
<1>2. <<>> \in Seq(Return) /\ Bytes(<<>>) = <<>>
  BY BytesEmpty
<1>3. 0 < GarbageLimit
  BY GarbageLimitAssumption
<1>4. BytesTyped /\ ListsTyped
  BY <1>1, <1>2, <1>3 DEF Init, BytesTyped, ListsTyped
<1>5. Conserved
  BY <1>1, <1>2 DEF Init, Conserved, SameBytes
<1> QED
  BY <1>4, <1>5 DEF Init, IInv

Associate(b, g, x) == (b \o g) \o x = b \o (g \o x)

LEMMA AnyAssociate ==
  ASSUME NEW b \in Seq(Byte), NEW g \in Seq(Byte), NEW x \in Seq(Byte)
  PROVE  Associate(b, g, x)
BY Associates DEF Associate

(* What was accounted for before, and what a call accounts for.            *)
LEMMA TakesOver ==
  ASSUME NEW b \in Seq(Byte), NEW c \in Seq(Byte), NEW k \in Seq(Byte),
         NEW g \in Seq(Byte), NEW d \in Seq(Byte), NEW p \in Seq(Byte),
         NEW x \in Seq(Byte)
  PROVE  SameBytes(b, g \o d, p, <<>>) /\ SameBytes(c, k, g, d \o x)
            => SameBytes(b \o c, k, p \o x, <<>>)
<1> DEFINE gd == g \o d
<1>0. gd \in Seq(Byte) /\ p \o x \in Seq(Byte)
  OBVIOUS
<1>2. Associate(b, c, k) /\ Associate(g, d, x)
  BY AnyAssociate
<1>3. gd \o x = g \o (d \o x)
  BY <1>2 DEF Associate
<1> HIDE DEF gd
<1>4. Associate(b, gd, x)
  BY <1>0, AnyAssociate
<1>5. (p \o x) \o <<>> = p \o x /\ p \o <<>> = p
  BY <1>0, ConcatEmptySeq
<1>6. SUFFICES ASSUME SameBytes(b, gd, p, <<>>), SameBytes(c, k, g, d \o x)
               PROVE  SameBytes(b \o c, k, p \o x, <<>>)
  BY DEF gd
<1>7. b \o gd = p
  BY <1>5, <1>6 DEF SameBytes
<1>8. c \o k = gd \o x
  BY <1>3, <1>6 DEF SameBytes
<1> QED
  BY <1>2, <1>4, <1>5, <1>7, <1>8 DEF SameBytes, Associate

(* Bytes that read is given are accounted for by what it answers.          *)
LEMMA ReadKeeps ==
  ASSUME NEW chunk \in Seq(Byte), NEW final \in BOOLEAN, IInv,
         Read(chunk, ReadImpl(m_data, m_garbage, chunk, final))
  PROVE  /\ m_data' \in Seq(Byte) /\ m_garbage' \in Seq(Byte)
         /\ Len(m_garbage') < GarbageLimit
         /\ read' \in Seq(Byte) /\ reported' \in Seq(Return)
         /\ ReadImpl(m_data, m_garbage, chunk, final).msgs \in Seq(Return)
         /\ Conserved'
<1> DEFINE r == ReadImpl(m_data, m_garbage, chunk, final)
           b == Bytes(reported)
           c == Bytes(r.msgs)
<1>1. /\ m_data \in Seq(Byte) /\ m_garbage \in Seq(Byte) /\ Len(m_garbage) < GarbageLimit
      /\ read \in Seq(Byte) /\ reported \in Seq(Return)
      /\ Conserved
  BY DEF IInv, BytesTyped, ListsTyped
<1>2. /\ r \in Result /\ Len(r.garbage) < GarbageLimit
      /\ SameBytes(Bytes(r.msgs), r.garbage \o r.data, m_garbage, m_data \o chunk)
  BY <1>1, ReadImplKeeps
<1>3. /\ m_data' = r.data /\ m_garbage' = r.garbage
      /\ read' = read \o chunk /\ reported' = reported \o r.msgs
  BY Zenon DEF Read
<1> HIDE DEF r
<1>4. r.data \in Seq(Byte) /\ r.garbage \in Seq(Byte) /\ r.msgs \in Seq(Return)
  BY <1>2 DEF Result
<1>5. /\ b \in Seq(Byte) /\ c \in Seq(Byte)
      /\ reported \o r.msgs \in Seq(Return)
      /\ Bytes(reported \o r.msgs) = b \o c
  BY <1>1, <1>4, RawsTyped, BytesConcat
<1>6. read \o chunk \in Seq(Byte)
  BY <1>1
<1>7. SameBytes(b \o c, r.garbage \o r.data, read \o chunk, <<>>)
  <2>1. SameBytes(c, r.garbage \o r.data, m_garbage, m_data \o chunk)
    BY <1>2
  <2>2. SameBytes(b, m_garbage \o m_data, read, <<>>)
    BY <1>1 DEF Conserved
  <2> HIDE DEF b, c
  <2>3. r.garbage \o r.data \in Seq(Byte)
    BY <1>4
  <2> QED
    BY <1>1, <1>5, <2>1, <2>2, <2>3, TakesOver
<1>8. Conserved'
  <2>1. SameBytes(Bytes(reported \o r.msgs), r.garbage \o r.data, read \o chunk, <<>>)
    BY <1>5, <1>7
  <2>2. Conserved' = SameBytes(Bytes(reported'), m_garbage' \o m_data', read', <<>>)
    BY DEF Conserved, SameBytes, Bytes, Raws
  <2> QED
    BY <1>3, <2>1, <2>2
<1> QED
  BY <1>2, <1>3, <1>4, <1>5, <1>6, <1>8 DEF r

LEMMA SendKeeps ==
  ASSUME IInv, UNCHANGED around, Send
  PROVE  IInv'
<1>1. PICK msg \in Outgoing :
        /\ wire' = wire \o WriteImpl(msg)
        /\ sent' = Append(sent, msg)
        /\ UNCHANGED <<m_data, m_garbage, received, typed, read, reported,
                       recvList, sendList>>
  BY Zenon DEF Send
<1>2. WriteImpl(msg) \in Seq(Byte) /\ msg \in MsgType
  BY WriteImplTyped, OutgoingAssumption
<1>3. wire \in Seq(Byte) /\ sent \in Seq(MsgType)
  BY DEF IInv, BytesTyped, ListsTyped
<1>4. wire' \in Seq(Byte) /\ sent' \in Seq(MsgType)
  BY <1>1, <1>2, <1>3
<1> QED
  BY <1>1, <1>4 DEF IInv, BytesTyped, ListsTyped, Conserved, SameBytes, Bytes, Raws

LEMMA DisturbKeeps ==
  ASSUME IInv, UNCHANGED around, Disturb
  PROVE  IInv'
<1>1. /\ \E b \in around.noise : wire' = Append(wire, b)
      /\ UNCHANGED <<m_data, m_garbage, sent, received, typed, read, reported,
                     recvList, sendList>>
  BY Zenon DEF Disturb
<1>2. PICK b \in around.noise : wire' = Append(wire, b)
  BY <1>1
<1>3. b \in Byte /\ wire \in Seq(Byte)
  BY SurroundingsAssumption DEF IInv, BytesTyped
<1>4. wire' \in Seq(Byte)
  BY <1>2, <1>3
<1> QED
  BY <1>1, <1>4 DEF IInv, BytesTyped, ListsTyped, Conserved, SameBytes, Bytes, Raws

LEMMA ReceiveKeeps ==
  ASSUME IInv, UNCHANGED around, Receive
  PROVE  IInv'
<1>1. PICK n \in 1..Len(wire) :
        /\ ReceiveChunk(SubSeq(wire, 1, n),
                        ReadImpl(m_data, m_garbage, SubSeq(wire, 1, n), FALSE))
        /\ wire' = SubSeq(wire, n + 1, Len(wire))
        /\ UNCHANGED <<sent, typed, sendList>>
  BY Zenon DEF Receive
<1> DEFINE chunk == SubSeq(wire, 1, n)
           r     == ReadImpl(m_data, m_garbage, chunk, FALSE)
<1>2. wire \in Seq(Byte) /\ received \in Seq(Byte) /\ recvList \in Seq(Return)
  BY DEF IInv, BytesTyped, ListsTyped
<1>3. chunk \in Seq(Byte) /\ SubSeq(wire, n + 1, Len(wire)) \in Seq(Byte)
  BY <1>2
<1>4. /\ Read(chunk, r) /\ recvList' = recvList \o r.msgs
      /\ received' = received \o chunk
  BY <1>1, Zenon DEF ReceiveChunk
<1> HIDE DEF chunk
<1>5. /\ m_data' \in Seq(Byte) /\ m_garbage' \in Seq(Byte)
      /\ Len(m_garbage') < GarbageLimit
      /\ read' \in Seq(Byte) /\ reported' \in Seq(Return)
      /\ r.msgs \in Seq(Return)
      /\ Conserved'
  BY <1>3, <1>4, ReadKeeps
<1> HIDE DEF r
<1>6. received' \in Seq(Byte) /\ recvList' \in Seq(Return)
  BY <1>2, <1>3, <1>4, <1>5
<1> QED
  BY <1>1, <1>3, <1>5, <1>6 DEF IInv, BytesTyped, ListsTyped

LEMMA AcceptRawDataKeeps ==
  ASSUME IInv, UNCHANGED around, AcceptRawData
  PROVE  IInv'
<1>1. /\ \E input \in around.typed :
            AcceptInput(input, ReadImpl(m_data, m_garbage, input, TRUE))
      /\ UNCHANGED <<wire, sent, received, recvList>>
  BY Zenon DEF AcceptRawData
<1>2. PICK input \in around.typed :
        AcceptInput(input, ReadImpl(m_data, m_garbage, input, TRUE))
  BY <1>1
<1> DEFINE r == ReadImpl(m_data, m_garbage, input, TRUE)
<1>3. input \in Seq(Byte) /\ sendList \in Seq(Return) /\ typed \in Nat
  BY SurroundingsAssumption DEF IInv, ListsTyped
<1>4. Read(input, r) /\ sendList' = sendList \o r.msgs /\ typed' = typed + 1 + Len(input)
  BY <1>2, Zenon DEF AcceptInput
<1>5. /\ m_data' \in Seq(Byte) /\ m_garbage' \in Seq(Byte)
      /\ Len(m_garbage') < GarbageLimit
      /\ read' \in Seq(Byte) /\ reported' \in Seq(Return)
      /\ r.msgs \in Seq(Return)
      /\ Conserved'
  BY <1>3, <1>4, ReadKeeps
<1> HIDE DEF r
<1>6. sendList' \in Seq(Return) /\ typed' \in Nat
  BY <1>3, <1>4, <1>5
<1> QED
  BY <1>1, <1>5, <1>6 DEF IInv, BytesTyped, ListsTyped

LEMMA NextKeeps == IInv /\ [Next]_vars => IInv'
<1> SUFFICES ASSUME IInv, [Next]_vars PROVE IInv'
  OBVIOUS
<1>1. CASE UNCHANGED vars
  BY <1>1 DEF vars, IInv, BytesTyped, ListsTyped, Conserved, SameBytes, Bytes, Raws
<1>2. CASE UNCHANGED around /\ Send
  BY <1>2, SendKeeps
<1>3. CASE UNCHANGED around /\ Disturb
  BY <1>3, DisturbKeeps
<1>4. CASE UNCHANGED around /\ Receive
  BY <1>4, ReceiveKeeps
<1>5. CASE UNCHANGED around /\ AcceptRawData
  BY <1>5, AcceptRawDataKeeps
<1> QED
  BY <1>1, <1>2, <1>3, <1>4, <1>5 DEF Next

(* The conserved bytes, in the words of the property.                      *)
LEMMA IInvConserves == IInv => TypeOK /\ ByteConservation
<1> SUFFICES ASSUME IInv PROVE TypeOK /\ ByteConservation
  OBVIOUS
<1>1. /\ m_data \in Seq(Byte) /\ m_garbage \in Seq(Byte) /\ read \in Seq(Byte)
      /\ reported \in Seq(Return)
  BY DEF IInv, BytesTyped, ListsTyped
<1>2. Bytes(reported) \in Seq(Byte)
  BY <1>1, RawsTyped
<1>3. Bytes(reported) \o (m_garbage \o m_data) = read
  <2>1. Bytes(reported) \o (m_garbage \o m_data) = read \o <<>>
    BY DEF IInv, Conserved, SameBytes
  <2> QED
    BY <1>1, <2>1, ConcatEmptySeq
<1>4. (Bytes(reported) \o m_garbage) \o m_data
        = Bytes(reported) \o (m_garbage \o m_data)
  BY <1>1, <1>2, ConcatAssociative
<1>5. ByteConservation
  BY <1>3, <1>4 DEF ByteConservation, Bytes, Raws
<1>6. TypeOK
  BY DEF IInv, BytesTyped, ListsTyped, TypeOK, Reported, Return
<1> QED
  BY <1>5, <1>6

(* The invariant holds whatever the wire carries, wherever it is cut, and  *)
(* whenever somebody types raw data in.                                    *)
THEOREM StreamInvariance == Spec => []IInv
<1>1. Init => IInv
  BY InitKeeps
<1>2. IInv /\ [Next]_vars => IInv'
  BY NextKeeps
<1> QED
  BY <1>1, <1>2, PTL DEF Spec

(* Bytes stay bytes, and the garbage kept back is below its limit.         *)
THEOREM StreamTypesCorrect == Spec => []TypeOK
<1>1. IInv => TypeOK
  BY IInvConserves
<1> QED
  BY <1>1, StreamInvariance, PTL

(* ProtocolBase::read loses, duplicates and reorders no byte.              *)
THEOREM BytesAreConserved == Spec => []ByteConservation
<1>1. IInv => ByteConservation
  BY IInvConserves
<1> QED
  BY <1>1, StreamInvariance, PTL

-----------------------------------------------------------------------------
(* What the stack has decided does not change when more bytes arrive.      *)

LEMMA MoreBytes ==
  ASSUME NEW s \in Seq(Byte), NEW x \in Seq(Byte)
  PROVE  /\ s \o x \in Seq(Byte) /\ Len(s \o x) = Len(s) + Len(x)
         /\ \A i \in 1..Len(s) : (s \o x)[i] = s[i]
         /\ \A i \in 1..Len(x) : (s \o x)[Len(s) + i] = x[i]
         /\ Len(s) \in Nat /\ Len(x) \in Nat
OBVIOUS

LEMMA SameRange ==
  ASSUME NEW s \in Seq(Byte), NEW x \in Seq(Byte),
         NEW i \in Nat, NEW j \in Nat, 1 <= i, j <= Len(s)
  PROVE  SubSeq(s \o x, i, j) = SubSeq(s, i, j)
<1> DEFINE t == s \o x
<1>1. t \in Seq(Byte) /\ Len(s) <= Len(t) /\ Len(s) \in Nat /\ Len(t) \in Nat
      /\ \A k \in 1..Len(s) : t[k] = s[k]
  BY MoreBytes
<1> HIDE DEF t
<1>2. /\ SubSeq(t, i, j) = [k \in 1..(j - i + 1) |-> t[i + k - 1]]
      /\ SubSeq(s, i, j) = [k \in 1..(j - i + 1) |-> s[i + k - 1]]
  BY <1>1
<1>3. \A k \in 1..(j - i + 1) : i + k - 1 \in 1..Len(s)
  BY <1>1
<1> QED
  BY <1>1, <1>2, <1>3 DEF t

(* The range behind a position goes on with what is appended.              *)
LEMMA RangeGoesOn ==
  ASSUME NEW s \in Seq(Byte), NEW x \in Seq(Byte), NEW i \in Nat,
         1 <= i, i <= Len(s) + 1
  PROVE  SubSeq(s \o x, i, Len(s \o x)) = SubSeq(s, i, Len(s)) \o x
<1> DEFINE t == s \o x
           n == Len(s)
           m == Len(x)
           a == SubSeq(s, i, n)
           l == SubSeq(t, i, n + m)
<1>1. /\ t \in Seq(Byte) /\ Len(t) = n + m /\ n \in Nat /\ m \in Nat
      /\ \A k \in 1..n : t[k] = s[k]
      /\ \A k \in 1..m : t[n + k] = x[k]
      /\ 1 <= i /\ i <= n + 1
  BY MoreBytes
<1> HIDE DEF t, n, m
<1>2. a \in Seq(Byte) /\ Len(a) = n - i + 1
      /\ \A k \in 1..(n - i + 1) : a[k] = s[i + k - 1]
  BY <1>1 DEF n
<1>3. /\ l \in Seq(Byte) /\ Len(l) = n + m - i + 1
      /\ \A k \in 1..(n + m - i + 1) : l[k] = t[i + k - 1]
  BY <1>1 DEF n
<1> HIDE DEF a, l
<1>4. /\ a \o x \in Seq(Byte) /\ Len(a \o x) = Len(a) + m
      /\ \A k \in 1..Len(a) : (a \o x)[k] = a[k]
      /\ \A k \in 1..m : (a \o x)[Len(a) + k] = x[k]
  BY <1>2, MoreBytes DEF m
<1>5. ASSUME NEW k \in 1..Len(l) PROVE l[k] = (a \o x)[k]
  <2>0. k \in Nat /\ 1 <= k /\ k <= n + m - i + 1 /\ l[k] = t[i + k - 1]
    BY <1>1, <1>3
  <2>1. CASE k <= n - i + 1
    <3>1. k \in 1..(n - i + 1) /\ i + k - 1 \in 1..n
      BY <1>1, <2>0, <2>1
    <3>2. a[k] = s[i + k - 1] /\ t[i + k - 1] = s[i + k - 1] /\ (a \o x)[k] = a[k]
      BY <1>1, <1>2, <1>4, <3>1
    <3> QED
      BY <2>0, <3>2
  <2>2. CASE k > n - i + 1
    <3> DEFINE o == k - (n - i + 1)
    <3>1. o \in 1..m /\ k = Len(a) + o /\ i + k - 1 = n + o
      BY <1>1, <1>2, <2>0, <2>2
    <3> HIDE DEF o
    <3>2. t[n + o] = x[o] /\ (a \o x)[Len(a) + o] = x[o]
      BY <1>1, <1>4, <3>1
    <3> QED
      BY <2>0, <3>1, <3>2
  <2>3. k <= n - i + 1 \/ k > n - i + 1
    BY <1>1, <2>0
  <2> QED
    BY <2>1, <2>2, <2>3
<1>6. l = a \o x
  <2>1. Len(l) = Len(a \o x)
    BY <1>1, <1>2, <1>3, <1>4
  <2> QED
    BY <1>3, <1>4, <1>5, <2>1, SeqEqual
<1> QED
  BY <1>1, <1>6 DEF a, l, t, n

(* An answer after which more bytes are no matter.                         *)
Decided(r) == r.es # "NotEnoughData"

LEMMA FailureIs ==
  ASSUME NEW es, NEW consumed
  PROVE  Failure(es, consumed).es = es /\ Failure(es, consumed).consumed = consumed
BY DEF Failure

LEMMA MsgSizeReadStays ==
  ASSUME NEW s \in Seq(Byte), NEW x \in Seq(Byte), Decided(MsgSizeRead(s))
  PROVE  /\ MsgSizeRead(s \o x) = MsgSizeRead(s)
         /\ MsgSizeRead(s).es # "ProtocolError" => MsgSizeRead(s).consumed \in 1..Len(s)
<1>1. s # <<>> /\ ~(Len(s) - 1 < s[1])
  BY FailureIs DEF MsgSizeRead, Decided
<1>2. s[1] \in Nat /\ Len(s) \in Nat /\ s[1] + 1 <= Len(s) /\ 1 \in 1..Len(s)
  <2>1. s[1] \in Byte /\ Len(s) \in Nat
    BY <1>1
  <2>2. s[1] \in Nat
    BY <2>1, ByteIsNat
  <2> QED
    BY <1>1, <2>1, <2>2
<1> DEFINE next == MsgIdRead(SubSeq(s, 2, s[1] + 1))
<1>3. MsgSizeRead(s) = Sized(next, s[1])
  BY <1>1, Zenon DEF MsgSizeRead
<1>4. /\ s \o x # <<>> /\ (s \o x)[1] = s[1] /\ ~(Len(s \o x) - 1 < s[1])
      /\ SubSeq(s \o x, 2, s[1] + 1) = SubSeq(s, 2, s[1] + 1)
  <2>1. SubSeq(s \o x, 2, s[1] + 1) = SubSeq(s, 2, s[1] + 1)
    BY <1>2, SameRange
  <2>2. (s \o x)[1] = s[1] /\ Len(s \o x) = Len(s) + Len(x) /\ Len(x) \in Nat
    BY <1>2, MoreBytes
  <2>3. s \o x # <<>>
    BY <1>2, <2>2
  <2> QED
    BY <1>2, <2>1, <2>2, <2>3
<1>5. MsgSizeRead(s \o x) = Sized(next, s[1])
  BY <1>4, Zenon DEF MsgSizeRead
<1>6. next \in Answer
  <2>1. SubSeq(s, 2, s[1] + 1) \in Seq(Byte)
    BY <1>2
  <2> QED
    BY <2>1, MsgIdReadTyped
<1> HIDE DEF next
<1>7. Sized(next, s[1]).es # "ProtocolError" =>
        Sized(next, s[1]).consumed = 1 + s[1]
  BY <1>6, FailureIs DEF Sized, Answer
<1> QED
  BY <1>2, <1>3, <1>5, <1>7

LEMMA ChecksumReadStays ==
  ASSUME NEW s \in Seq(Byte), NEW x \in Seq(Byte), Decided(ChecksumRead(s))
  PROVE  ChecksumRead(s \o x) = ChecksumRead(s)
<1> DEFINE next == MsgSizeRead(s)
<1>1. /\ ChecksumRead(s) = Verified(next, s)
      /\ ChecksumRead(s \o x) = Verified(MsgSizeRead(s \o x), s \o x)
  BY DEF ChecksumRead
<1>2. Decided(next) /\ next \in Answer
  BY <1>1, MsgSizeReadTyped DEF Verified, Decided
<1>3. /\ MsgSizeRead(s \o x) = next
      /\ next.es # "ProtocolError" => next.consumed \in 1..Len(s)
  BY <1>2, MsgSizeReadStays
<1> HIDE DEF next
<1>4. CASE next.es = "ProtocolError"
  BY <1>1, <1>3, <1>4 DEF Verified
<1>5. CASE next.es # "ProtocolError"
  <2> DEFINE c == next.consumed
  <2>1. next.es \notin {"NotEnoughData", "ProtocolError"} /\ c \in 1..Len(s)
    BY <1>2, <1>3, <1>5 DEF Decided
  <2>2. Len(s) # c
    BY <1>1, <2>1, FailureIs DEF Verified, Decided
  <2>3. c + 1 \in 1..Len(s) /\ c \in Nat /\ 1 <= c /\ c <= Len(s) /\ Len(s) \in Nat
    BY <2>1, <2>2
  <2> HIDE DEF c
  <2>4. (s \o x)[c + 1] = s[c + 1]
    BY <2>3, MoreBytes
  <2>5. Len(s \o x) = Len(s) + Len(x) /\ Len(x) \in Nat
    BY MoreBytes
  <2>6. Len(s \o x) # c
    BY <2>3, <2>5
  <2>7. SubSeq(s \o x, 1, c) = SubSeq(s, 1, c)
    BY <2>3, SameRange
  <2>8. ~(next.es \in {"NotEnoughData", "ProtocolError"})
    BY <2>1
  <2> DEFINE answer(u) ==
           IF Len(u) = c THEN Failure("NotEnoughData", Len(u))
           ELSE IF u[c + 1] # Checksum(SubSeq(u, 1, c))
           THEN Failure("ProtocolError", c + 1)
           ELSE [next EXCEPT !.consumed = @ + 1]
  <2>9. \A u : Verified(next, u) = answer(u)
    BY <2>8, Zenon DEF Verified, c
  <2>10. answer(s \o x) = answer(s)
    BY <2>2, <2>4, <2>6, <2>7
  <2> HIDE DEF answer
  <2> QED
    BY <1>1, <1>3, <2>9, <2>10
<1> QED
  BY <1>4, <1>5

LEMMA StackReadStays ==
  ASSUME NEW s \in Seq(Byte), NEW x \in Seq(Byte), Decided(StackRead(s))
  PROVE  StackRead(s \o x) = StackRead(s)
<1>1. s # <<>>
  BY FailureIs DEF StackRead, Decided
<1>2. 1 \in 1..Len(s) /\ Len(s) \in Nat
  BY <1>1
<1>3. (s \o x)[1] = s[1] /\ s \o x # <<>>
  <2>1. (s \o x)[1] = s[1] /\ Len(s \o x) = Len(s) + Len(x) /\ Len(x) \in Nat
    BY <1>2, MoreBytes
  <2> QED
    BY <1>2, <2>1
<1>4. CASE s[1] # SyncPrefix
  BY <1>1, <1>3, <1>4 DEF StackRead
<1>5. CASE s[1] = SyncPrefix
  <2> DEFINE next == ChecksumRead(Tail(s))
  <2>1. Tail(s) \in Seq(Byte) /\ Tail(s \o x) = Tail(s) \o x
    <3>1. Tail(s) = SubSeq(s, 2, Len(s)) /\ Tail(s) \in Seq(Byte)
      BY <1>1
    <3>2. Tail(s \o x) = SubSeq(s \o x, 2, Len(s \o x))
      <4>1. s \o x \in Seq(Byte)
        BY MoreBytes
      <4> QED
        BY <1>3, <4>1
    <3>3. SubSeq(s \o x, 2, Len(s \o x)) = SubSeq(s, 2, Len(s)) \o x
      BY <1>2, RangeGoesOn
    <3> QED
      BY <3>1, <3>2, <3>3
  <2>2. StackRead(s) = [next EXCEPT !.consumed = @ + 1]
    BY <1>1, <1>5, Zenon DEF StackRead
  <2>3. next \in Answer
    BY <2>1, ChecksumReadTyped
  <2>4. Decided(next)
    <3> HIDE DEF next
    <3> QED
      BY <2>2, <2>3 DEF Decided, Answer
  <2>5. ChecksumRead(Tail(s \o x)) = next
    BY <2>1, <2>4, ChecksumReadStays
  <2>6. StackRead(s \o x) = [ChecksumRead(Tail(s \o x)) EXCEPT !.consumed = @ + 1]
    BY <1>3, <1>5, Zenon DEF StackRead
  <2> QED
    BY <2>2, <2>5, <2>6
<1> QED
  BY <1>4, <1>5

-----------------------------------------------------------------------------
(* Where the loop stops, and how far it gets.                              *)

(* There is nothing more to be made of the data.                           *)
Stops(st, data) ==
    Rest(st, data) = <<>> \/ ~Decided(StackRead(Rest(st, data)))

LEMMA StateFacts ==
  ASSUME NEW garbage, NEW data \in Seq(Byte), NEW st \in Good(garbage, data)
  PROVE  /\ st.pos \in 0..Len(data) /\ st.garbage \in Seq(Byte) /\ st.msgs \in Seq(Return)
         /\ st.done \in BOOLEAN /\ st \in LoopState(data) /\ Len(st.garbage) < GarbageLimit
         /\ Rest(st, data) \in Seq(Byte) /\ Len(Rest(st, data)) = Len(data) - st.pos
         /\ Len(data) \in Nat
<1>1. st \in LoopState(data) /\ Len(st.garbage) < GarbageLimit
  BY DEF Good
<1>2. /\ st.pos \in 0..Len(data) /\ st.garbage \in Seq(Byte) /\ st.msgs \in Seq(Return)
      /\ st.done \in BOOLEAN
  BY <1>1 DEF LoopState
<1>3. Len(data) \in Nat
  OBVIOUS
<1>4. Rest(st, data) \in Seq(Byte) /\ Len(Rest(st, data)) = Len(data) - st.pos
  BY <1>2, <1>3 DEF Rest
<1> QED
  BY <1>1, <1>2, <1>3, <1>4

Ended(st) == [st EXCEPT !.done = TRUE]

(* A step either ends the loop, and the position stays, or goes on.        *)
LEMMA StepMoves ==
  ASSUME NEW garbage \in Seq(Byte), NEW data \in Seq(Byte),
         NEW st \in Good(garbage, data), ~st.done
  PROVE  /\ Stops(st, data) => StepOn(st, data) = Ended(st)
         /\ ~Stops(st, data) =>
              /\ StepOn(st, data).pos > st.pos
              /\ StepOn(st, data).done = FALSE
<1> DEFINE rest == Rest(st, data)
           r    == StackRead(rest)
<1>1. /\ st.pos \in 0..Len(data) /\ st \in LoopState(data)
      /\ rest \in Seq(Byte) /\ Len(rest) = Len(data) - st.pos /\ Len(data) \in Nat
  BY StateFacts
<1>2. r \in Answer /\ Within(r, rest)
  BY <1>1, StackReadTyped
<1>3. StepOn(st, data) = ReadStep(st, rest, r)
  BY DEF StepOn
<1>4. Stops(st, data) <=> (rest = <<>> \/ r.es = "NotEnoughData")
  BY DEF Stops, Decided
<1> HIDE DEF r, rest
<1>5. CASE Stops(st, data)
  BY <1>3, <1>4, <1>5 DEF ReadStep, Ended
<1>6. CASE ~Stops(st, data) /\ Takes(r)
  <2> DEFINE raw == SubSeq(rest, 1, r.consumed)
  <2>1. ReadStep(st, rest, r) = Taken(st, raw, r.msg)
    BY <1>4, <1>6 DEF ReadStep, Takes
  <2>2. r.consumed \in 1..Len(rest)
    BY <1>2, <1>6 DEF Within
  <2>3. Len(raw) \in Nat /\ Len(raw) >= 1
    BY <1>1, <2>2
  <2> HIDE DEF raw
  <2>4. /\ Taken(st, raw, r.msg).pos = st.pos + Len(raw)
        /\ Taken(st, raw, r.msg).done = st.done
    BY <1>1 DEF Taken, LoopState
  <2>5. st.done = FALSE /\ st.pos \in Nat
    BY <1>1 DEF LoopState
  <2> QED
    BY <1>3, <1>6, <2>1, <2>3, <2>4, <2>5
<1>7. CASE ~Stops(st, data) /\ ~Takes(r)
  <2>1. ReadStep(st, rest, r) = Dropped(st, rest[1])
    BY <1>4, <1>7 DEF ReadStep, Takes
  <2>2. /\ Dropped(st, rest[1]).pos = st.pos + 1
        /\ Dropped(st, rest[1]).done = st.done
    BY <1>1 DEF Dropped, LoopState
  <2>3. st.done = FALSE /\ st.pos \in Nat
    BY <1>1 DEF LoopState
  <2> QED
    BY <1>3, <1>7, <2>1, <2>2, <2>3
<1> QED
  BY <1>5, <1>6, <1>7

(* As many steps as there are bytes, and one, are enough.                  *)
LEMMA CourseEnds ==
  ASSUME NEW garbage \in Seq(Byte), NEW data \in Seq(Byte),
         NEW f \in Course(garbage, data)
  PROVE  /\ \A i \in 0..(Len(data) + 1) :
              /\ f[i].done => Stops(f[i], data)
              /\ ~f[i].done => f[i].pos >= i
         /\ f[Len(data) + 1].done
<1> DEFINE n == Len(data) + 1
           Fine(i) == /\ f[i].done => Stops(f[i], data)
                      /\ ~f[i].done => f[i].pos >= i
           T == { k \in Nat : k <= n => Fine(k) }
<1>1. /\ n \in Nat /\ \A i \in 0..n : f[i] \in Good(garbage, data)
      /\ f[0] = Begin(garbage) /\ \A i \in 1..n : f[i] = StepOn(f[i - 1], data)
  <2>1. n \in Nat
    OBVIOUS
  <2>2. /\ f \in [0..n -> Good(garbage, data)] /\ f[0] = Begin(garbage)
        /\ \A i \in 1..n : f[i] = StepOn(f[i - 1], data)
    BY DEF Course
  <2> HIDE DEF n
  <2> QED
    BY <2>1, <2>2
<1>2. 0 \in T
  BY <1>1 DEF Begin
<1>3. ASSUME NEW k \in Nat, k \in T PROVE k + 1 \in T
  <2> SUFFICES ASSUME k + 1 <= n PROVE Fine(k + 1)
    OBVIOUS
  <2>0. PICK st : st = f[k]
    OBVIOUS
  <2>1. /\ k \in 0..n /\ k + 1 \in 1..n /\ k + 1 - 1 = k /\ Fine(k)
        /\ k + 1 \in 0..n
    BY <1>1, <1>3
  <2>2. f[k + 1] = StepOn(st, data) /\ st \in Good(garbage, data)
        /\ f[k + 1] \in Good(garbage, data)
    BY <1>1, <2>0, <2>1
  <2>3. CASE st.done
    <3>1. f[k + 1] = f[k]
      BY <2>0, <2>2, <2>3 DEF StepOn
    <3> QED
      BY <2>0, <2>1, <2>3, <3>1
  <2>4. CASE ~st.done /\ Stops(st, data)
    <3>1. f[k + 1] = Ended(st)
      BY <2>2, <2>4, StepMoves
    <3>2. st \in LoopState(data)
      BY <2>2, StateFacts
    <3>3. f[k + 1].pos = st.pos /\ f[k + 1].done = TRUE
      BY <3>1, <3>2 DEF LoopState, Ended
    <3>4. Stops(f[k + 1], data)
      BY <2>4, <3>3 DEF Stops, Rest
    <3> QED
      BY <3>3, <3>4
  <2>5. CASE ~st.done /\ ~Stops(st, data)
    <3>1. f[k + 1].pos > st.pos /\ f[k + 1].done = FALSE
      BY <2>2, <2>5, StepMoves
    <3>2. st.pos \in Nat /\ f[k + 1].pos \in Nat
      BY <2>2, StateFacts
    <3> QED
      BY <2>0, <2>1, <2>5, <3>1, <3>2
  <2> QED
    BY <2>3, <2>4, <2>5
<1> HIDE DEF T
<1>4. Nat \subseteq T
  BY <1>2, <1>3, SetInduction
<1>5. \A i \in 0..n : Fine(i)
  BY <1>1, <1>4 DEF T
<1>6. f[n].done
  <2>1. n \in 0..n /\ f[n] \in Good(garbage, data)
    BY <1>1
  <2>2. f[n].pos \in 0..Len(data) /\ Len(data) \in Nat
    BY <2>1, StateFacts
  <2> QED
    BY <1>5, <2>1, <2>2
<1> QED
  BY <1>5, <1>6

(* What is done stays as it is.                                            *)
LEMMA DoneStays ==
  ASSUME NEW garbage \in Seq(Byte), NEW data \in Seq(Byte),
         NEW f \in Course(garbage, data),
         NEW i \in 0..(Len(data) + 1), f[i].done
  PROVE  ReadLoop(garbage, data) = f[i]
<1> DEFINE n == Len(data) + 1
           T == { k \in Nat : i + k <= n => f[i + k] = f[i] }
<1>1. /\ n \in Nat /\ i \in Nat /\ i <= n
      /\ \A j \in 1..n : f[j] = StepOn(f[j - 1], data)
      /\ ReadLoop(garbage, data) = f[n]
  BY DEF Course
<1>2. 0 \in T
  BY <1>1
<1>3. ASSUME NEW k \in Nat, k \in T PROVE k + 1 \in T
  <2> SUFFICES ASSUME i + (k + 1) <= n PROVE f[i + (k + 1)] = f[i]
    OBVIOUS
  <2>1. i + (k + 1) \in 1..n /\ i + (k + 1) - 1 = i + k /\ i + k <= n
    BY <1>1
  <2>2. f[i + k] = f[i]
    BY <1>3, <2>1
  <2>3. f[i + (k + 1)] = StepOn(f[i + k], data)
    BY <1>1, <2>1
  <2> QED
    BY <2>2, <2>3 DEF StepOn
<1> HIDE DEF T
<1>4. Nat \subseteq T
  BY <1>2, <1>3, SetInduction
<1>5. PICK d \in Nat : i + d = n
  <2>1. n - i \in Nat /\ i + (n - i) = n
    BY <1>1
  <2> QED
    BY <2>1
<1>6. d \in T
  BY <1>4, <1>5
<1> HIDE DEF n
<1>7. f[i + d] = f[i]
  BY <1>1, <1>5, <1>6 DEF T
<1> QED
  BY <1>1, <1>5, <1>7

-----------------------------------------------------------------------------
(* However much data there is, the loop begins as it would with less of it.*)

LEMMA RestGoesOn ==
  ASSUME NEW data \in Seq(Byte), NEW x \in Seq(Byte), NEW st, st.pos \in 0..Len(data)
  PROVE  Rest(st, data \o x) = Rest(st, data) \o x
<1> DEFINE i == st.pos + 1
<1>1. i \in Nat /\ 1 <= i /\ i <= Len(data) + 1
  OBVIOUS
<1> HIDE DEF i
<1>2. SubSeq(data \o x, i, Len(data \o x)) = SubSeq(data, i, Len(data)) \o x
  BY <1>1, RangeGoesOn
<1> QED
  BY <1>2 DEF Rest, i

LEMMA StepGoesOn ==
  ASSUME NEW garbage \in Seq(Byte), NEW data \in Seq(Byte), NEW x \in Seq(Byte),
         NEW st \in Good(garbage, data), ~st.done, ~Stops(st, data)
  PROVE  StepOn(st, data \o x) = StepOn(st, data)
<1> DEFINE rest == Rest(st, data)
           more == rest \o x
           r    == StackRead(rest)
<1>1. /\ st.pos \in 0..Len(data) /\ rest \in Seq(Byte)
  BY StateFacts
<1>2. Rest(st, data \o x) = more
  BY <1>1, RestGoesOn
<1>3. rest # <<>> /\ Decided(r)
  BY DEF Stops
<1>4. StackRead(more) = r /\ r \in Answer /\ Within(r, rest)
  BY <1>1, <1>3, StackReadStays, StackReadTyped
<1>5. StepOn(st, data) = ReadStep(st, rest, r) /\ StepOn(st, data \o x) = ReadStep(st, more, r)
  BY <1>2, <1>4 DEF StepOn
<1>6. 1 \in 1..Len(rest) /\ Len(rest) \in Nat
  BY <1>1, <1>3
<1>7. more # <<>> /\ more[1] = rest[1]
  <2>1. Len(more) = Len(rest) + Len(x) /\ Len(x) \in Nat /\ more[1] = rest[1]
    BY <1>1, <1>6, MoreBytes
  <2> QED
    BY <1>6, <2>1
<1>8. Takes(r) => SubSeq(more, 1, r.consumed) = SubSeq(rest, 1, r.consumed)
  <2> SUFFICES ASSUME Takes(r) PROVE SubSeq(more, 1, r.consumed) = SubSeq(rest, 1, r.consumed)
    OBVIOUS
  <2> DEFINE c == r.consumed
  <2>1. c \in Nat /\ c <= Len(rest)
    BY <1>4, <1>6 DEF Within
  <2> HIDE DEF c, rest
  <2>2. SubSeq(more, 1, c) = SubSeq(rest, 1, c)
    BY <1>1, <2>1, SameRange
  <2> QED
    BY <2>2 DEF c
<1> HIDE DEF rest, more, r
<1>9. ReadStep(st, rest, r) = ReadStep(st, more, r)
  BY <1>3, <1>7, <1>8 DEF ReadStep, Takes, Decided
<1> QED
  BY <1>5, <1>9

Live(st) == [st EXCEPT !.done = FALSE]

(* With more data the loop gets to where it would end with less of it.     *)
LEMMA GetsThere ==
  ASSUME NEW garbage \in Seq(Byte), NEW data \in Seq(Byte), NEW x \in Seq(Byte),
         NEW a \in Course(garbage, data), NEW w \in Course(garbage, data \o x)
  PROVE  \E k \in 0..(Len(data) + 1) : w[k] = Live(a[Len(data) + 1])
<1> DEFINE n == Len(data) + 1
           all == data \o x
           T == { i \in Nat : i <= n => \E k \in 0..i : w[k] = Live(a[i]) }
<1>1. /\ n \in Nat /\ \A i \in 0..n : a[i] \in Good(garbage, data)
      /\ a[0] = Begin(garbage) /\ \A i \in 1..n : a[i] = StepOn(a[i - 1], data)
  <2>1. n \in Nat
    OBVIOUS
  <2>2. /\ a \in [0..n -> Good(garbage, data)] /\ a[0] = Begin(garbage)
        /\ \A i \in 1..n : a[i] = StepOn(a[i - 1], data)
    BY DEF Course
  <2> HIDE DEF n
  <2> QED
    BY <2>1, <2>2
<1>2. /\ w[0] = Begin(garbage)
      /\ \A i \in 1..n : w[i] = StepOn(w[i - 1], all)
  <2>1. /\ w[0] = Begin(garbage)
        /\ \A i \in 1..(Len(all) + 1) : w[i] = StepOn(w[i - 1], all)
    BY DEF Course
  <2>2. Len(all) = Len(data) + Len(x) /\ Len(x) \in Nat /\ Len(data) \in Nat
    BY MoreBytes
  <2> HIDE DEF all
  <2>3. \A i \in 1..n : i \in 1..(Len(all) + 1)
    BY <2>2
  <2> QED
    BY <2>1, <2>3
<1> HIDE DEF n, all
<1>3. 0 \in T
  <2>0. a[0] \in LoopState(data) /\ a[0].done = FALSE
    <3>1. 0 \in 0..n
      BY <1>1
    <3>2. a[0] \in LoopState(data)
      BY <1>1, <3>1, StateFacts
    <3> QED
      BY <1>1, <3>2 DEF Begin
  <2>1. Live(a[0]) = a[0]
    BY <2>0 DEF LoopState, Live
  <2>2. w[0] = Live(a[0])
    BY <1>1, <1>2, <2>1
  <2> QED
    BY <2>2
<1>4. ASSUME NEW i \in Nat, i \in T PROVE i + 1 \in T
  <2> SUFFICES ASSUME i + 1 <= n PROVE \E k \in 0..(i + 1) : w[k] = Live(a[i + 1])
    OBVIOUS
  <2>0. PICK st : st = a[i]
    OBVIOUS
  <2>1. /\ i \in 0..n /\ i + 1 \in 1..n /\ i + 1 - 1 = i /\ i <= n
    BY <1>1
  <2>2. PICK k \in 0..i : w[k] = Live(st)
    BY <1>4, <2>0, <2>1
  <2>3. a[i + 1] = StepOn(st, data) /\ st \in Good(garbage, data)
    BY <1>1, <2>0, <2>1
  <2>4. st \in LoopState(data)
    BY <2>3, StateFacts
  <2>5. CASE st.done
    <3>1. a[i + 1] = st
      BY <2>3, <2>5 DEF StepOn
    <3> QED
      BY <2>2, <3>1
  <2>6. CASE ~st.done /\ Stops(st, data)
    <3>1. a[i + 1] = Ended(st)
      BY <2>3, <2>6, StepMoves
    <3>2. Live(Ended(st)) = Live(st)
      BY <2>4 DEF Live, Ended, LoopState
    <3> QED
      BY <2>2, <3>1, <3>2
  <2>7. CASE ~st.done /\ ~Stops(st, data)
    <3>1. Live(st) = st
      BY <2>4, <2>7 DEF Live, LoopState
    <3>2. StepOn(st, all) = StepOn(st, data)
      BY <2>3, <2>7, StepGoesOn DEF all
    <3>3. StepOn(st, data).done = FALSE
      BY <2>3, <2>7, StepMoves
    <3>4. a[i + 1] \in LoopState(data)
      <4>1. i + 1 \in 0..n
        BY <2>1
      <4> QED
        BY <1>1, <4>1, StateFacts
    <3>5. Live(a[i + 1]) = a[i + 1]
      BY <2>3, <3>3, <3>4 DEF Live, LoopState
    <3>6. k + 1 \in 1..n /\ k + 1 - 1 = k /\ k + 1 \in 0..(i + 1)
      BY <1>1, <2>1
    <3>7. w[k + 1] = StepOn(w[k], all)
      BY <1>2, <3>6
    <3>8. w[k + 1] = Live(a[i + 1])
      BY <2>2, <2>3, <3>1, <3>2, <3>5, <3>7
    <3> QED
      BY <3>6, <3>8
  <2> QED
    BY <2>5, <2>6, <2>7
<1> HIDE DEF T
<1>5. Nat \subseteq T
  BY <1>3, <1>4, SetInduction
<1>6. \E k \in 0..n : w[k] = Live(a[n])
  BY <1>1, <1>5 DEF T
<1> QED
  BY <1>6 DEF n

-----------------------------------------------------------------------------
(* The loop does with the rest of the data what it would do with it alone. *)

After(e, st) == [pos     |-> e.pos + st.pos, garbage |-> st.garbage,
                 msgs    |-> e.msgs \o st.msgs, done |-> st.done]

LEMMA RestOfRest ==
  ASSUME NEW data \in Seq(Byte), NEW e, NEW st,
         e.pos \in 0..Len(data), st.pos \in 0..Len(Rest(e, data))
  PROVE  Rest(After(e, st), data) = Rest(st, Rest(e, data))
<1> DEFINE p == e.pos
           q == st.pos
           n == Len(data)
           b == SubSeq(data, p + 1, n)
           l == SubSeq(data, p + q + 1, n)
           t == SubSeq(b, q + 1, Len(b))
<1>1. Rest(e, data) = b /\ Rest(st, b) = t /\ Rest(After(e, st), data) = l
  BY DEF Rest, After
<1>2. p \in Nat /\ p <= n /\ n \in Nat /\ q \in 0..Len(b)
  BY <1>1
<1> HIDE DEF p, q
<1>3. b \in Seq(Byte) /\ Len(b) = n - p
      /\ \A i \in 1..(n - p) : b[i] = data[p + i]
  BY <1>2
<1> HIDE DEF b
<1>4. q \in Nat /\ q <= n - p
  BY <1>2, <1>3
<1>5. /\ t \in Seq(Byte) /\ Len(t) = n - p - q
      /\ \A i \in 1..(n - p - q) : t[i] = b[q + i]
  BY <1>2, <1>3, <1>4
<1>6. /\ l \in Seq(Byte) /\ Len(l) = n - p - q
      /\ \A i \in 1..(n - p - q) : l[i] = data[p + q + i]
  BY <1>2, <1>4
<1> HIDE DEF l, t, n
<1>7. ASSUME NEW i \in 1..(n - p - q) PROVE l[i] = t[i]
  <2>1. q + i \in 1..(n - p) /\ p + (q + i) = p + q + i
    BY <1>2, <1>4
  <2> QED
    BY <1>3, <1>5, <1>6, <2>1
<1>8. l = t
  BY <1>5, <1>6, <1>7, SeqEqual
<1> QED
  BY <1>1, <1>8

LEMMA MsgsAssociate ==
  ASSUME NEW m \in Seq(Return), NEW s \in Seq(Return), NEW t \in Seq(Return)
  PROVE  (m \o s) \o t = m \o (s \o t)
BY ConcatAssociative

States == [pos : Nat, garbage : Seq(Byte), msgs : Seq(Return), done : BOOLEAN]

LEMMA SameState ==
  ASSUME NEW u \in States, NEW v \in States, u.pos = v.pos, u.garbage = v.garbage,
         u.msgs = v.msgs, u.done = v.done
  PROVE  u = v
BY DEF States

LEMMA EndedIs ==
  ASSUME NEW st \in States
  PROVE  /\ Ended(st) \in States
         /\ Ended(st).pos = st.pos /\ Ended(st).garbage = st.garbage
         /\ Ended(st).msgs = st.msgs /\ Ended(st).done = TRUE
BY DEF Ended, States

LEMMA TakenIs ==
  ASSUME NEW st \in States, NEW raw \in Seq(Byte), NEW r \in Answer
  PROVE  /\ Taken(st, raw, r.msg) \in States
         /\ Taken(st, raw, r.msg).pos = st.pos + Len(raw)
         /\ Taken(st, raw, r.msg).garbage = <<>>
         /\ Taken(st, raw, r.msg).msgs
               = (st.msgs \o Flushed(st.garbage)) \o <<[raw |-> raw, msg |-> r.msg]>>
         /\ Taken(st, raw, r.msg).done = st.done
         /\ Flushed(st.garbage) \in Seq(Return)
         /\ <<[raw |-> raw, msg |-> r.msg]>> \in Seq(Return)
<1> DEFINE new == <<[raw |-> raw, msg |-> r.msg]>>
           f   == Flushed(st.garbage)
           msgs == (st.msgs \o f) \o new
           pos  == st.pos + Len(raw)
<1>1. st.pos \in Nat /\ st.garbage \in Seq(Byte) /\ st.msgs \in Seq(Return)
  BY DEF States
<1>2. [raw |-> raw, msg |-> r.msg] \in Return
  BY DEF Return, Answer
<1>3. new \in Seq(Return) /\ f \in Seq(Return)
  BY <1>1, <1>2, FlushedBytes
<1>4. Taken(st, raw, r.msg) = [st EXCEPT !.pos = pos, !.garbage = <<>>, !.msgs = msgs]
  BY DEF Taken
<1> HIDE DEF new, f
<1>5. msgs \in Seq(Return) /\ pos \in Nat /\ <<>> \in Seq(Byte)
  <2>1. Len(raw) \in Nat
    OBVIOUS
  <2>2. st.msgs \o f \in Seq(Return)
    BY <1>1, <1>3
  <2> QED
    BY <1>1, <1>3, <2>1, <2>2
<1> HIDE DEF msgs, pos
<1>6. /\ Taken(st, raw, r.msg) \in States
      /\ Taken(st, raw, r.msg).pos = pos
      /\ Taken(st, raw, r.msg).garbage = <<>>
      /\ Taken(st, raw, r.msg).msgs = msgs
      /\ Taken(st, raw, r.msg).done = st.done
  BY <1>4, <1>5 DEF States
<1> QED
  BY <1>3, <1>6 DEF msgs, pos, new, f

LEMMA DroppedIs ==
  ASSUME NEW st \in States, NEW byte \in Byte
  PROVE  LET dropped == Append(st.garbage, byte)
             full    == GarbageLimit <= Len(dropped)
             next    == Dropped(st, byte)
         IN  /\ next \in States
             /\ next.pos = st.pos + 1
             /\ next.garbage = IF full THEN <<>> ELSE dropped
             /\ next.msgs = IF full THEN st.msgs \o Flushed(dropped) ELSE st.msgs
             /\ next.done = st.done
             /\ Flushed(dropped) \in Seq(Return)
<1> DEFINE dropped == Append(st.garbage, byte)
           full == GarbageLimit <= Len(dropped)
           left == IF full THEN <<>> ELSE dropped
           msgs == IF full THEN st.msgs \o Flushed(dropped) ELSE st.msgs
           pos  == st.pos + 1
           next == Dropped(st, byte)
<1>1. st.pos \in Nat /\ st.garbage \in Seq(Byte) /\ st.msgs \in Seq(Return)
  BY DEF States
<1>2. dropped \in Seq(Byte) /\ pos \in Nat
  BY <1>1
<1>3. next = [st EXCEPT !.pos = pos, !.garbage = left, !.msgs = msgs]
  BY DEF Dropped
<1> HIDE DEF dropped, full, pos, next
<1>4. Flushed(dropped) \in Seq(Return)
  BY <1>2, FlushedBytes
<1>5. left \in Seq(Byte) /\ msgs \in Seq(Return)
  BY <1>1, <1>2, <1>4
<1> HIDE DEF left, msgs
<1>6. /\ next \in States /\ next.pos = pos /\ next.garbage = left
      /\ next.msgs = msgs /\ next.done = st.done
  BY <1>2, <1>3, <1>5 DEF States
<1> QED
  BY <1>4, <1>6 DEF pos, left, msgs, full, dropped, next

LEMMA AfterIs ==
  ASSUME NEW e \in States, NEW st \in States
  PROVE  /\ After(e, st) \in States
         /\ After(e, st).pos = e.pos + st.pos /\ After(e, st).garbage = st.garbage
         /\ After(e, st).msgs = e.msgs \o st.msgs /\ After(e, st).done = st.done
<1>1. e.pos \in Nat /\ st.pos \in Nat /\ e.msgs \in Seq(Return) /\ st.msgs \in Seq(Return)
  BY DEF States
<1>2. e.pos + st.pos \in Nat /\ e.msgs \o st.msgs \in Seq(Return)
  BY <1>1
<1> QED
  BY <1>2 DEF After, States

LEMMA GoodIsState ==
  ASSUME NEW garbage, NEW data \in Seq(Byte), NEW st \in Good(garbage, data)
  PROVE  st \in States
BY DEF Good, LoopState, States

LEMMA StepAfter ==
  ASSUME NEW garbage \in Seq(Byte), NEW data \in Seq(Byte), NEW e \in Good(garbage, data),
         NEW kept \in Seq(Byte), NEW st \in Good(kept, Rest(e, data))
  PROVE  StepOn(After(e, st), data) = After(e, StepOn(st, Rest(e, data)))
<1> DEFINE b    == Rest(e, data)
           rest == Rest(st, b)
           r    == StackRead(rest)
           ae   == After(e, st)
<1>1. /\ e.pos \in 0..Len(data) /\ e.msgs \in Seq(Return) /\ b \in Seq(Byte)
      /\ e.pos \in Nat
  BY StateFacts
<1>2. /\ st.pos \in 0..Len(b) /\ st \in LoopState(b) /\ rest \in Seq(Byte)
      /\ st.msgs \in Seq(Return) /\ st.garbage \in Seq(Byte) /\ st.pos \in Nat
  BY <1>1, StateFacts
<1>3. Rest(ae, data) = rest
  BY <1>1, <1>2, RestOfRest
<1>4. r \in Answer /\ Within(r, rest)
  BY <1>2, StackReadTyped
<1>5. /\ ae.done = st.done /\ ae.pos = e.pos + st.pos /\ ae.garbage = st.garbage
      /\ ae.msgs = e.msgs \o st.msgs
  BY DEF After
<1>6. StepOn(st, b) = IF st.done THEN st ELSE ReadStep(st, rest, r)
  BY DEF StepOn
<1>7. StepOn(ae, data) = IF st.done THEN ae ELSE ReadStep(ae, rest, r)
  BY <1>3, <1>5 DEF StepOn
<1> HIDE DEF r, rest, b
<1>8. CASE st.done
  BY <1>6, <1>7, <1>8 DEF b
<1>s. e \in States /\ st \in States /\ ae \in States
  BY GoodIsState, AfterIs, StateFacts
<1>9. CASE ~st.done /\ (rest = <<>> \/ r.es = "NotEnoughData")
  <2>1. ReadStep(st, rest, r) = Ended(st) /\ ReadStep(ae, rest, r) = Ended(ae)
    BY <1>9 DEF ReadStep, Ended
  <2> DEFINE u == Ended(ae)
             v == After(e, Ended(st))
  <2>2. u \in States /\ v \in States /\ Ended(st) \in States
    BY <1>s, EndedIs, AfterIs
  <2>a. /\ u.pos = ae.pos /\ u.garbage = ae.garbage
        /\ u.msgs = ae.msgs /\ u.done = TRUE
    BY <1>s, EndedIs
  <2>b. /\ Ended(st).pos = st.pos /\ Ended(st).garbage = st.garbage
        /\ Ended(st).msgs = st.msgs /\ Ended(st).done = TRUE
    BY <1>s, EndedIs
  <2>c. /\ v.pos = e.pos + Ended(st).pos /\ v.garbage = Ended(st).garbage
        /\ v.msgs = e.msgs \o Ended(st).msgs /\ v.done = Ended(st).done
    BY <1>s, <2>2, AfterIs
  <2>3. /\ u.pos = v.pos /\ u.garbage = v.garbage
        /\ u.msgs = v.msgs /\ u.done = v.done
    <3> HIDE DEF u, v
    <3> QED
      BY <1>5, <2>a, <2>b, <2>c
  <2> HIDE DEF u, v
  <2>4. u = v
    BY <2>2, <2>3, SameState
  <2> QED
    BY <1>6, <1>7, <1>9, <2>1, <2>4 DEF b, u, v
<1>10. CASE ~st.done /\ rest # <<>> /\ Takes(r)
  <2> DEFINE raw  == SubSeq(rest, 1, r.consumed)
             this == <<[raw |-> raw, msg |-> r.msg]>>
             f    == Flushed(st.garbage)
             next == Taken(st, raw, r.msg)
             u    == Taken(ae, raw, r.msg)
             v    == After(e, next)
  <2>1. ReadStep(st, rest, r) = next /\ ReadStep(ae, rest, r) = u
    BY <1>10 DEF ReadStep, Takes
  <2>2. raw \in Seq(Byte) /\ Len(raw) \in Nat
    <3>1. r.consumed \in 1..Len(rest)
      BY <1>4, <1>10 DEF Within
    <3> QED
      BY <1>2, <3>1
  <2> HIDE DEF raw
  <2>3. /\ next \in States /\ next.pos = st.pos + Len(raw) /\ next.garbage = <<>>
        /\ next.msgs = (st.msgs \o f) \o this /\ next.done = st.done
        /\ f \in Seq(Return) /\ this \in Seq(Return)
    BY <1>4, <1>s, <2>2, TakenIs
  <2>4. /\ u \in States /\ u.pos = ae.pos + Len(raw) /\ u.garbage = <<>>
        /\ u.msgs = (ae.msgs \o Flushed(ae.garbage)) \o this /\ u.done = ae.done
    BY <1>4, <1>s, <2>2, TakenIs
  <2> HIDE DEF this, f, next, u
  <2>5. /\ v \in States /\ v.pos = e.pos + next.pos /\ v.garbage = next.garbage
        /\ v.msgs = e.msgs \o next.msgs /\ v.done = next.done
    BY <1>s, <2>3, AfterIs
  <2> HIDE DEF v
  <2>6. ((e.msgs \o st.msgs) \o f) \o this = e.msgs \o ((st.msgs \o f) \o this)
    <3>1. (e.msgs \o st.msgs) \o f = e.msgs \o (st.msgs \o f)
      BY <1>1, <1>2, <2>3, MsgsAssociate
    <3>2. st.msgs \o f \in Seq(Return)
      BY <1>2, <2>3
    <3>3. (e.msgs \o (st.msgs \o f)) \o this = e.msgs \o ((st.msgs \o f) \o this)
      BY <1>1, <2>3, <3>2, MsgsAssociate
    <3> QED
      BY <3>1, <3>3
  <2>7. (e.pos + st.pos) + Len(raw) = e.pos + (st.pos + Len(raw))
    BY <1>1, <1>2, <2>2
  <2>8. u.msgs = v.msgs
    BY <1>5, <2>3, <2>4, <2>5, <2>6 DEF f
  <2>9. u.pos = v.pos /\ u.garbage = v.garbage /\ u.done = v.done
    BY <1>5, <2>3, <2>4, <2>5, <2>7
  <2>10. u = v
    BY <2>4, <2>5, <2>8, <2>9, SameState
  <2> QED
    BY <1>6, <1>7, <1>10, <2>1, <2>10 DEF b, v
<1>11. CASE ~st.done /\ rest # <<>> /\ ~Takes(r) /\ r.es # "NotEnoughData"
  <2> DEFINE byte == rest[1]
             dropped == Append(st.garbage, byte)
             full == GarbageLimit <= Len(dropped)
             f    == Flushed(dropped)
             next == Dropped(st, byte)
             u    == Dropped(ae, byte)
             v    == After(e, next)
  <2>1. ReadStep(st, rest, r) = next /\ ReadStep(ae, rest, r) = u
    BY <1>11 DEF ReadStep, Takes
  <2>2. byte \in Byte
    BY <1>2, <1>11
  <2> HIDE DEF byte
  <2>3. /\ next \in States /\ next.pos = st.pos + 1
        /\ next.garbage = IF full THEN <<>> ELSE dropped
        /\ next.msgs = (IF full THEN st.msgs \o f ELSE st.msgs)
        /\ next.done = st.done /\ f \in Seq(Return)
    BY <1>s, <2>2, DroppedIs
  <2>4. /\ u \in States /\ u.pos = ae.pos + 1
        /\ u.garbage = IF full THEN <<>> ELSE dropped
        /\ u.msgs = (IF full THEN ae.msgs \o f ELSE ae.msgs)
        /\ u.done = ae.done
    <3>1. Append(ae.garbage, byte) = dropped
      BY <1>5
    <3> HIDE DEF dropped
    <3> QED
      BY <1>s, <2>2, <3>1, DroppedIs
  <2> HIDE DEF full, f, next, u, dropped
  <2>5. /\ v \in States /\ v.pos = e.pos + next.pos /\ v.garbage = next.garbage
        /\ v.msgs = e.msgs \o next.msgs /\ v.done = next.done
    BY <1>s, <2>3, AfterIs
  <2> HIDE DEF v
  <2>6. (e.msgs \o st.msgs) \o f = e.msgs \o (st.msgs \o f)
    BY <1>1, <1>2, <2>3, MsgsAssociate
  <2>7. (e.pos + st.pos) + 1 = e.pos + (st.pos + 1)
    BY <1>1, <1>2
  <2>8. u.msgs = v.msgs
    BY <1>5, <2>3, <2>4, <2>5, <2>6
  <2>9. u.pos = v.pos /\ u.garbage = v.garbage /\ u.done = v.done
    BY <1>5, <2>3, <2>4, <2>5, <2>7
  <2>10. u = v
    BY <2>4, <2>5, <2>8, <2>9, SameState
  <2> QED
    BY <1>6, <1>7, <1>11, <2>1, <2>10 DEF b, v
<1> QED
  BY <1>8, <1>9, <1>10, <1>11

(* Reading all at once ends where reading what came first, and then the    *)
(* rest of it together with what came later, ends.                         *)
Splits(garbage, data, x, e) ==
    /\ e \in Good(garbage, data)
    /\ ReadLoop(garbage, data \o x) = After(e, ReadLoop(e.garbage, Rest(e, data) \o x))

LEMMA LoopSplits ==
  ASSUME NEW garbage \in Seq(Byte), NEW data \in Seq(Byte), NEW x \in Seq(Byte),
         Len(garbage) < GarbageLimit
  PROVE  Splits(garbage, data, x, ReadLoop(garbage, data))
<1> DEFINE e == ReadLoop(garbage, data)
<1>0. e = ReadLoop(garbage, data)
  OBVIOUS
<1> HIDE DEF e
<1> SUFFICES /\ e \in Good(garbage, data)
             /\ ReadLoop(garbage, data \o x)
                   = After(e, ReadLoop(e.garbage, Rest(e, data) \o x))
  BY <1>0 DEF Splits
<1> DEFINE all == data \o x
           n   == Len(data) + 1
           m   == Len(all) + 1
           b   == Rest(e, data) \o x
           l   == Len(b) + 1
           at  == Live(e)
<1>1. /\ all \in Seq(Byte) /\ Len(all) = Len(data) + Len(x)
      /\ Len(x) \in Nat /\ Len(data) \in Nat /\ Len(all) \in Nat
  BY MoreBytes
<1> HIDE DEF all
<1>2. PICK a : a \in Course(garbage, data)
  BY CourseExists
<1>3. PICK w : w \in Course(garbage, all)
  BY <1>1, CourseExists
<1>4. /\ a \in [0..n -> Good(garbage, data)] /\ e = a[n] /\ n \in Nat /\ n \in 0..n
  BY <1>0, <1>1, <1>2 DEF Course
<1>5. e \in Good(garbage, data)
  <2> HIDE DEF n
  <2> QED
    BY <1>4
<1>6. /\ e.pos \in 0..Len(data) /\ e.garbage \in Seq(Byte) /\ e.msgs \in Seq(Return)
      /\ Len(e.garbage) < GarbageLimit /\ e \in LoopState(data)
      /\ Rest(e, data) \in Seq(Byte) /\ Len(Rest(e, data)) = Len(data) - e.pos
  BY <1>5, StateFacts
<1>7. PICK k \in 0..n : w[k] = Live(e)
  BY <1>2, <1>3, <1>4, GetsThere DEF all
<1>8. /\ w \in [0..m -> Good(garbage, all)] /\ m \in Nat
      /\ \A i \in 1..m : w[i] = StepOn(w[i - 1], all)
  BY <1>1, <1>3 DEF Course
<1>9. /\ at.pos = e.pos /\ at.garbage = e.garbage /\ at.msgs = e.msgs /\ at.done = FALSE
  BY <1>6 DEF Live, LoopState
<1>10. at \in Good(garbage, all) /\ k \in 0..m /\ k \in Nat
  <2>1. k \in 0..m /\ k \in Nat
    BY <1>1, <1>4, <1>7
  <2> HIDE DEF m
  <2> QED
    BY <1>7, <1>8, <2>1
<1> HIDE DEF at
<1>11. k <= e.pos
  <2>1. ~w[k].done => w[k].pos >= k
    BY <1>1, <1>3, <1>10, CourseEnds
  <2> QED
    BY <1>6, <1>7, <1>9, <1>10, <2>1 DEF at
<1>12. Rest(at, all) = b /\ b \in Seq(Byte) /\ Len(b) = Len(all) - e.pos
  <2>1. Rest(e, all) = b
    BY <1>6, RestGoesOn DEF all
  <2>2. Rest(at, all) = Rest(e, all)
    BY <1>9 DEF Rest
  <2>3. Len(b) = Len(Rest(e, data)) + Len(x) /\ b \in Seq(Byte)
    BY <1>6, MoreBytes
  <2> HIDE DEF b
  <2> QED
    BY <1>1, <1>6, <2>1, <2>2, <2>3
<1> HIDE DEF b
<1>13. PICK f : f \in Course(e.garbage, b)
  BY <1>6, <1>12, CourseExists
<1>14. /\ f \in [0..l -> Good(e.garbage, b)] /\ l \in Nat /\ f[0] = Begin(e.garbage)
       /\ \A i \in 1..l : f[i] = StepOn(f[i - 1], b)
       /\ ReadLoop(e.garbage, b) = f[l]
  BY <1>12, <1>13 DEF Course
<1>15. k + l \in 0..m /\ l \in 0..l
  <2>1. /\ k \in Nat /\ e.pos \in Nat /\ k <= e.pos /\ e.pos <= Len(all)
        /\ Len(all) \in Nat /\ Len(b) = Len(all) - e.pos
    BY <1>1, <1>6, <1>10, <1>11, <1>12
  <2> QED
    BY <2>1
<1>16. f[l].done
  BY <1>6, <1>12, <1>13, CourseEnds
<1> HIDE DEF m, l, n
<1> DEFINE T == { i \in Nat : i <= l => w[k + i] = After(at, f[i]) }
<1>17. 0 \in T
  <2>1. 0 \in 0..l
    BY <1>14
  <2>2. f[0] \in States /\ at \in States
    BY <1>1, <1>10, <1>12, <1>14, <2>1, GoodIsState
  <2>3. /\ After(at, f[0]) \in States
        /\ After(at, f[0]).pos = at.pos + f[0].pos
        /\ After(at, f[0]).garbage = f[0].garbage
        /\ After(at, f[0]).msgs = at.msgs \o f[0].msgs
        /\ After(at, f[0]).done = f[0].done
    BY <2>2, AfterIs
  <2>4. /\ f[0].pos = 0 /\ f[0].garbage = e.garbage /\ f[0].msgs = <<>>
        /\ f[0].done = FALSE
    BY <1>14 DEF Begin
  <2>5. e.msgs \o <<>> = e.msgs
    BY <1>6, ConcatEmptySeq
  <2>6. e.pos + 0 = e.pos
    BY <1>6
  <2> DEFINE v == After(at, f[0])
  <2> HIDE DEF v
  <2>7. v = at
    <3>1. v \in States /\ v.pos = at.pos /\ v.garbage = at.garbage
          /\ v.msgs = at.msgs /\ v.done = at.done
      BY <1>9, <2>3, <2>4, <2>5, <2>6 DEF v
    <3> QED
      BY <2>2, <3>1, SameState
  <2>8. k + 0 = k
    BY <1>10
  <2> QED
    BY <1>7, <2>7, <2>8 DEF at, v
<1>18. ASSUME NEW i \in Nat, i \in T PROVE i + 1 \in T
  <2> SUFFICES ASSUME i + 1 <= l PROVE w[k + (i + 1)] = After(at, f[i + 1])
    OBVIOUS
  <2>1. /\ i <= l /\ i \in 0..l /\ i + 1 \in 1..l /\ i + 1 - 1 = i
        /\ k + (i + 1) \in 1..m /\ k + (i + 1) - 1 = k + i
    BY <1>8, <1>10, <1>14, <1>15
  <2>2. w[k + i] = After(at, f[i]) /\ f[i] \in Good(e.garbage, b)
    BY <1>14, <1>18, <2>1
  <2>3. w[k + (i + 1)] = StepOn(After(at, f[i]), all)
    BY <1>8, <2>1, <2>2
  <2>4. f[i + 1] = StepOn(f[i], b)
    BY <1>14, <2>1
  <2>5. StepOn(After(at, f[i]), all) = After(at, StepOn(f[i], b))
    BY <1>1, <1>6, <1>10, <1>12, <2>2, StepAfter
  <2> QED
    BY <2>3, <2>4, <2>5
<1> HIDE DEF T
<1>19. Nat \subseteq T
  BY <1>17, <1>18, SetInduction
<1>20. w[k + l] = After(at, f[l])
  BY <1>14, <1>19 DEF T
<1>21. w[k + l].done
  BY <1>16, <1>20 DEF After
<1>22. ReadLoop(garbage, all) = w[k + l]
  BY <1>1, <1>3, <1>15, <1>21, DoneStays DEF m
<1>23. After(at, f[l]) = After(e, f[l])
  BY <1>9 DEF After
<1> QED
  BY <1>5, <1>14, <1>20, <1>22, <1>23 DEF all, b

-----------------------------------------------------------------------------
(* What the object has kept, and what the receiver has been told, is what  *)
(* one call of read with all the bytes would have left and returned, as    *)
(* long as nobody else has used the object.                                *)
Whole == ReadLoop(<<>>, received)

Decoded ==
    typed = 0 =>
        /\ m_data = Rest(Whole, received)
        /\ m_garbage = Whole.garbage
        /\ recvList = Whole.msgs

LEMMA InitDecoded == Init => Decoded
<1> SUFFICES ASSUME Init PROVE Decoded
  OBVIOUS
<1>1. received = <<>> /\ <<>> \in Seq(Byte) /\ Len(<<>>) = 0 /\ Len(<<>>) < GarbageLimit
  BY GarbageLimitAssumption DEF Init
<1>2. PICK f : f \in Course(<<>>, <<>>)
  BY <1>1, CourseExists
<1> DEFINE b == Begin(<<>>)
<1>3. f[0] = b /\ f[1] = StepOn(b, <<>>) /\ ReadLoop(<<>>, <<>>) = f[1]
  BY <1>1, <1>2 DEF Course
<1>4. Rest(b, <<>>) = <<>>
  BY SubSeqEmpty DEF Rest, Begin
<1>5. b \in States /\ b.pos = 0 /\ b.garbage = <<>> /\ b.msgs = <<>> /\ b.done = FALSE
  BY BytesEmpty, <1>1 DEF Begin, States
<1> HIDE DEF b
<1>6. StepOn(b, <<>>) = Ended(b)
  BY <1>4, <1>5 DEF StepOn, ReadStep, Ended
<1>7. Whole = Ended(b)
  BY <1>1, <1>3, <1>6 DEF Whole
<1>8. Whole.pos = 0 /\ Whole.garbage = <<>> /\ Whole.msgs = <<>>
  BY <1>5, <1>7, EndedIs
<1>9. Rest(Whole, <<>>) = <<>>
  BY <1>8, SubSeqEmpty DEF Rest
<1> QED
  BY <1>1, <1>8, <1>9 DEF Init, Decoded

LEMMA ReceiveDecoded ==
  ASSUME IInv, Decoded, Receive
  PROVE  Decoded'
<1>1. PICK n \in 1..Len(wire) :
        /\ ReceiveChunk(SubSeq(wire, 1, n),
                        ReadImpl(m_data, m_garbage, SubSeq(wire, 1, n), FALSE))
        /\ wire' = SubSeq(wire, n + 1, Len(wire))
        /\ UNCHANGED <<sent, typed, sendList>>
  BY Zenon DEF Receive
<1> SUFFICES ASSUME typed = 0
             PROVE  /\ m_data' = Rest(ReadLoop(<<>>, received'), received')
                    /\ m_garbage' = ReadLoop(<<>>, received').garbage
                    /\ recvList' = ReadLoop(<<>>, received').msgs
  BY <1>1 DEF Decoded, Whole
<1> DEFINE chunk == SubSeq(wire, 1, n)
           e     == ReadLoop(<<>>, received)
           b     == m_data \o chunk
           end   == ReadLoop(m_garbage, b)
           r     == ReadImpl(m_data, m_garbage, chunk, FALSE)
<1>2. wire \in Seq(Byte) /\ received \in Seq(Byte) /\ recvList \in Seq(Return)
      /\ m_data \in Seq(Byte) /\ m_garbage \in Seq(Byte) /\ Len(m_garbage) < GarbageLimit
  BY DEF IInv, BytesTyped, ListsTyped
<1>3. chunk \in Seq(Byte)
  BY <1>2
<1>4. /\ m_data' = r.data /\ m_garbage' = r.garbage /\ recvList' = recvList \o r.msgs
      /\ received' = received \o chunk
  BY <1>1, Zenon DEF ReceiveChunk, Read
<1> HIDE DEF chunk
<1>5. r = [data |-> Rest(end, b), garbage |-> end.garbage, msgs |-> end.msgs]
  BY DEF ReadImpl, ReadAll, Finish
<1> HIDE DEF r
<1>6. m_data = Rest(e, received) /\ m_garbage = e.garbage /\ recvList = e.msgs
  BY DEF Decoded, Whole
<1>7. <<>> \in Seq(Byte) /\ Len(<<>>) < GarbageLimit
  BY GarbageLimitAssumption
<1>8. /\ e \in Good(<<>>, received)
      /\ ReadLoop(<<>>, received \o chunk)
            = After(e, ReadLoop(e.garbage, Rest(e, received) \o chunk))
  <2>1. Splits(<<>>, received, chunk, ReadLoop(<<>>, received))
    BY <1>2, <1>3, <1>7, LoopSplits
  <2>2. ReadLoop(<<>>, received) = e
    OBVIOUS
  <2> HIDE DEF e
  <2> QED
    BY <2>1, <2>2 DEF Splits
<1> HIDE DEF e
<1>9. ReadLoop(<<>>, received') = After(e, end)
  BY <1>4, <1>6, <1>8
<1>10. b \in Seq(Byte)
  BY <1>2, <1>3
<1>11. end \in Good(m_garbage, b)
  <2>1. PICK f : f \in Course(m_garbage, b)
    BY <1>2, <1>10, CourseExists
  <2>2. Len(b) + 1 \in 0..(Len(b) + 1)
    BY <1>10
  <2> HIDE DEF b
  <2> QED
    BY <2>1, <2>2 DEF Course
<1>12. b = Rest(e, received \o chunk)
  <2>1. e.pos \in 0..Len(received)
    BY <1>2, <1>8, StateFacts
  <2> QED
    BY <1>2, <1>3, <1>6, <2>1, RestGoesOn
<1>13. Rest(After(e, end), received') = Rest(end, b)
  <2>1. e.pos \in 0..Len(received) /\ end.pos \in 0..Len(b)
    BY <1>2, <1>8, <1>10, <1>11, StateFacts
  <2>2. received' \in Seq(Byte) /\ e.pos \in 0..Len(received')
    <3>1. received' \in Seq(Byte) /\ Len(received') = Len(received) + Len(chunk)
          /\ Len(chunk) \in Nat /\ Len(received) \in Nat
      BY <1>2, <1>3, <1>4, MoreBytes
    <3> QED
      BY <2>1, <3>1
  <2>3. b = Rest(e, received')
    BY <1>4, <1>12
  <2> HIDE DEF b, end
  <2> QED
    BY <2>1, <2>2, <2>3, RestOfRest
<1> HIDE DEF end, b
<1>14. After(e, end).garbage = end.garbage /\ After(e, end).msgs = e.msgs \o end.msgs
  BY DEF After
<1> QED
  BY <1>4, <1>5, <1>6, <1>9, <1>13, <1>14

LEMMA NextDecoded == IInv /\ Decoded /\ [Next]_vars => Decoded'
<1> SUFFICES ASSUME IInv, Decoded, [Next]_vars PROVE Decoded'
  OBVIOUS
<1>1. CASE UNCHANGED <<m_data, m_garbage, received, typed, recvList>>
  BY <1>1 DEF Decoded, Whole
<1>2. CASE Receive
  BY <1>2, ReceiveDecoded
<1>3. CASE AcceptRawData
  <2>1. PICK input \in around.typed :
            AcceptInput(input, ReadImpl(m_data, m_garbage, input, TRUE))
    BY <1>3, Zenon DEF AcceptRawData
  <2>2. typed' = typed + 1 + Len(input)
    BY <2>1, Zenon DEF AcceptInput
  <2>3. typed \in Nat /\ Len(input) \in Nat
    <3>1. input \in Seq(Byte)
      BY SurroundingsAssumption DEF IInv
    <3> QED
      BY <3>1 DEF IInv, ListsTyped
  <2>4. typed' # 0
    BY <2>2, <2>3
  <2> QED
    BY <2>4 DEF Decoded
<1> QED
  BY <1>1, <1>2, <1>3 DEF Next, Send, Disturb, vars

LEMMA DecodedMeans == IInv /\ Decoded => DecodesTheStream
<1> SUFFICES ASSUME IInv, Decoded, typed = 0 PROVE ReceiverUndisturbed
  BY DEF DecodesTheStream
<1>1. <<>> \o received = received
  BY ConcatEmptySeq DEF IInv, BytesTyped
<1>2. ReadImpl(<<>>, <<>>, received, FALSE).msgs = Whole.msgs
  BY <1>1 DEF ReadImpl, ReadAll, Finish, Whole
<1> QED
  BY <1>2 DEF ReceiverUndisturbed, Decoded

(* What the receiving side is told depends on the bytes alone, wherever the*)
(* stream is cut into chunks: reading the chunks one after the other yields*)
(* what reading all of them at once would, as long as no raw data is typed *)
(* in.                                                                     *)
THEOREM CutsDoNotMatter == Spec => []DecodesTheStream
<1>1. Init => Decoded
  BY InitDecoded
<1>2. IInv /\ Decoded /\ [Next]_vars => Decoded'
  BY NextDecoded
<1>3. IInv /\ Decoded => DecodesTheStream
  BY DecodedMeans
<1> QED
  BY <1>1, <1>2, <1>3, StreamInvariance, PTL DEF Spec

-----------------------------------------------------------------------------
(* Members of a list at some positions.                                    *)

(* The members selected up to a position, as a function of the position.   *)
Selects(f, S, list, positions) ==
    /\ f \in [0..Len(list) -> Seq(S)]
    /\ f[0] = <<>>
    /\ \A i \in 1..Len(list) :
          f[i] = IF i \in positions THEN Append(f[i - 1], list[i]) ELSE f[i - 1]
    /\ Selected(list, positions) = f[Len(list)]

LEMMA SelectsExists ==
  ASSUME NEW S, NEW list \in Seq(S), NEW positions
  PROVE  \E f : Selects(f, S, list, positions)
<1> DEFINE n       == Len(list)
           more(t, i) == IF i \in positions THEN Append(t, list[i]) ELSE t
           step    == [p \in Seq(S) \X (1..n) |-> more(p[1], p[2])]
           R(f)    == f = [i \in 0..n |-> IF i = 0 THEN <<>> ELSE more(f[i - 1], i)]
           upTo    == CHOOSE f : R(f)
<1>1. n \in Nat /\ \A i \in 1..n : list[i] \in S
  OBVIOUS
<1>2. <<>> \in Seq(S)
  OBVIOUS
<1>3. \A t \in Seq(S), i \in 1..n : more(t, i) \in Seq(S)
  BY <1>1
<1>4. Selected(list, positions) = upTo[n]
  BY Zenon DEF Selected
<1>5. \A t, i : more(t, i) = IF i \in positions THEN Append(t, list[i]) ELSE t
  OBVIOUS
<1> HIDE DEF more
<1>6. \A t \in Seq(S), i \in 1..n : step[<<t, i>>] = more(t, i)
  OBVIOUS
<1>7. step \in [Seq(S) \X (1..n) -> Seq(S)]
  BY <1>3
<1> HIDE DEF step
<1>8. PICK f : f \in Iterates(Seq(S), <<>>, step, n)
  BY <1>1, <1>2, <1>7, IteratesExist
<1>9. /\ f \in [0..n -> Seq(S)]
      /\ f = [i \in 0..n |-> IF i = 0 THEN <<>> ELSE step[<<f[i - 1], i>>]]
  BY <1>8 DEF Iterates
<1>10. f \in [0..n -> Seq(S)]
  BY <1>9
<1>11. ASSUME NEW i \in 0..n, i # 0
       PROVE  step[<<f[i - 1], i>>] = more(f[i - 1], i)
  <2>1. i \in 1..n /\ i - 1 \in 0..n
    BY <1>1, <1>11
  <2>2. f[i - 1] \in Seq(S)
    BY <1>10, <2>1
  <2> QED
    BY <1>6, <2>1, <2>2
<1>12. R(f)
  BY <1>9, <1>11
<1>13. R(upTo)
  <2> HIDE DEF R
  <2> QED
    BY <1>12, Zenon
<1> HIDE DEF upTo
<1>14. upTo[0] = <<>> /\ \A i \in 1..n : upTo[i] = more(upTo[i - 1], i)
  BY <1>1, <1>13
<1>15. \A i \in 0..n : upTo[i] \in Seq(S)
  <2>1. upTo[0] \in Seq(S) /\ \A i \in 1..n : upTo[i - 1] \in Seq(S) => upTo[i] \in Seq(S)
    BY <1>2, <1>3, <1>14
  <2> HIDE DEF n
  <2> QED
    BY <1>1, <2>1, StaysInside
<1>16. upTo \in [0..n -> Seq(S)]
  BY <1>13, <1>15
<1>17. \A i \in 1..n : upTo[i] = IF i \in positions THEN Append(upTo[i - 1], list[i])
                                 ELSE upTo[i - 1]
  BY <1>5, <1>14
<1>18. Selects(upTo, S, list, positions)
  BY <1>4, <1>14, <1>16, <1>17 DEF Selects
<1> QED
  BY <1>18

(* Two lists that begin alike, and the positions in this beginning.        *)
Alike(list, positions, other, others, n) ==
    \A i \in 1..n : list[i] = other[i] /\ (i \in positions <=> i \in others)

LEMMA SelectsAlike ==
  ASSUME NEW S, NEW list, NEW positions, NEW other, NEW others, NEW f, NEW g,
         Selects(f, S, list, positions), Selects(g, S, other, others),
         NEW n \in Nat, n <= Len(list), n <= Len(other),
         Len(list) \in Nat, Len(other) \in Nat,
         Alike(list, positions, other, others, n)
  PROVE  \A i \in 0..n : f[i] = g[i]
<1> DEFINE T == { k \in Nat : k <= n => f[k] = g[k] }
<1>1. 0 \in T
  BY DEF Selects
<1>2. ASSUME NEW k \in Nat, k \in T PROVE k + 1 \in T
  <2> SUFFICES ASSUME k + 1 <= n PROVE f[k + 1] = g[k + 1]
    OBVIOUS
  <2>1. /\ k + 1 \in 1..n /\ k + 1 \in 1..Len(list) /\ k + 1 \in 1..Len(other)
        /\ k + 1 - 1 = k /\ f[k] = g[k]
    BY <1>2
  <2>2. list[k + 1] = other[k + 1] /\ (k + 1 \in positions <=> k + 1 \in others)
    BY <2>1 DEF Alike
  <2>3. f[k + 1] = IF k + 1 \in positions THEN Append(f[k], list[k + 1]) ELSE f[k]
    BY <2>1 DEF Selects
  <2>4. g[k + 1] = IF k + 1 \in others THEN Append(g[k], other[k + 1]) ELSE g[k]
    BY <2>1 DEF Selects
  <2> QED
    BY <2>1, <2>2, <2>3, <2>4
<1> HIDE DEF T
<1>3. Nat \subseteq T
  BY <1>1, <1>2, SetInduction
<1> QED
  BY <1>3 DEF T

LEMMA SelectedNone ==
  ASSUME NEW positions
  PROVE  Selected(<<>>, positions) = <<>>
<1>1. <<>> \in Seq({}) /\ Len(<<>>) = 0
  OBVIOUS
<1>2. PICK f : Selects(f, {}, <<>>, positions)
  BY <1>1, SelectsExists
<1> QED
  BY <1>1, <1>2 DEF Selects

(* One member more is selected or not.                                     *)
LEMMA SelectedMore ==
  ASSUME NEW S, NEW list \in Seq(S), NEW positions, NEW more \in Seq(S), NEW others,
         Len(more) = Len(list) + 1,
         Alike(list, positions, more, others, Len(list))
  PROVE  /\ Selected(list, positions) \in Seq(S)
         /\ Selected(more, others)
              = IF Len(more) \in others
                THEN Append(Selected(list, positions), more[Len(more)])
                ELSE Selected(list, positions)
<1> DEFINE n == Len(list)
<1>1. n \in Nat /\ Len(more) = n + 1 /\ n <= n + 1 /\ n <= n
  OBVIOUS
<1> HIDE DEF n
<1>2. PICK f : Selects(f, S, list, positions)
  BY SelectsExists
<1>3. PICK g : Selects(g, S, more, others)
  BY SelectsExists
<1>4. n \in 0..n /\ n + 1 \in 1..(n + 1) /\ n + 1 - 1 = n /\ n + 1 \in Nat
  BY <1>1
<1>5. f[n] = g[n]
  <2>1. \A i \in 0..n : f[i] = g[i]
    BY <1>1, <1>2, <1>3, <1>4, SelectsAlike DEF n
  <2> QED
    BY <1>4, <2>1
<1>6. Selected(list, positions) = f[n] /\ f[n] \in Seq(S)
  BY <1>2, <1>4 DEF Selects, n
<1>7. Selected(more, others) = g[n + 1]
  BY <1>1, <1>3 DEF Selects
<1>8. g[n + 1] = IF n + 1 \in others THEN Append(g[n], more[n + 1]) ELSE g[n]
  BY <1>1, <1>3, <1>4 DEF Selects
<1> QED
  BY <1>1, <1>5, <1>6, <1>7, <1>8

(* What is selected of the beginning of a list comes first.                *)
LEMMA SelectedPrefix ==
  ASSUME NEW S, NEW list \in Seq(S), NEW positions, NEW k \in 0..Len(list), NEW others,
         Alike(SubSeq(list, 1, k), others, list, positions, k)
  PROVE  IsPrefix(Selected(SubSeq(list, 1, k), others), Selected(list, positions))
<1> DEFINE n     == Len(list)
           first == SubSeq(list, 1, k)
<1>1. n \in Nat /\ k \in Nat /\ k <= n /\ first \in Seq(S) /\ Len(first) = k
  OBVIOUS
<1> HIDE DEF first
<1>2. PICK f : Selects(f, S, first, others)
  BY <1>1, SelectsExists
<1>3. PICK g : Selects(g, S, list, positions)
  BY SelectsExists
<1>4. f[k] = g[k]
  <2>1. k <= k /\ k \in 0..k
    BY <1>1
  <2>2. Alike(first, others, list, positions, k)
    BY DEF first
  <2>3. k <= Len(first) /\ k <= Len(list) /\ Len(first) \in Nat /\ Len(list) \in Nat
    BY <1>1
  <2>4. \A i \in 0..k : f[i] = g[i]
    BY <1>1, <1>2, <1>3, <2>2, <2>3, SelectsAlike
  <2> QED
    BY <2>1, <2>4
<1>5. Selected(first, others) = g[k] /\ Selected(list, positions) = g[n]
  BY <1>1, <1>2, <1>3, <1>4 DEF Selects
<1>6. \A i \in 0..n : g[i] \in Seq(S)
  BY <1>3 DEF Selects
<1> DEFINE T == { d \in Nat : k + d <= n => IsPrefix(g[k], g[k + d]) }
<1>7. 0 \in T
  <2>1. k + 0 = k /\ k \in 0..n
    BY <1>1
  <2>2. g[k] \in Seq(S)
    BY <1>6, <2>1
  <2>3. IsPrefix(g[k], g[k])
    BY <2>2 DEF IsPrefix
  <2> QED
    BY <2>1, <2>3
<1>8. ASSUME NEW d \in Nat, d \in T PROVE d + 1 \in T
  <2> SUFFICES ASSUME k + (d + 1) <= n PROVE IsPrefix(g[k], g[k + (d + 1)])
    OBVIOUS
  <2>1. /\ k + (d + 1) \in 1..n /\ k + (d + 1) - 1 = k + d /\ k + d \in 0..n /\ k \in 0..n
        /\ IsPrefix(g[k], g[k + d])
    BY <1>1, <1>8
  <2>2. \/ g[k + (d + 1)] = g[k + d]
        \/ g[k + (d + 1)] = Append(g[k + d], list[k + (d + 1)])
    <3> DEFINE j == k + (d + 1)
    <3>1. j \in 1..Len(list) /\ j - 1 = k + d
      BY <2>1
    <3> HIDE DEF j
    <3>2. g[j] = IF j \in positions THEN Append(g[j - 1], list[j]) ELSE g[j - 1]
      BY <1>3, <3>1 DEF Selects
    <3> QED
      BY <3>1, <3>2 DEF j
  <2>3. g[k] \in Seq(S) /\ g[k + d] \in Seq(S) /\ list[k + (d + 1)] \in S
    <3>1. \A i \in 1..n : list[i] \in S
      OBVIOUS
    <3> QED
      BY <1>6, <2>1, <3>1
  <2>4. ASSUME NEW a \in Seq(S), NEW b \in Seq(S), NEW x \in S, IsPrefix(a, b)
        PROVE  IsPrefix(a, Append(b, x))
    BY <2>4 DEF IsPrefix
  <2> QED
    BY <2>1, <2>2, <2>3, <2>4
<1> HIDE DEF T
<1>9. Nat \subseteq T
  BY <1>7, <1>8, SetInduction
<1>10. n - k \in Nat /\ k + (n - k) = n
  BY <1>1
<1>11. IsPrefix(g[k], g[n])
  <2>1. n - k \in T /\ k + (n - k) <= n
    BY <1>1, <1>9, <1>10
  <2>2. IsPrefix(g[k], g[k + (n - k)])
    BY <2>1 DEF T
  <2> QED
    BY <1>10, <2>2
<1> QED
  BY <1>5, <1>11 DEF first

-----------------------------------------------------------------------------
(* The messages a list of results holds, and the readable ones of a list.  *)
Objects(list) == [i \in DOMAIN list |-> list[i].msg]
Told(list)    == { i \in DOMAIN list : list[i].msg # NoMsg }
Object        == MsgType \cup {NoMsg}

LEMMA ObjectsTyped ==
  ASSUME NEW list \in Seq(Return)
  PROVE  /\ Objects(list) \in Seq(Object) /\ Len(Objects(list)) = Len(list)
         /\ \A i \in 1..Len(list) :
               /\ Objects(list)[i] = list[i].msg
               /\ i \in Told(list) <=> list[i].msg # NoMsg
         /\ Messages(list) = Selected(Objects(list), Told(list))
<1>1. DOMAIN list = 1..Len(list) /\ Len(list) \in Nat
  OBVIOUS
<1>2. \A i \in 1..Len(list) : list[i].msg \in Object
  <2>1. \A i \in 1..Len(list) : list[i] \in Return
    OBVIOUS
  <2> QED
    BY <2>1 DEF Return, Object
<1>3. Objects(list) \in [1..Len(list) -> Object]
  BY <1>1, <1>2 DEF Objects
<1>4. Objects(list) \in Seq(Object) /\ Len(Objects(list)) = Len(list)
  BY <1>1, <1>3, FunctionIsSequence
<1>5. \A i \in 1..Len(list) : Objects(list)[i] = list[i].msg /\ (i \in Told(list) <=> list[i].msg # NoMsg)
  BY <1>1 DEF Objects, Told
<1>6. Messages(list) = Selected(Objects(list), Told(list))
  BY DEF Messages, Objects, Told
<1> QED
  BY <1>4, <1>5, <1>6

LEMMA MessagesNone == Messages(<<>>) = <<>>
<1>1. Objects(<<>>) = <<>>
  BY DEF Objects
<1>2. Messages(<<>>) = Selected(Objects(<<>>), Told(<<>>))
  BY DEF Messages, Objects, Told
<1> QED
  BY <1>1, <1>2, SelectedNone

LEMMA MessagesMore ==
  ASSUME NEW list \in Seq(Return), NEW r \in Return
  PROVE  /\ Messages(list) \in Seq(Object)
         /\ Messages(Append(list, r))
              = IF r.msg # NoMsg THEN Append(Messages(list), r.msg) ELSE Messages(list)
<1> DEFINE more == Append(list, r)
           n    == Len(list)
<1>1. /\ more \in Seq(Return) /\ Len(more) = n + 1 /\ n \in Nat
      /\ \A i \in 1..n : more[i] = list[i]
      /\ more[n + 1] = r
  OBVIOUS
<1> HIDE DEF more
<1>2. /\ Objects(list) \in Seq(Object) /\ Len(Objects(list)) = n
      /\ \A i \in 1..n :
            /\ Objects(list)[i] = list[i].msg
            /\ i \in Told(list) <=> list[i].msg # NoMsg
      /\ Messages(list) = Selected(Objects(list), Told(list))
  BY ObjectsTyped
<1>3. /\ Objects(more) \in Seq(Object) /\ Len(Objects(more)) = n + 1
      /\ \A i \in 1..(n + 1) :
            /\ Objects(more)[i] = more[i].msg
            /\ i \in Told(more) <=> more[i].msg # NoMsg
      /\ Messages(more) = Selected(Objects(more), Told(more))
  BY <1>1, ObjectsTyped
<1>4. n + 1 \in 1..(n + 1) /\ \A i \in 1..n : i \in 1..(n + 1)
  BY <1>1
<1>5. Alike(Objects(list), Told(list), Objects(more), Told(more), n)
  BY <1>1, <1>2, <1>3, <1>4 DEF Alike
<1>6. Objects(more)[n + 1] = r.msg /\ (n + 1 \in Told(more) <=> r.msg # NoMsg)
  BY <1>1, <1>3, <1>4
<1> HIDE DEF n
<1>7. /\ Selected(Objects(list), Told(list)) \in Seq(Object)
      /\ Selected(Objects(more), Told(more))
           = IF n + 1 \in Told(more)
             THEN Append(Selected(Objects(list), Told(list)), Objects(more)[n + 1])
             ELSE Selected(Objects(list), Told(list))
  <2>1. Len(Objects(more)) = Len(Objects(list)) + 1
    BY <1>2, <1>3
  <2>2. Alike(Objects(list), Told(list), Objects(more), Told(more), Len(Objects(list)))
    BY <1>2, <1>5
  <2> QED
    BY <1>2, <1>3, <2>1, <2>2, SelectedMore
<1> QED
  BY <1>2, <1>3, <1>6, <1>7 DEF more

(* What is reported as garbage is no message.                              *)
LEMMA MessagesFlushed ==
  ASSUME NEW list \in Seq(Return), NEW garbage \in Seq(Byte)
  PROVE  Messages(list \o Flushed(garbage)) = Messages(list)
<1>1. CASE garbage = <<>>
  <2>1. list \o <<>> = list
    BY ConcatEmptySeq
  <2> QED
    BY <1>1, <2>1 DEF Flushed
<1>2. CASE garbage # <<>>
  <2> DEFINE r == Invalid(garbage)
  <2>1. r \in Return /\ r.msg = NoMsg /\ Flushed(garbage) = <<r>>
    BY <1>2 DEF Flushed, Invalid, Return
  <2> HIDE DEF r
  <2>2. list \o <<r>> = Append(list, r)
    BY <2>1
  <2> QED
    BY <2>1, <2>2, MessagesMore
<1> QED
  BY <1>1, <1>2

(* The readable ones of the first messages of a list.                      *)
First(list, k) == AllReadable(SubSeq(list, 1, k))

LEMMA FirstNone ==
  ASSUME NEW list
  PROVE  First(list, 0) = <<>>
<1>1. SubSeq(list, 1, 0) = <<>>
  BY SubSeqEmpty
<1> QED
  BY <1>1, SelectedNone DEF First, AllReadable

LEMMA FirstMore ==
  ASSUME NEW list \in Seq(MsgType), NEW k \in Nat, k + 1 <= Len(list)
  PROVE  /\ First(list, k) \in Seq(MsgType)
         /\ First(list, k + 1)
              = IF Readable(list[k + 1]) THEN Append(First(list, k), list[k + 1])
                ELSE First(list, k)
<1> DEFINE s == SubSeq(list, 1, k)
           t == SubSeq(list, 1, k + 1)
           P == { i \in DOMAIN s : Readable(s[i]) }
           Q == { i \in DOMAIN t : Readable(t[i]) }
<1>1. /\ s \in Seq(MsgType) /\ Len(s) = k /\ DOMAIN s = 1..k
      /\ t \in Seq(MsgType) /\ Len(t) = k + 1 /\ DOMAIN t = 1..(k + 1)
      /\ \A i \in 1..k : t[i] = s[i]
      /\ t[k + 1] = list[k + 1]
  OBVIOUS
<1>2. First(list, k) = Selected(s, P) /\ First(list, k + 1) = Selected(t, Q)
  BY DEF First, AllReadable
<1> HIDE DEF s, t
<1>3. Alike(s, P, t, Q, Len(s))
  BY <1>1 DEF Alike
<1>4. k + 1 \in Q <=> Readable(list[k + 1])
  BY <1>1
<1> HIDE DEF P, Q
<1>5. /\ Selected(s, P) \in Seq(MsgType)
      /\ Selected(t, Q) = IF k + 1 \in Q THEN Append(Selected(s, P), t[k + 1])
                          ELSE Selected(s, P)
  BY <1>1, <1>3, SelectedMore
<1> QED
  BY <1>1, <1>2, <1>4, <1>5

LEMMA FirstPrefix ==
  ASSUME NEW list \in Seq(MsgType), NEW k \in 0..Len(list)
  PROVE  /\ IsPrefix(First(list, k), AllReadable(list))
         /\ k = Len(list) => First(list, k) = AllReadable(list)
<1> DEFINE s == SubSeq(list, 1, k)
           P == { i \in DOMAIN s : Readable(s[i]) }
           Q == { i \in DOMAIN list : Readable(list[i]) }
<1>1. First(list, k) = Selected(s, P) /\ AllReadable(list) = Selected(list, Q)
  BY DEF First, AllReadable
<1>2. Alike(s, P, list, Q, k)
  <2>1. /\ DOMAIN s = 1..k /\ DOMAIN list = 1..Len(list)
        /\ \A i \in 1..k : s[i] = list[i] /\ i \in 1..Len(list)
    OBVIOUS
  <2> HIDE DEF s
  <2> QED
    BY <2>1 DEF Alike
<1>3. k = Len(list) => s = list
  BY SubSeqFull
<1> HIDE DEF P, Q
<1>4. IsPrefix(Selected(s, P), Selected(list, Q))
  BY <1>2, SelectedPrefix
<1>5. k = Len(list) => First(list, k) = AllReadable(list)
  BY <1>3 DEF First
<1> QED
  BY <1>1, <1>4, <1>5

-----------------------------------------------------------------------------
(* What the stack makes of a frame it has written.                         *)
Body(msg) == <<AllMessages[msg.type].id>> \o msg.payload

LEMMA SmallRemainder ==
  ASSUME NEW n \in Nat, n < Base
  PROVE  n % Base = n
<1>1. \A b \in Nat \ {0} : n < b => n % b = n
  OBVIOUS
<1> QED
  BY <1>1, BaseAssumption

LEMMA BodyIs ==
  ASSUME NEW msg \in Outgoing
  PROVE  /\ msg.type \in DOMAIN AllMessages /\ msg.payload \in Seq(Byte)
         /\ msg \in MsgType /\ Len(msg.payload) = Len(AllMessages[msg.type].fields)
         /\ Len(msg.payload) \in Nat
         /\ Body(msg) \in Seq(Byte) /\ Len(Body(msg)) = Len(msg.payload) + 1
         /\ Body(msg)[1] = AllMessages[msg.type].id /\ Tail(Body(msg)) = msg.payload
<1>1. /\ msg.type \in DOMAIN AllMessages /\ msg.payload \in Seq(Byte) /\ msg \in MsgType
      /\ Len(msg.payload) = Len(AllMessages[msg.type].fields)
  BY OutgoingAssumption DEF MsgType
<1>2. AllMessages[msg.type].id \in Byte
  BY <1>1, TypeProperties
<1>3. ASSUME NEW id \in Byte, NEW p \in Seq(Byte)
      PROVE  /\ <<id>> \o p \in Seq(Byte) /\ Len(<<id>> \o p) = Len(p) + 1
             /\ (<<id>> \o p)[1] = id /\ Tail(<<id>> \o p) = p /\ Len(p) \in Nat
  <2>1. /\ <<id>> \o p \in Seq(Byte) /\ Len(<<id>> \o p) = Len(p) + 1
        /\ (<<id>> \o p)[1] = id /\ Len(p) \in Nat
    OBVIOUS
  <2>2. Tail(<<id>> \o p) = p
    <3> DEFINE t == Tail(<<id>> \o p)
    <3>1. t \in Seq(Byte) /\ Len(t) = Len(p) /\ \A i \in 1..Len(t) : t[i] = p[i]
      BY <2>1
    <3> QED
      BY <3>1, SeqEqual
  <2> QED
    BY <2>1, <2>2
<1> QED
  BY <1>1, <1>2, <1>3 DEF Body

(* What comes behind the prefix: the size, the body and the checksum.      *)
Enclosed(msg, s) ==
    LET n == Len(msg.payload) + 1
    IN  /\ s \in Seq(Byte) /\ Len(s) = n + 2
        /\ s[1] = n
        /\ SubSeq(s, 2, n + 1) = Body(msg)
        /\ s[n + 2] = Checksum(SubSeq(s, 1, n + 1))

LEMMA FrameIs ==
  ASSUME NEW msg \in Outgoing, Recognisable(msg)
  PROVE  /\ WriteImpl(msg) \in Seq(Byte) /\ Len(WriteImpl(msg)) = Len(msg.payload) + 4
         /\ WriteImpl(msg)[1] = SyncPrefix
         /\ Enclosed(msg, Tail(WriteImpl(msg)))
<1> DEFINE body  == Body(msg)
           l     == Len(msg.payload) + 1
           data  == <<SyncPrefix, Len(body) % Base>> \o body \o <<0>>
           n     == Len(data)
           sized == [data EXCEPT ![2] = (n - 3) % Base]
           sum   == Checksum(SubSeq(sized, 2, n - 1))
           frame == WriteImpl(msg)
           s     == Tail(frame)
<1>1. /\ body \in Seq(Byte) /\ Len(body) = l /\ l \in Nat /\ l >= 1
      /\ Len(msg.payload) \in Nat
  BY BodyIs
<1>2. l < Base
  BY DEF Recognisable
<1>3. l % Base = l /\ l \in Byte /\ SyncPrefix \in Byte /\ 0 \in Byte
  <2>1. l % Base = l
    BY <1>1, <1>2, SmallRemainder
  <2> HIDE DEF l
  <2>2. l \in Byte /\ SyncPrefix \in Byte /\ 0 \in Byte
    BY <1>1, <1>2, BaseAssumption DEF Byte
  <2> QED
    BY <2>1, <2>2
<1>4. StackWrite(msg) = data
  BY DEF StackWrite, Body
<1> HIDE DEF body, l
<1>5. /\ data \in Seq(Byte) /\ Len(data) = l + 3
      /\ data[1] = SyncPrefix /\ data[2] = l
      /\ \A i \in 1..l : data[2 + i] = body[i]
  <2> DEFINE front == <<SyncPrefix, l>>
  <2>1. front \in Seq(Byte) /\ Len(front) = 2 /\ front[1] = SyncPrefix /\ front[2] = l
    BY <1>3
  <2>2. data = (front \o body) \o <<0>>
    BY <1>1, <1>3
  <2> HIDE DEF front, data
  <2>3. /\ front \o body \in Seq(Byte) /\ Len(front \o body) = 2 + l
        /\ \A i \in 1..2 : (front \o body)[i] = front[i]
        /\ \A i \in 1..l : (front \o body)[2 + i] = body[i]
    <3>1. /\ front \o body \in Seq(Byte) /\ Len(front \o body) = Len(front) + Len(body)
          /\ \A i \in 1..Len(front) : (front \o body)[i] = front[i]
          /\ \A i \in 1..Len(body) : (front \o body)[Len(front) + i] = body[i]
      BY <1>1, <2>1, MoreBytes
    <3> QED
      BY <1>1, <2>1, <3>1
  <2> DEFINE fb == front \o body
  <2> HIDE DEF fb
  <2>4. fb \in Seq(Byte) /\ Len(fb) = 2 + l
    BY <2>3 DEF fb
  <2>5. /\ fb \o <<0>> \in Seq(Byte) /\ Len(fb \o <<0>>) = 3 + l
        /\ \A i \in 1..(2 + l) : (fb \o <<0>>)[i] = fb[i]
    <3>1. <<0>> \in Seq(Byte) /\ Len(<<0>>) = 1
      BY <1>3
    <3> QED
      BY <1>1, <2>4, <3>1, MoreBytes
  <2>6. 1 \in 1..(2 + l) /\ 2 \in 1..(2 + l) /\ 1 \in 1..2 /\ 2 \in 1..2
        /\ \A i \in 1..l : 2 + i \in 1..(2 + l)
    BY <1>1
  <2> QED
    BY <1>1, <2>1, <2>2, <2>3, <2>5, <2>6 DEF fb
<1> HIDE DEF data
<1>6. n = l + 3 /\ (n - 3) % Base = l /\ n - 1 = l + 2 /\ 2 \in 1..n /\ n \in 1..n /\ n \in Nat
  BY <1>1, <1>3, <1>5
<1>7. /\ sized \in Seq(Byte) /\ Len(sized) = l + 3
      /\ sized[1] = SyncPrefix /\ sized[2] = l
      /\ \A i \in 1..l : sized[2 + i] = body[i]
  <2>1. sized \in Seq(Byte) /\ Len(sized) = n /\ \A i \in 1..n : sized[i] = IF i = 2 THEN l ELSE data[i]
    BY <1>3, <1>5, <1>6, ExceptSeq
  <2>2. /\ 1 \in 1..n /\ 2 \in 1..n /\ \A i \in 1..l : 2 + i \in 1..n /\ 2 + i # 2
    BY <1>1, <1>6
  <2> HIDE DEF sized
  <2> QED
    BY <1>5, <1>6, <2>1, <2>2
<1>8. frame = [sized EXCEPT ![n] = sum]
  BY <1>4 DEF WriteImpl, StackUpdate
<1> HIDE DEF sized, frame
<1>9. sum \in Byte
  <2>1. SubSeq(sized, 2, n - 1) \in Seq(Byte)
    BY <1>1, <1>6, <1>7
  <2> QED
    BY <2>1, ChecksumTyped
<1>10. /\ frame \in Seq(Byte) /\ Len(frame) = l + 3 /\ frame[l + 3] = sum
       /\ \A i \in 1..(l + 2) : frame[i] = sized[i]
  <2> HIDE DEF sum
  <2>1. frame \in Seq(Byte) /\ Len(frame) = n /\ \A i \in 1..n : frame[i] = IF i = n THEN sum ELSE sized[i]
    BY <1>6, <1>7, <1>8, <1>9, ExceptSeq
  <2>2. l + 3 \in 1..n /\ \A i \in 1..(l + 2) : i \in 1..n /\ i # n
    BY <1>1, <1>6
  <2> QED
    BY <1>6, <2>1, <2>2
<1>11. sum = Checksum(SubSeq(sized, 2, l + 2))
  BY <1>6
<1> HIDE DEF sum, n
<1>12. /\ s \in Seq(Byte) /\ Len(s) = l + 2
       /\ \A i \in 1..(l + 2) : s[i] = frame[i + 1]
  BY <1>1, <1>10
<1> HIDE DEF s
<1>13. s[1] = l /\ s[l + 2] = sum
  <2>1. 1 \in 1..(l + 2) /\ l + 2 \in 1..(l + 2) /\ 2 \in 1..(l + 2)
        /\ 1 + 1 = 2 /\ (l + 2) + 1 = l + 3
    BY <1>1
  <2> QED
    BY <1>7, <1>10, <1>12, <2>1
<1>14. SubSeq(s, 1, l + 1) = SubSeq(sized, 2, l + 2)
  <2> DEFINE a == SubSeq(s, 1, l + 1)
             b == SubSeq(sized, 2, l + 2)
  <2>1. a \in Seq(Byte) /\ Len(a) = l + 1 /\ \A i \in 1..(l + 1) : a[i] = s[i]
    BY <1>1, <1>12
  <2>2. b \in Seq(Byte) /\ Len(b) = l + 1 /\ \A i \in 1..(l + 1) : b[i] = sized[i + 1]
    BY <1>1, <1>7
  <2>3. \A i \in 1..(l + 1) : i \in 1..(l + 2) /\ i + 1 \in 1..(l + 2)
    BY <1>1
  <2>4. \A i \in 1..(l + 1) : a[i] = b[i]
    BY <1>10, <1>12, <2>1, <2>2, <2>3
  <2> QED
    BY <2>1, <2>2, <2>4, SeqEqual
<1>15. SubSeq(s, 2, l + 1) = body
  <2> DEFINE a == SubSeq(s, 2, l + 1)
  <2>1. a \in Seq(Byte) /\ Len(a) = l /\ \A i \in 1..l : a[i] = s[i + 1]
    BY <1>1, <1>12
  <2>2. \A i \in 1..l : i + 1 \in 1..(l + 2) /\ i + 1 + 1 \in 1..(l + 2) /\ i + 1 + 1 = 2 + i
    BY <1>1
  <2>3. \A i \in 1..l : a[i] = body[i]
    BY <1>7, <1>10, <1>12, <2>1, <2>2
  <2> QED
    BY <1>1, <2>1, <2>3, SeqEqual
<1>16. frame[1] = SyncPrefix
  <2>1. 1 \in 1..(l + 2)
    BY <1>1
  <2> QED
    BY <1>7, <1>10, <2>1
<1>17. Enclosed(msg, s)
  BY <1>11, <1>12, <1>13, <1>14, <1>15 DEF Enclosed, l, body
<1>18. l + 3 = Len(msg.payload) + 4
  BY <1>1 DEF l
<1> QED
  BY <1>10, <1>16, <1>17, <1>18 DEF frame, s

(* The type a readable message is of reads it as it was sent.              *)
LEMMA OwnRead ==
  ASSUME NEW msg \in Outgoing, Readable(msg)
  PROVE  /\ MsgDataRead(msg.type, msg.payload).es = "Success"
         /\ MsgDataRead(msg.type, msg.payload).msg = msg
<1> DEFINE fields == AllMessages[msg.type].fields
           p      == msg.payload
           bad    == { i \in DOMAIN fields : i > Len(p) \/ p[i] \notin fields[i] }
<1>1. /\ msg.type \in DOMAIN AllMessages /\ p \in Seq(Byte) /\ msg \in MsgType
      /\ Len(p) = Len(fields) /\ Len(p) \in Nat
  BY BodyIs
<1>2. fields \in Seq(SUBSET Byte)
  BY <1>1, TypeProperties
<1>3. \A i \in DOMAIN p : p[i] \in fields[i]
  BY DEF Readable
<1> HIDE DEF fields, p
<1>4. DOMAIN fields = 1..Len(p) /\ DOMAIN p = 1..Len(p)
  BY <1>1, <1>2
<1>5. bad = {}
  BY <1>1, <1>3, <1>4
<1> HIDE DEF bad
<1>6. MsgDataRead(msg.type, p)
        = [es |-> "Success", consumed |-> Len(fields),
           msg |-> [type |-> msg.type, payload |-> SubSeq(p, 1, Len(fields))]]
  BY <1>5, Zenon DEF MsgDataRead, bad, fields
<1>7. SubSeq(p, 1, Len(fields)) = p
  BY <1>1, SubSeqFull
<1>8. [type |-> msg.type, payload |-> p] = msg
  BY <1>1 DEF MsgType, p
<1> QED
  BY <1>6, <1>7, <1>8 DEF p

(* Among the types with its id, a recognisable message is read as what it  *)
(* is, or as invalid.                                                      *)
LEMMA RecognisedRead ==
  ASSUME NEW msg \in Outgoing, Recognisable(msg)
  PROVE  LET r == MsgIdRead(Body(msg))
         IN  /\ Takes(r)
             /\ r.msg = IF Readable(msg) THEN msg ELSE NoMsg
<1> DEFINE p     == msg.payload
           types == TypesWithId(AllMessages[msg.type].id)
           readable == { i \in types : MsgDataRead(i, p).es = "Success" }
           r     == MsgIdRead(Body(msg))
<1>1. /\ msg.type \in DOMAIN AllMessages /\ p \in Seq(Byte)
      /\ Body(msg) \in Seq(Byte) /\ Len(Body(msg)) = Len(p) + 1 /\ Len(p) \in Nat
      /\ Body(msg)[1] = AllMessages[msg.type].id /\ Tail(Body(msg)) = p
  BY BodyIs
<1>2. Body(msg) # <<>>
  BY <1>1
<1>3. r = FirstRead(types, p)
  BY <1>1, <1>2 DEF MsgIdRead
<1> HIDE DEF r
<1>4. msg.type \in types /\ types \subseteq Nat /\ types \subseteq 1..Len(AllMessages)
      /\ types \subseteq DOMAIN AllMessages /\ Len(AllMessages) \in Nat
  BY <1>1, TypeProperties DEF TypesWithId
<1>5. \A i \in types :
         IF Readable(msg) THEN MsgDataRead(i, p).es = "Success" => msg.type <= i
         ELSE MsgDataRead(i, p).es = "InvalidMsgData"
  BY DEF Recognisable
<1> HIDE DEF types
<1>6. CASE Readable(msg)
  <2>1. MsgDataRead(msg.type, p).es = "Success" /\ MsgDataRead(msg.type, p).msg = msg
    BY <1>6, OwnRead
  <2>2. msg.type \in readable /\ readable \subseteq Nat
    BY <1>4, <2>1
  <2>3. \A i \in readable : msg.type <= i
    BY <1>5, <1>6
  <2>4. Min(readable) = msg.type
    <3> HIDE DEF readable
    <3>1. Min(readable) \in readable
      BY <2>2, MinIsIn
    <3>2. \A y \in readable : Min(readable) <= y
      <4>1. \E x \in readable : \A y \in readable : x <= y
        BY <2>2, <2>3
      <4> QED
        BY <4>1, Zenon DEF Min
    <3> DEFINE m == Min(readable)
    <3>3. m \in Nat /\ msg.type \in Nat /\ msg.type <= m /\ m <= msg.type
      BY <2>2, <2>3, <3>1, <3>2
    <3> HIDE DEF m
    <3>4. m = msg.type
      BY <3>3
    <3> QED
      BY <3>4 DEF m
  <2>5. r = [MsgDataRead(Min(readable), p) EXCEPT !.consumed = @ + 1]
    <3>1. readable # {}
      BY <2>2
    <3> QED
      BY <1>3, <3>1, Zenon DEF FirstRead
  <2> DEFINE own == MsgDataRead(msg.type, p)
  <2>6. own \in Answer
    BY <1>1, MsgDataReadTyped
  <2>7. r = [own EXCEPT !.consumed = @ + 1]
    BY <2>4, <2>5
  <2> HIDE DEF own
  <2>8. r.es = own.es /\ r.msg = own.msg
    BY <2>6, <2>7 DEF Answer
  <2> QED
    BY <1>6, <2>1, <2>8 DEF Takes, own, r
<1>7. CASE ~Readable(msg)
  <2>1. readable = {} /\ types # {}
    BY <1>4, <1>5, <1>7
  <2>2. r = Failure(MsgDataRead(Max(types), p).es, 1)
    BY <1>3, <2>1, Zenon DEF FirstRead
  <2>3. Max(types) \in types
    BY <1>4, <2>1, MaxIsIn
  <2>4. MsgDataRead(Max(types), p).es = "InvalidMsgData"
    BY <1>5, <1>7, <2>3
  <2>5. r.es = "InvalidMsgData" /\ r.msg = NoMsg
    BY <2>2, <2>4 DEF Failure
  <2> QED
    BY <1>7, <2>5 DEF Takes, r
<1> QED
  BY <1>6, <1>7

(* A frame is taken as a whole, for the message it was written for.        *)
LEMMA FrameRead ==
  ASSUME NEW msg \in Outgoing, Recognisable(msg)
  PROVE  LET r == StackRead(WriteImpl(msg))
         IN  /\ Takes(r)
             /\ r.consumed = Len(WriteImpl(msg))
             /\ r.msg = IF Readable(msg) THEN msg ELSE NoMsg
<1> DEFINE frame == WriteImpl(msg)
           s     == Tail(frame)
           n     == Len(msg.payload) + 1
           inner == MsgIdRead(Body(msg))
           size  == MsgSizeRead(s)
           check == ChecksumRead(s)
           r     == StackRead(frame)
<1>1. /\ frame \in Seq(Byte) /\ Len(frame) = n + 3 /\ frame[1] = SyncPrefix
      /\ s \in Seq(Byte) /\ Len(s) = n + 2 /\ s[1] = n
      /\ SubSeq(s, 2, n + 1) = Body(msg)
      /\ s[n + 2] = Checksum(SubSeq(s, 1, n + 1))
      /\ n \in Nat
  <2>1. Len(msg.payload) \in Nat
    BY BodyIs
  <2> QED
    BY <2>1, FrameIs DEF Enclosed
<1>2. Takes(inner) /\ inner.msg = IF Readable(msg) THEN msg ELSE NoMsg
  BY RecognisedRead
<1>3. inner \in Answer
  <2>1. Body(msg) \in Seq(Byte)
    BY BodyIs
  <2> QED
    BY <2>1, MsgIdReadTyped
<1> HIDE DEF frame, s, n
<1>4. size = Sized(inner, n)
  <2>1. s # <<>> /\ ~(Len(s) - 1 < s[1])
    BY <1>1
  <2>2. size = Sized(MsgIdRead(SubSeq(s, 2, s[1] + 1)), s[1])
    BY <2>1, Zenon DEF MsgSizeRead
  <2> QED
    BY <1>1, <2>2
<1> HIDE DEF inner
<1>5. size.es = inner.es /\ size.msg = inner.msg /\ size.consumed = 1 + n
  BY <1>2, <1>3, <1>4 DEF Sized, Takes, Answer
<1>6. check = Verified(size, s)
  BY DEF ChecksumRead
<1>7. size \in Answer
  BY <1>1, MsgSizeReadTyped
<1> HIDE DEF size
<1>8. check = [size EXCEPT !.consumed = @ + 1]
  <2>1. size.consumed = n + 1 /\ size.consumed + 1 = n + 2 /\ Len(s) # size.consumed
    BY <1>1, <1>5
  <2>2. s[size.consumed + 1] = Checksum(SubSeq(s, 1, size.consumed))
    BY <1>1, <2>1
  <2>3. size.es \notin {"NotEnoughData", "ProtocolError"}
    BY <1>2, <1>5 DEF Takes
  <2> QED
    BY <1>6, <2>1, <2>2, <2>3 DEF Verified
<1>9. check.es = inner.es /\ check.msg = inner.msg /\ check.consumed = n + 2
  <2>1. size.consumed + 1 = n + 2
    BY <1>1, <1>5
  <2> QED
    BY <1>5, <1>7, <1>8, <2>1 DEF Answer
<1>10. check \in Answer
  BY <1>1, ChecksumReadTyped
<1>11. r = [check EXCEPT !.consumed = @ + 1]
  <2>1. frame # <<>>
    BY <1>1
  <2> QED
    BY <1>1, <2>1, Zenon DEF StackRead, s
<1> HIDE DEF check
<1>12. r.es = inner.es /\ r.msg = inner.msg /\ r.consumed = n + 3
  <2>1. check.consumed + 1 = n + 3
    BY <1>1, <1>9
  <2> QED
    BY <1>9, <1>10, <1>11, <2>1 DEF Answer
<1> HIDE DEF r
<1> QED
  BY <1>1, <1>2, <1>12 DEF Takes, frame, r

-----------------------------------------------------------------------------
(* Where the messages are in the stream.                                   *)
Width(msg) == Len(WriteImpl(msg))

(* The frame of the message stands behind the first p bytes.               *)
Holds(all, msg, p) ==
    /\ p + Width(msg) <= Len(all)
    /\ \A i \in 1..Width(msg) : all[p + i] = WriteImpl(msg)[i]

(* The frames of the list follow each other, and what is outside of them   *)
(* begins none.                                                            *)
LaidOut(all, list, starts) ==
    /\ starts \in [1..Len(list) -> Nat]
    /\ \A i \in 1..Len(list) : Holds(all, list[i], starts[i])
    /\ \A i, j \in 1..Len(list) : i < j => starts[i] + Width(list[i]) <= starts[j]
    /\ \A p \in 1..Len(all) : all[p] = SyncPrefix =>
          \E i \in 1..Len(list) : starts[i] < p /\ p <= starts[i] + Width(list[i])

(* The first k frames end before the position, the others start behind it. *)
Between(list, starts, pos, k) ==
    /\ k \in 0..Len(list)
    /\ \A i \in 1..k : starts[i] + Width(list[i]) <= pos
    /\ \A i \in (k + 1)..Len(list) : pos <= starts[i]

LEMMA WidthIs ==
  ASSUME NEW msg \in Outgoing, Recognised
  PROVE  Width(msg) \in Nat /\ Width(msg) >= 1 /\ WriteImpl(msg) \in Seq(Byte)
<1>1. Len(msg.payload) \in Nat
  BY BodyIs
<1>2. WriteImpl(msg) \in Seq(Byte) /\ Len(WriteImpl(msg)) = Len(msg.payload) + 4
  BY FrameIs DEF Recognised
<1> QED
  BY <1>1, <1>2 DEF Width

LEMMA ListIs ==
  ASSUME NEW list \in Seq(Outgoing), Recognised
  PROVE  /\ Len(list) \in Nat /\ list \in Seq(MsgType)
         /\ \A i \in 1..Len(list) :
               list[i] \in Outgoing /\ Width(list[i]) \in Nat /\ Width(list[i]) >= 1
<1>1. Len(list) \in Nat /\ \A i \in 1..Len(list) : list[i] \in Outgoing
  OBVIOUS
<1>2. Outgoing \subseteq MsgType
  BY OutgoingAssumption
<1>3. list \in Seq(MsgType)
  BY <1>2
<1> QED
  BY <1>1, <1>3, WidthIs

(* A byte that no frame begins with the next one is no sync prefix, and can*)
(* be passed.                                                              *)
LEMMA Outside ==
  ASSUME NEW list \in Seq(Outgoing), Recognised, NEW all \in Seq(Byte), NEW starts,
         LaidOut(all, list, starts), NEW pos \in Nat, NEW k, pos + 1 <= Len(all),
         Between(list, starts, pos, k), k = Len(list) \/ pos # starts[k + 1]
  PROVE  all[pos + 1] # SyncPrefix /\ Between(list, starts, pos + 1, k)
<1> DEFINE n == Len(list)
           w == [i \in 1..n |-> Width(list[i])]
<1>1. /\ n \in Nat /\ k \in 0..n /\ starts \in [1..n -> Nat] /\ Len(all) \in Nat
      /\ \A i \in 1..n : w[i] \in Nat /\ w[i] >= 1
      /\ \A i, j \in 1..n : i < j => starts[i] + w[i] <= starts[j]
      /\ \A i \in 1..k : starts[i] + w[i] <= pos
      /\ \A i \in (k + 1)..n : pos <= starts[i]
  BY ListIs DEF LaidOut, Between
<1>2. all[pos + 1] = SyncPrefix =>
        \E i \in 1..n : starts[i] < pos + 1 /\ pos + 1 <= starts[i] + w[i]
  <2>1. pos + 1 \in 1..Len(all)
    BY <1>1
  <2> QED
    BY <2>1 DEF LaidOut
<1>3. /\ \A i \in 1..k : starts[i] + Width(list[i]) = starts[i] + w[i]
      /\ k = n \/ pos # starts[k + 1]
  BY <1>1
<1> HIDE DEF w, n
<1>4. ASSUME NEW i \in (k + 1)..n PROVE pos + 1 <= starts[i]
  <2>1. k \in Nat /\ n \in Nat /\ i \in Nat /\ k + 1 <= i /\ i <= n /\ i \in 1..n /\ k + 1 \in 1..n
        /\ k + 1 \in (k + 1)..n
    BY <1>1
  <2>2. /\ starts[k + 1] \in Nat /\ starts[i] \in Nat /\ pos <= starts[k + 1]
        /\ pos # starts[k + 1] /\ w[k + 1] \in Nat /\ w[k + 1] >= 1
        /\ k + 1 < i => starts[k + 1] + w[k + 1] <= starts[i]
    BY <1>1, <1>3, <2>1
  <2>3. CASE i = k + 1
    BY <2>2, <2>3
  <2>4. CASE k + 1 < i
    BY <2>2, <2>4
  <2> QED
    BY <2>1, <2>3, <2>4
<1>5. all[pos + 1] # SyncPrefix
  <2> SUFFICES ASSUME NEW i \in 1..n, starts[i] < pos + 1, pos + 1 <= starts[i] + w[i]
               PROVE  FALSE
    BY <1>2
  <2>1. starts[i] \in Nat /\ w[i] \in Nat /\ (i \in 1..k \/ i \in (k + 1)..n)
    BY <1>1
  <2>2. CASE i \in 1..k
    BY <1>1, <2>1, <2>2
  <2>3. CASE i \in (k + 1)..n
    BY <1>4, <2>1, <2>3
  <2> QED
    BY <2>1, <2>2, <2>3
<1>6. ASSUME NEW i \in 1..k PROVE starts[i] + Width(list[i]) <= pos + 1
  <2>1. starts[i] + w[i] <= pos /\ starts[i] \in Nat /\ w[i] \in Nat
    BY <1>1
  <2> QED
    BY <1>3, <2>1
<1> QED
  BY <1>1, <1>4, <1>5, <1>6 DEF Between, n

(* Behind the frame that starts here, the next ones start.                 *)
LEMMA Behind ==
  ASSUME NEW list \in Seq(Outgoing), Recognised, NEW all, NEW starts,
         LaidOut(all, list, starts), NEW pos \in Nat, NEW k,
         Between(list, starts, pos, k), k # Len(list), pos = starts[k + 1]
  PROVE  Between(list, starts, pos + Width(list[k + 1]), k + 1)
<1> DEFINE n == Len(list)
           w == [i \in 1..n |-> Width(list[i])]
           next == pos + w[k + 1]
<1>1. /\ n \in Nat /\ k \in 0..n /\ starts \in [1..n -> Nat]
      /\ \A i \in 1..n : w[i] \in Nat /\ w[i] >= 1
      /\ \A i, j \in 1..n : i < j => starts[i] + w[i] <= starts[j]
      /\ \A i \in 1..k : starts[i] + w[i] <= pos
      /\ \A i \in 1..n : w[i] = Width(list[i])
  BY ListIs DEF LaidOut, Between
<1> HIDE DEF w
<1>2. k \in Nat /\ k + 1 \in 1..n /\ k + 1 \in Nat /\ k # n
  BY <1>1
<1>3. w[k + 1] = Width(list[k + 1]) /\ w[k + 1] \in Nat
  BY <1>1, <1>2
<1> HIDE DEF n
<1>4. ASSUME NEW i \in 1..(k + 1) PROVE starts[i] + w[i] <= next
  <2>1. i \in 1..k \/ i = k + 1
    BY <1>2
  <2>2. CASE i \in 1..k
    <3>1. i \in 1..n
      BY <1>1, <1>2, <2>2
    <3>2. starts[i] + w[i] <= pos /\ starts[i] \in Nat /\ w[i] \in Nat
      BY <1>1, <2>2, <3>1
    <3> QED
      BY <1>3, <3>2
  <2>3. CASE i = k + 1
    BY <1>1, <1>3, <2>3
  <2> QED
    BY <2>1, <2>2, <2>3
<1>5. ASSUME NEW i \in (k + 1 + 1)..n PROVE next <= starts[i]
  <2>1. i \in 1..n /\ k + 1 < i
    BY <1>1, <1>2
  <2>2. starts[k + 1] + w[k + 1] <= starts[i]
    BY <1>1, <1>2, <2>1
  <2> QED
    BY <2>2
<1>6. k + 1 \in 0..n
  BY <1>1, <1>2
<1>7. \A i \in 1..(k + 1) : i \in 1..n
  BY <1>1, <1>2
<1> QED
  BY <1>1, <1>3, <1>4, <1>5, <1>6, <1>7 DEF Between, n

-----------------------------------------------------------------------------
(* The loop of readImpl finds the frames.                                  *)

LEMMA FrameAhead ==
  ASSUME NEW all \in Seq(Byte), NEW msg \in Outgoing, Recognised, NEW p \in Nat,
         Holds(all, msg, p)
  PROVE  \E y \in Seq(Byte) : SubSeq(all, p + 1, Len(all)) = WriteImpl(msg) \o y
<1> DEFINE n     == Len(all)
           w     == Width(msg)
           frame == WriteImpl(msg)
           rest  == SubSeq(all, p + 1, n)
           y     == SubSeq(all, p + w + 1, n)
<1>1. /\ n \in Nat /\ w \in Nat /\ p + w <= n /\ frame \in Seq(Byte) /\ Len(frame) = w
      /\ \A i \in 1..w : all[p + i] = frame[i]
  BY WidthIs DEF Holds, Width
<1> HIDE DEF w, frame
<1>2. /\ rest \in Seq(Byte) /\ Len(rest) = n - p
      /\ \A i \in 1..(n - p) : rest[i] = all[p + i]
  BY <1>1
<1>3. /\ y \in Seq(Byte) /\ Len(y) = n - p - w
      /\ \A i \in 1..(n - p - w) : y[i] = all[p + w + i]
  BY <1>1
<1> HIDE DEF n, rest, y
<1>4. /\ frame \o y \in Seq(Byte) /\ Len(frame \o y) = n - p
      /\ \A i \in 1..w : (frame \o y)[i] = frame[i]
      /\ \A i \in 1..(n - p - w) : (frame \o y)[w + i] = y[i]
  <2>1. /\ frame \o y \in Seq(Byte) /\ Len(frame \o y) = Len(frame) + Len(y)
        /\ \A i \in 1..Len(frame) : (frame \o y)[i] = frame[i]
        /\ \A i \in 1..Len(y) : (frame \o y)[Len(frame) + i] = y[i]
    BY <1>1, <1>3, MoreBytes
  <2> QED
    BY <1>1, <1>3, <2>1
<1>5. ASSUME NEW i \in 1..(n - p) PROVE rest[i] = (frame \o y)[i]
  <2>1. CASE i \in 1..w
    BY <1>1, <1>2, <1>4, <2>1
  <2>2. CASE i \notin 1..w
    <3> DEFINE j == i - w
    <3>1. j \in 1..(n - p - w) /\ i = w + j /\ p + i = p + w + j
      BY <1>1, <2>2
    <3> HIDE DEF j
    <3>2. rest[i] = all[p + w + j] /\ y[j] = all[p + w + j] /\ (frame \o y)[w + j] = y[j]
      BY <1>2, <1>3, <1>4, <3>1
    <3> QED
      BY <3>1, <3>2
  <2> QED
    BY <2>1, <2>2
<1>6. rest = frame \o y
  <2>1. Len(rest) = Len(frame \o y) /\ \A i \in 1..Len(rest) : rest[i] = (frame \o y)[i]
    BY <1>2, <1>4, <1>5
  <2> QED
    BY <1>2, <1>4, <2>1, SeqEqual
<1> QED
  BY <1>3, <1>6 DEF rest, n, frame

(* What the stack answers at the beginning of a frame, as soon as it does. *)
LEMMA ReadAhead ==
  ASSUME NEW data \in Seq(Byte), NEW x \in Seq(Byte), NEW msg \in Outgoing, Recognised,
         NEW garbage, NEW st \in Good(garbage, data), Holds(data \o x, msg, st.pos)
  PROVE  /\ x = <<>> => ~Stops(st, data)
         /\ ~Stops(st, data) => StackRead(Rest(st, data)) = StackRead(WriteImpl(msg))
<1> DEFINE rest  == Rest(st, data)
           frame == WriteImpl(msg)
           all   == data \o x
<1>1. /\ st.pos \in 0..Len(data) /\ st.pos \in Nat /\ rest \in Seq(Byte) /\ all \in Seq(Byte)
      /\ frame \in Seq(Byte) /\ Len(frame) >= 1
  BY StateFacts, WidthIs, MoreBytes DEF Width
<1>2. SubSeq(all, st.pos + 1, Len(all)) = rest \o x
  BY <1>1, RestGoesOn DEF Rest
<1>3. PICK y \in Seq(Byte) : SubSeq(all, st.pos + 1, Len(all)) = frame \o y
  BY <1>1, FrameAhead
<1>4. Takes(StackRead(frame))
  BY FrameRead DEF Recognised
<1>5. Decided(StackRead(frame))
  BY <1>4 DEF Takes, Decided
<1>6. StackRead(rest \o x) = StackRead(frame)
  <2>1. StackRead(frame \o y) = StackRead(frame)
    BY <1>1, <1>5, StackReadStays
  <2> HIDE DEF rest, frame, all
  <2> QED
    BY <1>2, <1>3, <2>1
<1>7. ASSUME x = <<>> PROVE ~Stops(st, data)
  <2>1. rest \o x = rest
    BY <1>1, <1>7, ConcatEmptySeq
  <2>2. rest # <<>>
    <3>1. rest = frame \o y
      BY <1>2, <1>3, <2>1
    <3>2. Len(frame \o y) = Len(frame) + Len(y) /\ Len(y) \in Nat /\ Len(frame) \in Nat
      BY <1>1, MoreBytes
    <3> HIDE DEF rest, frame
    <3>3. Len(rest) >= 1
      BY <1>1, <3>1, <3>2
    <3> QED
      BY <3>3
  <2> QED
    BY <1>5, <1>6, <2>1, <2>2 DEF Stops
<1>8. ASSUME ~Stops(st, data) PROVE StackRead(rest) = StackRead(frame)
  <2>1. Decided(StackRead(rest))
    BY <1>8 DEF Stops
  <2>2. StackRead(rest \o x) = StackRead(rest)
    BY <1>1, <2>1, StackReadStays
  <2> QED
    BY <1>6, <2>2
<1> QED
  BY <1>7, <1>8

(* The first k messages of the list are told of, and the loop is between   *)
(* the frames of these and the others.                                     *)
Reached(st, list, starts, k) ==
    /\ Between(list, starts, st.pos, k)
    /\ Messages(st.msgs) = First(list, k)

LEMMA StepReaches ==
  ASSUME NEW list \in Seq(Outgoing), Recognised, NEW data \in Seq(Byte), NEW x \in Seq(Byte),
         NEW starts, LaidOut(data \o x, list, starts),
         NEW garbage \in Seq(Byte), NEW st \in Good(garbage, data), NEW k, Reached(st, list, starts, k)
  PROVE  \E m : Reached(StepOn(st, data), list, starts, m)
<1> DEFINE rest == Rest(st, data)
           r    == StackRead(rest)
           all  == data \o x
           next == StepOn(st, data)
<1>1. /\ st.pos \in 0..Len(data) /\ st.pos \in Nat /\ st.garbage \in Seq(Byte)
      /\ st.msgs \in Seq(Return) /\ st \in States
      /\ rest \in Seq(Byte) /\ Len(rest) = Len(data) - st.pos /\ Len(data) \in Nat
  BY StateFacts, GoodIsState
<1>2. r \in Answer /\ Within(r, rest)
  BY <1>1, StackReadTyped
<1>3. CASE st.done
  <2>1. next = st
    BY <1>3 DEF StepOn
  <2> QED
    BY <2>1
<1>4. CASE ~st.done /\ Stops(st, data)
  <2>1. next = Ended(st)
    BY <1>4, StepMoves
  <2>2. next.pos = st.pos /\ next.msgs = st.msgs
    BY <1>1, <2>1, EndedIs
  <2>3. Reached(next, list, starts, k)
    BY <2>2 DEF Reached
  <2> QED
    BY <2>3
<1>5. CASE ~st.done /\ ~Stops(st, data)
  <2>1. next = ReadStep(st, rest, r)
    BY <1>5 DEF StepOn
  <2>2. rest # <<>> /\ r.es # "NotEnoughData"
    BY <1>5 DEF Stops, Decided
  <2>3. all \in Seq(Byte) /\ st.pos + 1 <= Len(all) /\ st.pos + 1 <= Len(data)
    <3>1. all \in Seq(Byte) /\ Len(all) = Len(data) + Len(x) /\ Len(x) \in Nat
      BY MoreBytes
    <3>2. Len(rest) # 0
      BY <1>1, <2>2
    <3> HIDE DEF rest
    <3> QED
      BY <1>1, <3>1, <3>2
  <2>4. Between(list, starts, st.pos, k) /\ k \in 0..Len(list) /\ Len(list) \in Nat
        /\ Messages(st.msgs) = First(list, k)
    BY ListIs DEF Reached, Between
  <2>5. CASE k # Len(list) /\ st.pos = starts[k + 1]
    <3> DEFINE msg == list[k + 1]
               raw == SubSeq(rest, 1, r.consumed)
               one == [raw |-> raw, msg |-> r.msg]
               f   == Flushed(st.garbage)
    <3>1. k + 1 \in 1..Len(list) /\ k \in Nat /\ k + 1 <= Len(list)
      BY <2>4, <2>5
    <3>2. msg \in Outgoing /\ Holds(all, msg, st.pos)
      BY <2>5, <3>1, ListIs DEF LaidOut
    <3>3. r = StackRead(WriteImpl(msg))
      BY <1>5, <3>2, ReadAhead
    <3>4. Takes(r) /\ r.consumed = Width(msg) /\ r.msg = IF Readable(msg) THEN msg ELSE NoMsg
      BY <3>2, <3>3, FrameRead DEF Recognised, Width
    <3>5. next = Taken(st, raw, r.msg)
      BY <2>1, <2>2, <3>4 DEF ReadStep, Takes
    <3>6. raw \in Seq(Byte) /\ Len(raw) = Width(msg)
      <4>1. r.consumed \in 1..Len(rest)
        BY <1>2, <3>4 DEF Within
      <4> DEFINE c == r.consumed
      <4> HIDE DEF rest, c
      <4>2. SubSeq(rest, 1, c) \in Seq(Byte) /\ Len(SubSeq(rest, 1, c)) = c
        BY <1>1, <4>1 DEF c
      <4> QED
        BY <3>4, <4>2 DEF c
    <3> HIDE DEF raw, r, rest, next
    <3>7. /\ next.pos = st.pos + Width(msg)
          /\ next.msgs = (st.msgs \o f) \o <<one>>
          /\ f \in Seq(Return) /\ one \in Return
      <4>1. /\ next.pos = st.pos + Len(raw)
            /\ next.msgs = (st.msgs \o f) \o <<one>>
            /\ f \in Seq(Return)
        BY <1>1, <1>2, <3>5, <3>6, TakenIs
      <4>2. one \in Return
        BY <1>2, <3>6 DEF Return, Answer
      <4> QED
        BY <3>6, <4>1, <4>2
    <3>8. Messages(next.msgs)
            = IF r.msg # NoMsg THEN Append(Messages(st.msgs), r.msg) ELSE Messages(st.msgs)
      <4> DEFINE g == st.msgs \o f
      <4>1. g \in Seq(Return) /\ Messages(g) = Messages(st.msgs)
        BY <1>1, <3>7, MessagesFlushed
      <4>2. one.msg = r.msg
        OBVIOUS
      <4> HIDE DEF g, one
      <4>3. g \o <<one>> = Append(g, one)
        BY <3>7, <4>1
      <4>4. Messages(Append(g, one))
              = IF one.msg # NoMsg THEN Append(Messages(g), one.msg) ELSE Messages(g)
        BY <3>7, <4>1, MessagesMore
      <4> QED
        BY <3>7, <4>1, <4>2, <4>3, <4>4 DEF g
    <3>9. msg # NoMsg
      <4>1. msg.type \in DOMAIN AllMessages
        BY <3>2, BodyIs
      <4>2. msg.type >= 1
        BY <4>1, TypeProperties
      <4> QED
        BY <4>2 DEF NoMsg
    <3>10. First(list, k + 1)
             = IF Readable(msg) THEN Append(First(list, k), msg) ELSE First(list, k)
      BY <3>1, ListIs, FirstMore
    <3>11. Messages(next.msgs) = First(list, k + 1)
      BY <2>4, <3>4, <3>8, <3>9, <3>10
    <3>12. Between(list, starts, next.pos, k + 1)
      BY <1>1, <2>4, <2>5, <3>7, Behind
    <3>13. Reached(next, list, starts, k + 1)
      BY <3>11, <3>12 DEF Reached
    <3> QED
      BY <3>13 DEF next
  <2>6. CASE k = Len(list) \/ st.pos # starts[k + 1]
    <3>1. all[st.pos + 1] # SyncPrefix /\ Between(list, starts, st.pos + 1, k)
      BY <1>1, <2>3, <2>4, <2>6, Outside
    <3>2. rest[1] = data[st.pos + 1] /\ rest[1] \in Byte
      BY <1>1, <2>3 DEF Rest
    <3>3. all[st.pos + 1] = data[st.pos + 1]
      <4>1. st.pos + 1 \in 1..Len(data)
        BY <1>1, <2>3
      <4> QED
        BY <4>1, MoreBytes
    <3>4. r.es = "ProtocolError"
      BY <2>2, <3>1, <3>2, <3>3, FailureIs DEF StackRead
    <3>5. next = Dropped(st, rest[1])
      BY <2>1, <2>2, <3>4 DEF ReadStep
    <3> DEFINE dropped == Append(st.garbage, rest[1])
               f == Flushed(dropped)
    <3>6. dropped \in Seq(Byte)
      BY <1>1, <3>2
    <3>7. /\ next.pos = st.pos + 1
          /\ next.msgs = st.msgs \/ next.msgs = st.msgs \o f
      <4> DEFINE byte == rest[1]
                 new  == Dropped(st, byte)
                 full == GarbageLimit <= Len(Append(st.garbage, byte))
      <4>1. byte \in Byte /\ next = new
        BY <3>2, <3>5
      <4> HIDE DEF byte, rest, next
      <4>2. /\ new.pos = st.pos + 1
            /\ new.msgs = IF full THEN st.msgs \o Flushed(Append(st.garbage, byte))
                          ELSE st.msgs
        BY <1>1, <4>1, DroppedIs
      <4> QED
        BY <4>1, <4>2 DEF byte
    <3>8. Messages(next.msgs) = Messages(st.msgs)
      <4>1. Messages(st.msgs \o f) = Messages(st.msgs)
        BY <1>1, <3>6, MessagesFlushed
      <4> QED
        BY <3>7, <4>1
    <3>9. Reached(next, list, starts, k)
      BY <2>4, <3>1, <3>7, <3>8 DEF Reached
    <3> QED
      BY <3>9
  <2> QED
    BY <2>5, <2>6
<1> QED
  BY <1>3, <1>4, <1>5

(* So the loop tells of the messages from the first one on, and, if it has *)
(* all the bytes, of all of them.                                          *)
LEMMA LoopReaches ==
  ASSUME NEW list \in Seq(Outgoing), Recognised, NEW data \in Seq(Byte), NEW x \in Seq(Byte),
         NEW starts, LaidOut(data \o x, list, starts)
  PROVE  \E k \in 0..Len(list) :
            /\ Messages(ReadLoop(<<>>, data).msgs) = First(list, k)
            /\ x = <<>> => k = Len(list)
<1> DEFINE n == Len(data) + 1
           G == { st \in Good(<<>>, data) : \E k : Reached(st, list, starts, k) }
<1>1. <<>> \in Seq(Byte) /\ Len(<<>>) < GarbageLimit
  BY GarbageLimitAssumption
<1>2. PICK f : f \in Course(<<>>, data)
  BY <1>1, CourseExists
<1>3. /\ f \in [0..n -> Good(<<>>, data)] /\ f[0] = Begin(<<>>) /\ n \in Nat
      /\ \A i \in 1..n : f[i] = StepOn(f[i - 1], data)
      /\ ReadLoop(<<>>, data) = f[n]
  BY <1>2 DEF Course
<1>4. f[n].done /\ Stops(f[n], data)
  <2>1. n \in 0..n
    BY <1>3
  <2> QED
    BY <1>1, <1>2, <2>1, CourseEnds
<1> HIDE DEF n
<1>5. f[0] \in G
  <2>1. f[0] \in Good(<<>>, data) /\ f[0].pos = 0 /\ f[0].msgs = <<>>
    <3>1. 0 \in 0..n
      BY <1>3
    <3>2. f[0] \in Good(<<>>, data)
      BY <1>3, <3>1
    <3>3. Begin(<<>>).pos = 0 /\ Begin(<<>>).msgs = <<>>
      BY DEF Begin
    <3> QED
      BY <1>3, <3>2, <3>3
  <2>2. Between(list, starts, 0, 0)
    <3>1. Len(list) \in Nat /\ \A i \in 1..Len(list) : starts[i] \in Nat
      BY ListIs DEF LaidOut
    <3> QED
      BY <3>1 DEF Between
  <2>3. Reached(f[0], list, starts, 0)
    BY <2>1, <2>2, MessagesNone, FirstNone DEF Reached
  <2> QED
    BY <2>1, <2>3
<1>6. ASSUME NEW i \in 1..n, f[i - 1] \in G PROVE f[i] \in G
  <2>1. f[i] = StepOn(f[i - 1], data) /\ f[i] \in Good(<<>>, data)
    BY <1>3
  <2>2. PICK k : Reached(f[i - 1], list, starts, k)
    BY <1>6
  <2>3. \E m : Reached(StepOn(f[i - 1], data), list, starts, m)
    BY <1>1, <1>6, <2>2, StepReaches
  <2> QED
    BY <2>1, <2>3
<1>7. f[n] \in G
  <2>1. n \in 0..n
    BY <1>3
  <2> HIDE DEF G
  <2> QED
    BY <1>3, <1>5, <1>6, <2>1, StaysInside
<1> DEFINE e == f[n]
<1> HIDE DEF e
<1>8. PICK k : Reached(e, list, starts, k)
  BY <1>7 DEF e
<1>9. e \in Good(<<>>, data) /\ Stops(e, data) /\ e = ReadLoop(<<>>, data)
  BY <1>3, <1>4, <1>7 DEF e
<1>10. k \in 0..Len(list) /\ Between(list, starts, e.pos, k) /\ Len(list) \in Nat
       /\ Messages(e.msgs) = First(list, k)
  BY <1>8, ListIs DEF Reached, Between
<1>11. ASSUME x = <<>>, k # Len(list) PROVE FALSE
  <2>1. data \o x = data
    BY <1>11, ConcatEmptySeq
  <2>2. e.pos \in 0..Len(data) /\ e.pos \in Nat /\ Rest(e, data) \in Seq(Byte)
        /\ Len(Rest(e, data)) = Len(data) - e.pos /\ Len(data) \in Nat
    BY <1>9, StateFacts
  <2>3. k + 1 \in 1..Len(list)
    BY <1>10, <1>11
  <2>4. list[k + 1] \in Outgoing /\ Holds(data \o x, list[k + 1], starts[k + 1])
    BY <2>3, ListIs DEF LaidOut
  <2>5. CASE e.pos = starts[k + 1]
    BY <1>9, <1>11, <2>4, <2>5, ReadAhead
  <2>6. CASE e.pos # starts[k + 1]
    <3>1. e.pos + 1 <= Len(data)
      <4>1. starts[k + 1] + Width(list[k + 1]) <= Len(data)
        BY <2>1, <2>4 DEF Holds
      <4>2. starts[k + 1] \in Nat /\ Width(list[k + 1]) \in Nat
        BY <2>3, ListIs DEF LaidOut
      <4>3. e.pos <= starts[k + 1]
        <5>1. k + 1 \in (k + 1)..Len(list)
          BY <1>10, <2>3
        <5> QED
          BY <1>10, <5>1 DEF Between
      <4> QED
        BY <2>2, <2>6, <4>1, <4>2, <4>3
    <3>2. data[e.pos + 1] # SyncPrefix
      BY <1>10, <2>1, <2>2, <2>6, <3>1, Outside
    <3>3. Rest(e, data) # <<>> /\ Rest(e, data)[1] = data[e.pos + 1]
      BY <2>2, <3>1 DEF Rest
    <3>4. StackRead(Rest(e, data)).es = "ProtocolError"
      BY <3>2, <3>3, FailureIs DEF StackRead
    <3> QED
      BY <1>9, <3>3, <3>4 DEF Stops, Decided
  <2> QED
    BY <2>5, <2>6
<1> QED
  BY <1>9, <1>10, <1>11

-----------------------------------------------------------------------------
(* The bytes received and those on the wire are, together, the frames of   *)
(* all that was sent, and bytes that begin none.                           *)
Framed ==
    SyncPrefix \notin around.noise =>
        /\ sent \in Seq(Outgoing)
        /\ \E starts : LaidOut(received \o wire, sent, starts)

(* More bytes at the end disturb no frame there is.                        *)
LEMMA HoldsOn ==
  ASSUME NEW all \in Seq(Byte), NEW x \in Seq(Byte), NEW msg \in Outgoing, Recognised,
         NEW p \in Nat, Holds(all, msg, p)
  PROVE  Holds(all \o x, msg, p)
<1> DEFINE w == Width(msg)
           t == all \o x
<1>1. /\ t \in Seq(Byte) /\ Len(t) = Len(all) + Len(x) /\ Len(x) \in Nat /\ Len(all) \in Nat
      /\ \A i \in 1..Len(all) : t[i] = all[i]
  BY MoreBytes
<1>2. w \in Nat /\ p + w <= Len(all) /\ \A i \in 1..w : all[p + i] = WriteImpl(msg)[i]
  BY WidthIs DEF Holds
<1> HIDE DEF t, w
<1>3. p + w <= Len(t)
  BY <1>1, <1>2
<1>4. ASSUME NEW i \in 1..w PROVE t[p + i] = WriteImpl(msg)[i]
  <2>1. p + i \in 1..Len(all)
    BY <1>1, <1>2
  <2> QED
    BY <1>1, <1>2, <2>1
<1> QED
  BY <1>3, <1>4 DEF Holds, t, w

LEMMA FrameAdded ==
  ASSUME NEW list \in Seq(Outgoing), Recognised, NEW all \in Seq(Byte), NEW starts,
         LaidOut(all, list, starts), NEW msg \in Outgoing
  PROVE  \E more : LaidOut(all \o WriteImpl(msg), Append(list, msg), more)
<1> DEFINE n     == Len(list)
           frame == WriteImpl(msg)
           t     == all \o frame
           l     == Append(list, msg)
           more  == [i \in 1..(n + 1) |-> IF i \in 1..n THEN starts[i] ELSE Len(all)]
<1>1. frame \in Seq(Byte) /\ Len(frame) = Width(msg) /\ Width(msg) \in Nat /\ Width(msg) >= 1
  BY WidthIs DEF Width
<1>2. /\ n \in Nat /\ starts \in [1..n -> Nat]
      /\ \A i \in 1..n : list[i] \in Outgoing /\ Width(list[i]) \in Nat /\ Width(list[i]) >= 1
      /\ \A i \in 1..n : Holds(all, list[i], starts[i])
      /\ \A i, j \in 1..n : i < j => starts[i] + Width(list[i]) <= starts[j]
      /\ \A p \in 1..Len(all) : all[p] = SyncPrefix =>
            \E i \in 1..n : starts[i] < p /\ p <= starts[i] + Width(list[i])
  BY ListIs DEF LaidOut
<1>3. /\ t \in Seq(Byte) /\ Len(t) = Len(all) + Width(msg) /\ Len(all) \in Nat
      /\ \A i \in 1..Len(all) : t[i] = all[i]
      /\ \A i \in 1..Width(msg) : t[Len(all) + i] = frame[i]
  <2>1. /\ t \in Seq(Byte) /\ Len(t) = Len(all) + Len(frame) /\ Len(all) \in Nat
        /\ \A i \in 1..Len(all) : t[i] = all[i]
        /\ \A i \in 1..Len(frame) : t[Len(all) + i] = frame[i]
    BY <1>1, MoreBytes
  <2> HIDE DEF t, frame
  <2> QED
    BY <1>1, <2>1
<1>4. /\ l \in Seq(Outgoing) /\ Len(l) = n + 1 /\ l[n + 1] = msg
      /\ \A i \in 1..n : l[i] = list[i]
  OBVIOUS
<1>5. /\ \A i \in 1..n : Holds(t, list[i], starts[i])
      /\ \A i \in 1..n : starts[i] + Width(list[i]) <= Len(all)
  <2>1. \A i \in 1..n : starts[i] \in Nat
    BY <1>2
  <2>2. \A i \in 1..n : Holds(t, list[i], starts[i])
    BY <1>1, <1>2, <2>1, HoldsOn
  <2> QED
    BY <1>2, <2>2 DEF Holds
<1>6. Holds(t, msg, Len(all))
  BY <1>1, <1>3 DEF Holds
<1> HIDE DEF n, frame, t, l
<1>7. /\ more \in [1..(n + 1) -> Nat] /\ more[n + 1] = Len(all)
      /\ \A i \in 1..n : more[i] = starts[i]
  <2>1. n + 1 \in 1..(n + 1) /\ n + 1 \notin 1..n /\ \A i \in 1..n : i \in 1..(n + 1)
    BY <1>2
  <2> QED
    BY <1>2, <1>3, <2>1
<1> HIDE DEF more
<1>8. \A i \in 1..(n + 1) : i \in 1..n \/ i = n + 1
  BY <1>2
<1>9. \A i \in 1..(n + 1) : Holds(t, l[i], more[i])
  BY <1>4, <1>5, <1>6, <1>7, <1>8
<1>10. ASSUME NEW i \in 1..(n + 1), NEW j \in 1..(n + 1), i < j
       PROVE  more[i] + Width(l[i]) <= more[j]
  <2>1. i \in 1..n
    BY <1>2, <1>10
  <2>2. CASE j \in 1..n
    BY <1>2, <1>4, <1>7, <1>10, <2>1, <2>2
  <2>3. CASE j = n + 1
    BY <1>4, <1>5, <1>7, <2>1, <2>3
  <2> QED
    BY <1>8, <2>2, <2>3
<1>11. ASSUME NEW p \in 1..Len(t), t[p] = SyncPrefix
       PROVE  \E i \in 1..(n + 1) : more[i] < p /\ p <= more[i] + Width(l[i])
  <2>1. CASE p \in 1..Len(all)
    <3>1. PICK i \in 1..n : starts[i] < p /\ p <= starts[i] + Width(list[i])
      BY <1>2, <1>3, <1>11, <2>1
    <3>2. i \in 1..(n + 1)
      BY <1>2
    <3> QED
      BY <1>4, <1>7, <3>1, <3>2
  <2>2. CASE p \notin 1..Len(all)
    <3>1. Len(all) < p /\ p <= Len(all) + Width(msg) /\ n + 1 \in 1..(n + 1)
      BY <1>1, <1>2, <1>3, <2>2
    <3> QED
      BY <1>4, <1>7, <3>1
  <2> QED
    BY <2>1, <2>2
<1>12. LaidOut(t, l, more)
  BY <1>4, <1>7, <1>9, <1>10, <1>11 DEF LaidOut
<1> QED
  BY <1>12 DEF t, l, frame

LEMMA NoiseAdded ==
  ASSUME NEW list \in Seq(Outgoing), Recognised, NEW all \in Seq(Byte), NEW starts,
         LaidOut(all, list, starts), NEW b \in Byte, b # SyncPrefix
  PROVE  LaidOut(all \o <<b>>, list, starts)
<1> DEFINE n == Len(list)
           t == all \o <<b>>
<1>1. /\ n \in Nat /\ starts \in [1..n -> Nat]
      /\ \A i \in 1..n : list[i] \in Outgoing
      /\ \A i \in 1..n : Holds(all, list[i], starts[i])
  BY ListIs DEF LaidOut
<1>2. /\ t \in Seq(Byte) /\ Len(t) = Len(all) + 1 /\ Len(all) \in Nat
      /\ \A i \in 1..Len(all) : t[i] = all[i]
      /\ t[Len(all) + 1] = b
  OBVIOUS
<1>3. \A i \in 1..n : Holds(t, list[i], starts[i])
  <2>1. \A i \in 1..n : starts[i] \in Nat
    BY <1>1
  <2>2. <<b>> \in Seq(Byte)
    OBVIOUS
  <2> QED
    BY <1>1, <2>1, <2>2, HoldsOn
<1> HIDE DEF t
<1>4. ASSUME NEW p \in 1..Len(t), t[p] = SyncPrefix
      PROVE  \E i \in 1..n : starts[i] < p /\ p <= starts[i] + Width(list[i])
  <2>1. p \in 1..Len(all) \/ p = Len(all) + 1
    BY <1>2
  <2>2. p \in 1..Len(all)
    BY <1>2, <1>4, <2>1
  <2>3. all[p] = SyncPrefix
    BY <1>2, <1>4, <2>2
  <2> QED
    BY <2>2, <2>3 DEF LaidOut
<1> QED
  BY <1>1, <1>3, <1>4 DEF LaidOut, t

LEMMA InitFramed == Init => Framed
<1> SUFFICES ASSUME Init PROVE Framed
  OBVIOUS
<1>1. received \o wire = <<>> /\ sent = <<>>
  BY ConcatEmptySeq DEF Init
<1>2. <<>> \in Seq(Outgoing) /\ Len(<<>>) = 0
  OBVIOUS
<1> DEFINE starts == [i \in 1..0 |-> 0]
<1>3. starts \in [1..0 -> Nat]
  OBVIOUS
<1>4. LaidOut(<<>>, <<>>, starts)
  BY <1>2, <1>3 DEF LaidOut
<1> QED
  BY <1>1, <1>2, <1>4 DEF Framed

LEMMA NextFramed ==
  ASSUME Recognised
  PROVE  IInv /\ Framed /\ [Next]_vars => Framed'
<1> SUFFICES ASSUME IInv, Framed, [Next]_vars PROVE Framed'
  OBVIOUS
<1>1. received \in Seq(Byte) /\ wire \in Seq(Byte) /\ received \o wire \in Seq(Byte)
      /\ around \in Surroundings
  BY DEF IInv, BytesTyped
<1>2. around' = around
  BY DEF Next, vars
<1> SUFFICES ASSUME SyncPrefix \notin around.noise
             PROVE  /\ sent' \in Seq(Outgoing)
                    /\ \E starts : LaidOut(received' \o wire', sent', starts)
  BY <1>2 DEF Framed
<1>3. sent \in Seq(Outgoing)
  BY DEF Framed
<1>4. PICK starts : LaidOut(received \o wire, sent, starts)
  BY DEF Framed
<1>5. CASE received' \o wire' = received \o wire /\ sent' = sent
  BY <1>3, <1>4, <1>5
<1>6. CASE Send
  <2>1. PICK msg \in Outgoing : /\ wire' = wire \o WriteImpl(msg)
                                /\ sent' = Append(sent, msg)
                                /\ received' = received
    BY <1>6, Zenon DEF Send
  <2>2. WriteImpl(msg) \in Seq(Byte)
    BY WriteImplTyped
  <2> DEFINE frame == WriteImpl(msg)
  <2>3. (received \o wire) \o frame = received \o (wire \o frame)
    <3> HIDE DEF frame
    <3> QED
      BY <1>1, <2>2, ConcatAssociative DEF frame
  <2>4. \E more : LaidOut((received \o wire) \o frame, Append(sent, msg), more)
    BY <1>1, <1>3, <1>4, FrameAdded
  <2>5. Append(sent, msg) \in Seq(Outgoing)
    BY <1>3
  <2> QED
    BY <2>1, <2>3, <2>4, <2>5
<1>7. CASE Disturb
  <2>1. PICK b \in around.noise : wire' = Append(wire, b)
    BY <1>7, Zenon DEF Disturb
  <2>2. received' = received /\ sent' = sent
    BY <1>7 DEF Disturb
  <2>3. b \in Byte /\ b # SyncPrefix
    BY <1>1, SurroundingsAssumption
  <2>4. wire' = wire \o <<b>>
    BY <1>1, <2>1, <2>3
  <2>5. <<b>> \in Seq(Byte)
    BY <2>3
  <2>6. (received \o wire) \o <<b>> = received \o (wire \o <<b>>)
    BY <1>1, <2>5, ConcatAssociative
  <2>7. LaidOut((received \o wire) \o <<b>>, sent, starts)
    BY <1>1, <1>3, <1>4, <2>3, NoiseAdded
  <2> QED
    BY <1>3, <2>2, <2>4, <2>6, <2>7
<1>8. CASE Receive
  <2>1. PICK n \in 1..Len(wire) :
          /\ ReceiveChunk(SubSeq(wire, 1, n),
                          ReadImpl(m_data, m_garbage, SubSeq(wire, 1, n), FALSE))
          /\ wire' = SubSeq(wire, n + 1, Len(wire))
          /\ UNCHANGED <<sent, typed, sendList>>
    BY <1>8, Zenon DEF Receive
  <2> DEFINE a == SubSeq(wire, 1, n)
             b == SubSeq(wire, n + 1, Len(wire))
  <2>2. received' = received \o a
    BY <2>1, Zenon DEF ReceiveChunk
  <2>3. a \in Seq(Byte) /\ b \in Seq(Byte) /\ a \o b = wire
    <3>1. /\ a \in Seq(Byte) /\ Len(a) = n /\ \A i \in 1..n : a[i] = wire[i]
          /\ b \in Seq(Byte) /\ Len(b) = Len(wire) - n
          /\ \A i \in 1..(Len(wire) - n) : b[i] = wire[n + i]
          /\ Len(wire) \in Nat
      BY <1>1
    <3> HIDE DEF a, b
    <3>2. /\ a \o b \in Seq(Byte) /\ Len(a \o b) = Len(wire)
          /\ \A i \in 1..n : (a \o b)[i] = a[i]
          /\ \A i \in 1..(Len(wire) - n) : (a \o b)[n + i] = b[i]
      <4>1. /\ a \o b \in Seq(Byte) /\ Len(a \o b) = Len(a) + Len(b)
            /\ \A i \in 1..Len(a) : (a \o b)[i] = a[i]
            /\ \A i \in 1..Len(b) : (a \o b)[Len(a) + i] = b[i]
        BY <3>1, MoreBytes
      <4> QED
        BY <3>1, <4>1
    <3>3. ASSUME NEW i \in 1..Len(wire) PROVE (a \o b)[i] = wire[i]
      <4>1. CASE i \in 1..n
        BY <3>1, <3>2, <4>1
      <4>2. CASE i \notin 1..n
        <5> DEFINE j == i - n
        <5>1. j \in 1..(Len(wire) - n) /\ i = n + j
          BY <3>1, <4>2
        <5> HIDE DEF j
        <5> QED
          BY <3>1, <3>2, <5>1
      <4> QED
        BY <4>1, <4>2
    <3>4. a \o b = wire
      BY <1>1, <3>2, <3>3, SeqEqual
    <3> QED
      BY <3>1, <3>4
  <2>4. (received \o a) \o b = received \o (a \o b)
    <3>1. a \in Seq(Byte) /\ b \in Seq(Byte)
      BY <2>3
    <3> HIDE DEF a, b
    <3> QED
      BY <1>1, <3>1, Associates
  <2>5. received' \o wire' = received \o wire /\ sent' = sent
    BY <2>1, <2>2, <2>3, <2>4
  <2> QED
    BY <1>5, <2>5
<1>9. CASE AcceptRawData
  BY <1>5, <1>9 DEF AcceptRawData
<1>10. CASE UNCHANGED vars
  BY <1>5, <1>10 DEF vars
<1> QED
  BY <1>6, <1>7, <1>8, <1>9, <1>10 DEF Next

LEMMA FramedMeans ==
  ASSUME Recognised
  PROVE  IInv /\ Decoded /\ Framed => SentIsReceived
<1> SUFFICES ASSUME IInv, Decoded, Framed, Harmless
             PROVE  /\ IsPrefix(Messages(recvList), AllReadable(sent))
                    /\ wire = <<>> => Messages(recvList) = AllReadable(sent)
  BY DEF SentIsReceived
<1>1. received \in Seq(Byte) /\ wire \in Seq(Byte)
  BY DEF IInv, BytesTyped
<1>2. recvList = ReadLoop(<<>>, received).msgs
  BY DEF Decoded, Whole, Harmless
<1>3. sent \in Seq(Outgoing) /\ sent \in Seq(MsgType)
  BY ListIs DEF Framed, Harmless
<1>4. PICK starts : LaidOut(received \o wire, sent, starts)
  BY DEF Framed, Harmless
<1>5. PICK k \in 0..Len(sent) : /\ Messages(ReadLoop(<<>>, received).msgs) = First(sent, k)
                                /\ wire = <<>> => k = Len(sent)
  BY <1>1, <1>3, <1>4, LoopReaches
<1>6. /\ IsPrefix(First(sent, k), AllReadable(sent))
      /\ k = Len(sent) => First(sent, k) = AllReadable(sent)
  BY <1>3, FirstPrefix
<1> QED
  BY <1>2, <1>5, <1>6

(* Every message that has arrived is reported as it was sent, in the order *)
(* they were sent, wherever ProtocolBase::read finds the stream cut, if    *)
(* the messages can be recognised and the bytes between them cannot be     *)
(* taken for a frame.                                                      *)
THEOREM MessagesArrive ==
  ASSUME Recognised
  PROVE  Spec => []SentIsReceived
<1>1. Init => Decoded /\ Framed
  BY InitDecoded, InitFramed
<1>2. IInv /\ Decoded /\ Framed /\ [Next]_vars => Decoded' /\ Framed'
  BY NextDecoded, NextFramed
<1>3. IInv /\ Decoded /\ Framed => SentIsReceived
  BY FramedMeans
<1> QED
  BY <1>1, <1>2, <1>3, StreamInvariance, PTL DEF Spec
=============================================================================
