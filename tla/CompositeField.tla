--------------------------- MODULE CompositeField ---------------------------
(* Fields made of fields: ArrayList with the adapters that tell where it   *)
(* ends, Bundle, Optional (with ExistsBetweenVersions), Variant, and a     *)
(* number that is refused when it is not valid (FailOnInvalid). They are   *)
(* trees whose leaves are those of IntField; every operation walks down    *)
(* the tree as the templates do.                                           *)
(* Sources: comms/include/comms/field: basic, adapter, details.            *)
EXTENDS IntField

(* The definitions of fields.                                              *)
Key(field, value)  == [kind |-> "key", field |-> field, value |-> value]
Bundle(members)    == [kind |-> "bundle", members |-> members]
Variant(members)   == [kind |-> "variant", members |-> members]
Optional(field)    == [kind |-> "optional", field |-> field, versions |-> {}]
Between(field, versions) ==
    [kind |-> "optional", field |-> field, versions |-> versions]

(* wrap: what tells the end of the list, if not that of the data ("rest"): *)
(* a prefix with its size or its length, a fixed number num of elements, a *)
(* terminator. each: a length before each element, before the first one    *)
(* only, or none.                                                          *)
List(elem, wrap, each, prefix, num) ==
    [kind |-> "list", elem |-> elem, wrap |-> wrap, each |-> each,
     prefix |-> prefix, num |-> num]

(* The terminator is a field of one byte, and zero.                        *)
TermField == [kind |-> "plain", signed |-> FALSE, big |-> TRUE, type |-> 1,
              len |-> 1, min |-> 1, offset |-> 0, forced |-> -1]

(* A member function of a field calls those of the fields it is made of.   *)
RECURSIVE DefaultOf(_), HasFixedLength(_), MinLength(_), Call(_, _, _)

AtVersion(f, v, ver) == Call(f, v, [op |-> "setVersion", version |-> ver])
LengthOf(f, v)       == Call(f, v, [op |-> "length"])
CanWrite(f, v)       == Call(f, v, [op |-> "canWrite"])
WriteOf(f, v, size)  == Call(f, v, [op |-> "write", size |-> size])
ReadOf(f, v, s)      == Call(f, v, [op |-> "read", bytes |-> s])

Upto(s, n)   == SubSeq(s, 1, n)
After(s, n)  == SubSeq(s, n + 1, Len(s))
AtMost(m, n) == IF n < m THEN n ELSE m
NoMember     == <<>>

-----------------------------------------------------------------------------
(* What the constructors make. List and variant store a version, a         *)
(* variant which of its members is there (none is zero).                   *)
DefaultOf(f) ==
    CASE f.kind = "list"     -> [ver |-> 0, elems |-> <<>>]
      [] f.kind = "bundle"   -> [i \in DOMAIN f.members |->
                                     DefaultOf(f.members[i])]
      [] f.kind = "optional" -> [mode |-> "tentative",
                                 val |-> DefaultOf(f.field)]
      [] f.kind = "variant"  -> [ver |-> 0, idx |-> 0, val |-> NoMember]
      [] f.kind = "key"      -> f.value
      [] OTHER               -> 0

(* setVersion.                                                             *)
ToVersion(f, v, ver) ==
    CASE f.kind = "list" ->
           [ver |-> ver, elems |-> [i \in DOMAIN v.elems |->
                                        AtVersion(f.elem, v.elems[i], ver)]]
      [] f.kind = "bundle" ->
           [i \in DOMAIN v |-> AtVersion(f.members[i], v[i], ver)]
      [] f.kind = "optional" ->
           [mode |-> IF f.versions = {} THEN v.mode
                     ELSE IF ver \in f.versions THEN "exists" ELSE "missing",
            val  |-> AtVersion(f.field, v.val, ver)]
      [] f.kind = "variant" ->
           [v EXCEPT !.ver = ver,
                     !.val = IF v.idx = 0 THEN @
                             ELSE AtVersion(f.members[v.idx], @, ver)]
      [] OTHER -> v

-----------------------------------------------------------------------------
(* length(). A length that the prefix cannot hold counts as its maximum.   *)
PrefixMax(f)    == 2 ^ (ByteBits * f.prefix.type) - 1
PrefixLen(f, n) == LengthOf(f.prefix, AtMost(PrefixMax(f), n))
FixedLen(f)     == LengthOf(f.elem, DefaultOf(f.elem))

ElemLength(f, e) ==
    LET n == LengthOf(f.elem, e)
    IN  IF f.each = "length" THEN PrefixLen(f, n) + n ELSE n

ElemsLength(f, elems) ==
    (IF f.each = "first" /\ elems # <<>> THEN PrefixLen(f, FixedLen(f)) ELSE 0)
    + FoldLeft(LAMBDA sum, e : sum + ElemLength(f, e), 0, elems)

(* minLength() = maxLength(). Optional fields, variants and other lists may *)
(* take nothing, or more.                                                  *)
HasFixedLength(f) ==
    \/ f.kind \in {"plain", "fixed"}
    \/ f.kind = "avail" /\ f.len = 1
    \/ f.kind = "bundle" /\ \A i \in DOMAIN f.members : HasFixedLength(f.members[i])
    \/ f.kind = "key" /\ HasFixedLength(f.field)
    \/ /\ f.kind = "list" /\ f.wrap = "fixed" /\ HasFixedLength(f.elem)
       /\ f.each = "length" => HasFixedLength(f.prefix)

(* Of those: a list counts a prefix before its elements whether the length *)
(* is before the first of them or before each.                             *)
MinLength(f) ==
    CASE f.kind = "bundle" -> FoldLeft(LAMBDA sum, m : sum + MinLength(m), 0, f.members)
      [] f.kind = "key"    -> MinLength(f.field)
      [] f.kind = "list"   ->
           LET prefix == IF f.each = "none" THEN 0 ELSE MinLength(f.prefix)
           IN  prefix + f.num * (MinLength(f.elem)
                                 + IF f.each = "length" THEN prefix ELSE 0)
      [] f.kind = "var"    -> f.min
      [] f.kind = "avail"  -> 1
      [] OTHER             -> f.len

(* A list of a fixed number of elements that has more of them leaves out   *)
(* any length in front of elements that all take the same, and one in      *)
(* front of the first element only.                                        *)
RecalcLen(f, v) ==
    IF HasFixedLength(f.elem) THEN f.num * MinLength(f.elem)
    ELSE FoldLeft(LAMBDA sum, e : sum + ElemLength(f, e), 0, Upto(v.elems, f.num))

ListLength(f, v) ==
    LET n    == Len(v.elems)
        body == ElemsLength(f, v.elems)
    IN  CASE f.wrap = "size"   -> LengthOf(f.prefix, Cast(FALSE, f.prefix.type, n)) + body
          [] f.wrap = "length" -> PrefixLen(f, body) + body
          [] f.wrap = "term"   -> body + LengthOf(TermField, 0)
          [] f.wrap = "fixed"  ->
               IF n > f.num THEN RecalcLen(f, v)
               ELSE body + (f.num - n) * ElemLength(f, DefaultOf(f.elem))
          [] OTHER             -> body

Length(f, v) ==
    CASE f.kind = "list"     -> ListLength(f, v)
      [] f.kind = "bundle"   -> FoldLeft(LAMBDA sum, i : sum + LengthOf(f.members[i], v[i]),
                                         0, [i \in DOMAIN v |-> i])
      [] f.kind = "optional" -> IF v.mode = "exists" THEN LengthOf(f.field, v.val) ELSE 0
      [] f.kind = "variant"  -> IF v.idx = 0 THEN 0
                                ELSE LengthOf(f.members[v.idx], v.val)
      [] f.kind = "key"      -> LengthOf(f.field, v)
      [] OTHER               -> IntLength(f, v)

-----------------------------------------------------------------------------
(* canWrite(). The length in front of an element is compared with its      *)
(* maximum together with the prefix.                                       *)
PrefixHolds(f, n) == n <= PrefixMax(f) /\ CanWrite(f.prefix, n)

CanWriteElem(f, e) ==
    /\ CanWrite(f.elem, e)
    /\ f.each = "length" => PrefixHolds(f, ElemLength(f, e))
    /\ f.each = "first"  => PrefixHolds(f, LengthOf(f.elem, e))

Writable(f, v) ==
    CASE f.kind = "list" ->
           /\ \A i \in DOMAIN v.elems : CanWriteElem(f, v.elems[i])
           /\ f.wrap = "size"   => PrefixHolds(f, Len(v.elems))
           /\ f.wrap = "length" => PrefixHolds(f, ElemsLength(f, v.elems))
      [] f.kind = "bundle"   -> \A i \in DOMAIN v : CanWrite(f.members[i], v[i])
      [] f.kind = "optional" -> v.mode = "exists" => CanWrite(f.field, v.val)
      [] f.kind = "variant"  -> v.idx # 0 => CanWrite(f.members[v.idx], v.val)
      [] f.kind = "key"      -> CanWrite(f.field, v)
      [] OTHER               -> IntCanWrite(f, v)

-----------------------------------------------------------------------------
(* write() into a buffer of the given size.                                *)
Wrote(es, bytes) == [es |-> es, bytes |-> bytes]
Nothing          == Wrote("Success", <<>>)

Then(w, next) ==
    IF w.es # "Success" THEN w ELSE Wrote(next.es, w.bytes \o next.bytes)

WriteElem(f, e, size) ==
    IF f.each # "length" THEN WriteOf(f.elem, e, size)
    ELSE IF ~CanWriteElem(f, e) THEN Wrote("InvalidMsgData", <<>>)
    ELSE LET p == WriteOf(f.prefix, LengthOf(f.elem, e), size)
         IN  Then(p, WriteOf(f.elem, e, size - Len(p.bytes)))

WriteElems(f, elems, size) ==
    FoldLeft(LAMBDA w, e :
                 IF ~CanWriteElem(f, e)
                 THEN Then(w, Wrote("InvalidMsgData", <<>>))
                 ELSE Then(w, WriteElem(f, e, size - Len(w.bytes))),
             Nothing, elems)

WriteBody(f, elems, size) ==
    IF f.each # "first" \/ elems = <<>> THEN WriteElems(f, elems, size)
    ELSE IF ~CanWriteElem(f, Head(elems)) THEN Wrote("InvalidMsgData", <<>>)
    ELSE LET p == WriteOf(f.prefix, FixedLen(f), size)
         IN  Then(p, WriteElems(f, elems, size - Len(p.bytes)))

WriteDummies(f, n, size) ==
    FoldLeft(LAMBDA w, e : Then(w, WriteElem(f, e, size - Len(w.bytes))),
             Nothing, [i \in 1..n |-> DefaultOf(f.elem)])

(* SequenceSerLengthFieldPrefix and the suffix hand on as the size what    *)
(* they know to be needed: they rely on a buffer of length() bytes.        *)
WriteList(f, v, size) ==
    LET n       == Len(v.elems)
        len     == ElemsLength(f, v.elems)
        told    == f.wrap \in {"size", "length"}
        prefix  == IF told THEN WriteOf(f.prefix, IF f.wrap = "size" THEN n ELSE len, size)
                   ELSE Nothing
        room    == CASE f.wrap = "length" -> len
                     [] f.wrap = "term"   -> size - 1
                     [] OTHER             -> size - Len(prefix.bytes)
        elems   == IF f.wrap = "fixed" THEN Upto(v.elems, AtMost(f.num, n)) ELSE v.elems
        written == Then(prefix, WriteBody(f, elems, room))
    IN  CASE told /\ ~CanWrite(f, v) -> Wrote("InvalidMsgData", <<>>)
          [] f.wrap = "term"  -> Then(written, WriteOf(TermField, 0, 1))
          [] f.wrap = "fixed" -> Then(written, WriteDummies(f, f.num - AtMost(f.num, n),
                                                            size - Len(written.bytes)))
          [] OTHER -> written

Written(f, v, size) ==
    CASE f.kind = "list"     -> WriteList(f, v, size)
      [] f.kind = "bundle"   -> FoldLeft(LAMBDA w, i :
                                             Then(w, WriteOf(f.members[i], v[i],
                                                             size - Len(w.bytes))),
                                         Nothing, [i \in DOMAIN v |-> i])
      [] f.kind = "optional" -> IF v.mode = "exists"
                                THEN WriteOf(f.field, v.val, size) ELSE Nothing
      [] f.kind = "variant"  -> IF v.idx = 0 THEN Nothing
                                ELSE WriteOf(f.members[v.idx], v.val, size)
      [] f.kind = "key"      -> WriteOf(f.field, v, size)
      [] OTHER               -> IntWrite(f, v, size)

-----------------------------------------------------------------------------
(* read(), from the bytes s, into a field that has the value v. More adds  *)
(* the bytes that have been read before; Must is the status a list gives   *)
(* when what its prefix has announced is not there.                        *)
More(n, r) == [r EXCEPT !.count = @ + n]
Must(r)    == IF r.es = "NotEnoughData" THEN [r EXCEPT !.es = "InvalidMsgData"] ELSE r

(* Mutant: createBack leaves the new element without the version.          *)
NewElem_NoVersion(f, v) == DefaultOf(f.elem)

(* createBack().                                                           *)
NewElem(f, v) == AtVersion(f.elem, DefaultOf(f.elem), v.ver)

(* What an element leaves of the bytes announced for it is skipped.        *)
ReadElem(f, e, s, first) ==
    CASE f.each = "length" ->
           LET p == ReadOf(f.prefix, 0, s)
           IN  IF p.es # "Success" THEN Result(p.es, 0, e)
               ELSE IF Len(s) - p.count < p.value THEN Result("NotEnoughData", 0, e)
               ELSE [Must(ReadOf(f.elem, e, Upto(After(s, p.count), p.value)))
                       EXCEPT !.count = p.count + p.value]
      [] f.each = "first" ->
           IF Len(s) < first THEN Result("NotEnoughData", 0, e)
           ELSE [Must(ReadOf(f.elem, e, Upto(s, first))) EXCEPT !.count = first]
      [] OTHER -> ReadOf(f.elem, e, s)

(* readSequenceN, and with n < 0 readSequence, into a list without         *)
(* elements.                                                               *)
ReadElems(f, v, s, n, first) ==
    LET read[i \in 0..(IF n < 0 THEN Len(s) ELSE n)] ==
            LET r == read[i - 1]
                e == ReadElem(f, NewElem(f, v), After(s, r.count), first)
            IN  IF i = 0 THEN Result("Success", 0, v)
                ELSE IF r.es # "Success" \/ (n < 0 /\ r.count = Len(s)) THEN r
                ELSE IF e.es # "Success" THEN [r EXCEPT !.es = e.es]
                ELSE Result("Success", r.count + e.count,
                            [r.value EXCEPT !.elems = Append(@, e.value)])
    IN  read[IF n < 0 THEN Len(s) ELSE n]

Cleared(v) == [v EXCEPT !.elems = <<>>]

(* Mutant: the elements of an earlier read are kept.                       *)
ReadBody_Uncleared(f, v, s, n) ==
    LET p      == ReadOf(f.prefix, 0, s)
        prefix == f.each = "first" /\ n # 0
    IN  IF prefix /\ p.es # "Success" THEN Result(p.es, 0, v)
        ELSE LET skip == IF prefix THEN p.count ELSE 0
             IN  More(skip, ReadElems(f, v, After(s, skip), n, p.value))

ReadBody(f, v, s, n) ==
    LET p      == ReadOf(f.prefix, 0, s)
        prefix == f.each = "first" /\ n # 0
    IN  IF prefix /\ p.es # "Success" THEN Result(p.es, 0, v)
        ELSE LET skip == IF prefix THEN p.count ELSE 0
             IN  More(skip, ReadElems(f, Cleared(v), After(s, skip), n, p.value))

(* Every element takes a byte at least.                                    *)
ReadTerminated(f, v, s) ==
    LET read[i \in 0..Len(s)] ==
            LET rest == After(s, i)
                t == ReadOf(TermField, 0, rest)
                e == ReadElem(f, NewElem(f, v), rest, 0)
            IN  IF t.es = "Success" /\ t.value = 0
                THEN Result("Success", i + t.count, <<>>)
                ELSE IF e.es # "Success" THEN Result(e.es, i, <<>>)
                ELSE LET r == read[i + e.count]
                     IN  [r EXCEPT !.value = <<e.value>> \o @]
        all == read[0]
    IN  [all EXCEPT !.value = [v EXCEPT !.elems = all.value]]

ReadList(f, v, s) ==
    LET p    == ReadOf(f.prefix, 0, s)
        told == f.wrap \in {"size", "length"}
        skip == IF told THEN p.count ELSE 0
        rest == After(s, skip)
        n    == CASE f.wrap = "size"  -> p.value
                  [] f.wrap = "fixed" -> f.num
                  [] OTHER            -> -1
        body == More(skip, ReadBody(f, v, IF f.wrap = "length" THEN Upto(rest, p.value)
                                          ELSE rest, n))
    IN  IF f.wrap = "term" THEN ReadTerminated(f, v, s)
        ELSE IF told /\ p.es # "Success" THEN Result(p.es, 0, v)
        ELSE IF f.wrap # "length" THEN body
        ELSE IF Len(rest) < p.value THEN Result("InvalidMsgData", 0, v)
        ELSE Must(body)

(* A missing field stays missing; a tentative one is there if data is.     *)
ReadOptional(f, v, s) ==
    IF v.mode = "missing" THEN Result("Success", 0, v)
    ELSE IF v.mode = "tentative" /\ s = <<>>
    THEN Result("Success", 0, [v EXCEPT !.mode = "missing"])
    ELSE LET r == ReadOf(f.field, v.val, s)
         IN  Result(r.es, r.count,
                    [mode |-> IF r.es = "Success" THEN "exists" ELSE v.mode,
                     val  |-> r.value])

ReadBundle(f, v, s) ==
    FoldLeft(LAMBDA r, i :
                 IF r.es # "Success" THEN r
                 ELSE LET m == ReadOf(f.members[i], v[i], After(s, r.count))
                      IN  Result(m.es, r.count + m.count,
                                 [r.value EXCEPT ![i] = m.value]),
             Result("Success", 0, v), [i \in DOMAIN v |-> i])

(* Mutant: the first member that fails decides what the answer is.         *)
ReadVariant_FirstStatus(f, v, s) ==
    FoldLeft(LAMBDA r, i :
                 LET m == ReadOf(f.members[i],
                                 AtVersion(f.members[i], DefaultOf(f.members[i]), v.ver), s)
                 IN  IF r.es = "Success" THEN r
                     ELSE IF m.es = "Success"
                     THEN Result("Success", m.count,
                                 [ver |-> v.ver, idx |-> i, val |-> m.value])
                     ELSE Result(IF r.es = "None" THEN m.es ELSE r.es, 0, r.value),
             Result("None", 0, [ver |-> v.ver, idx |-> 0, val |-> NoMember]),
             [i \in DOMAIN f.members |-> i])

(* What is there is destroyed; then the first member that can be read is   *)
(* taken. If one of them only lacks data, that is the answer.              *)
ReadVariant(f, v, s) ==
    FoldLeft(LAMBDA r, i :
                 LET m == ReadOf(f.members[i],
                                 AtVersion(f.members[i], DefaultOf(f.members[i]), v.ver), s)
                 IN  IF r.es = "Success" THEN r
                     ELSE IF m.es = "Success"
                     THEN Result("Success", m.count,
                                 [ver |-> v.ver, idx |-> i, val |-> m.value])
                     ELSE Result(IF r.es = "None" \/ m.es = "NotEnoughData"
                                 THEN m.es ELSE r.es, 0, r.value),
             Result("None", 0, [ver |-> v.ver, idx |-> 0, val |-> NoMember]),
             [i \in DOMAIN f.members |-> i])

(* FailOnInvalid reads into another field, and takes it if it is valid.    *)
ReadKey(f, v, s) ==
    LET r == ReadOf(f.field, f.value, s)
    IN  IF r.es = "Success" /\ r.value # f.value
        THEN Result("InvalidMsgData", r.count, v)
        ELSE Result(r.es, r.count, v)

Taken(f, v, s) ==
    CASE f.kind = "list"     -> ReadList(f, v, s)
      [] f.kind = "bundle"   -> ReadBundle(f, v, s)
      [] f.kind = "optional" -> ReadOptional(f, v, s)
      [] f.kind = "variant"  -> ReadVariant(f, v, s)
      [] f.kind = "key"      -> ReadKey(f, v, s)
      [] OTHER               -> IntRead(f, v, s)

Call(f, v, m) ==
    CASE m.op = "setVersion" -> ToVersion(f, v, m.version)
      [] m.op = "length"     -> Length(f, v)
      [] m.op = "canWrite"   -> Writable(f, v)
      [] m.op = "write"      -> Written(f, v, m.size)
      [] m.op = "read"       -> Taken(f, v, m.bytes)
=============================================================================
