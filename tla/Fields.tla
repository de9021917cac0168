------------------------------- MODULE Fields -------------------------------
(* A field of one of the given definitions is filled in, brought to the    *)
(* version of its message, written into a buffer, and read by the peer     *)
(* from as much of the bytes as there is; or the bytes are those of some   *)
(* other peer. An attempt that has failed is repeated with more bytes, on  *)
(* the same object. One exchange is one behaviour.                         *)
(* Sources: comms/include/comms: field/*.h, details/MessageImplBases.h.    *)
EXTENDS CompositeField

CONSTANTS
    Forms,       \* the definitions, a sequence
    Samples,     \* of each of them, values the program assigns
    Versions,    \* of a message; 0 is the one it is made with
    PeerBytes    \* what another peer may send

ASSUME FieldsAssumption == /\ DOMAIN Forms = DOMAIN Samples
                           /\ 0 \in Versions /\ Versions \subseteq Nat

VARIABLES
    number,    \* which definition it is
    version,   \* the one the message carries (message interface's version())
    field,     \* the field that is written
    other,     \* the field that is read into
    wire,      \* the bytes, and whether they are those of field
    reply      \* the last operation and its answer

vars == <<number, version, field, other, wire, reply>>

Form == Forms[number]

-----------------------------------------------------------------------------
(* Which operation it was, the size it was given and what it answered.     *)
Reply(op, size, es, count) ==
    [op |-> op, size |-> size, es |-> es, count |-> count]

Done(op) == Reply(op, 0, "Success", 0)

Fresh(ver) == AtVersion(Form, DefaultOf(Form), ver)

(* The constructor of a message updates the versions of its fields.        *)
Init ==
    /\ number \in DOMAIN Forms
    /\ version = 0
    /\ field = Fresh(0)
    /\ other = Fresh(0)
    /\ wire = [bytes |-> <<>>, own |-> FALSE]
    /\ reply = Done("none")

(* The program sets a version, and then a value. The fields of the message *)
(* learn of neither before it is refreshed or read.                        *)
SetVersion(ver) ==
    /\ reply.op = "none"
    /\ version' = ver
    /\ reply' = Done("version")
    /\ UNCHANGED <<number, field, other, wire>>

Assign(v) ==
    /\ reply.op \in {"none", "version"}
    /\ field' = v
    /\ reply' = Done("assign")
    /\ UNCHANGED <<number, version, other, wire>>

(* doRefresh.                                                              *)
Refresh ==
    /\ reply.op = "assign"
    /\ field' = AtVersion(Form, field, version)
    /\ reply' = Done("refresh")
    /\ UNCHANGED <<number, version, other, wire>>

(* write. A list whose end is told by a prefix with its length, or by a    *)
(* terminator, is given a buffer of length() bytes, which it relies on.    *)
RECURSIVE ChecksItsBuffer(_)
ChecksItsBuffer(f) ==
    CASE f.kind = "list" -> f.wrap \notin {"length", "term"} /\ ChecksItsBuffer(f.elem)
      [] f.kind \in {"bundle", "variant"} ->
            \A i \in DOMAIN f.members : ChecksItsBuffer(f.members[i])
      [] f.kind = "optional" -> ChecksItsBuffer(f.field)
      [] OTHER               -> TRUE

Write(size) ==
    /\ reply.op \in {"assign", "refresh"}
    /\ size >= 0
    /\ size < LengthOf(Form, field) => ChecksItsBuffer(Form)
    /\ \E w \in {WriteOf(Form, field, size)} :
           /\ wire' = IF w.es = "Success" THEN [bytes |-> w.bytes, own |-> TRUE]
                      ELSE wire
           /\ reply' = Reply("write", size, w.es, Len(w.bytes))
    /\ UNCHANGED <<number, version, field, other>>

(* Something arrives that this program has not written.                    *)
Arrive(bytes) ==
    /\ reply.op \in {"none", "version"}
    /\ wire' = [bytes |-> bytes, own |-> FALSE]
    /\ reply' = Done("arrive")
    /\ UNCHANGED <<number, version, field, other>>

(* doRead, of the bytes that have come so far.                             *)
Read(size) ==
    /\ \/ reply.op = "arrive"
       \/ reply.op = "write" /\ reply.es = "Success"
       \/ reply.op = "read" /\ reply.es # "Success" /\ reply.size < size
    /\ size <= Len(wire.bytes)
    /\ \E r \in {ReadOf(Form, AtVersion(Form, other, version), Upto(wire.bytes, size))} :
           /\ other' = r.value
           /\ reply' = Reply("read", size, r.es, r.count)
    /\ UNCHANGED <<number, version, field, wire>>

Next ==
    \/ \E ver \in Versions : SetVersion(ver)
    \/ \E v \in Samples[number] : Assign(v)
    \/ Refresh
    \/ \E extra \in {-1, 0, 2} : Write(LengthOf(Form, field) + extra)
    \/ \E bytes \in PeerBytes : Arrive(bytes)
    \/ \E size \in 0..Len(wire.bytes) : Read(size)

Spec == Init /\ [][Next]_vars

-----------------------------------------------------------------------------
(* What the properties are stated with.                                    *)
RECURSIVE WellTyped(_, _), Representable(_, _), Seen(_, _), Waits(_),
          Ends(_), AllAt(_, _, _)

WellTyped(f, v) ==
    CASE f.kind = "list" -> v.ver \in Versions /\ \A i \in DOMAIN v.elems :
                                                     WellTyped(f.elem, v.elems[i])
      [] f.kind = "bundle" -> /\ DOMAIN v = DOMAIN f.members
                              /\ \A i \in DOMAIN v : WellTyped(f.members[i], v[i])
      [] f.kind = "optional" -> /\ v.mode \in {"tentative", "missing", "exists"}
                                /\ WellTyped(f.field, v.val)
      [] f.kind = "variant" ->
            /\ v.ver \in Versions /\ v.idx \in {0} \cup DOMAIN f.members
            /\ IF v.idx = 0 THEN v.val = NoMember
               ELSE WellTyped(f.members[v.idx], v.val)
      [] f.kind = "key" -> v = f.value
      [] OTHER          -> HasType(f, v)

(* The values that bytes can stand for, so that a reader could know them:  *)
(* an empty list writes no prefix for its elements (a reader expects it    *)
(* unless it knows the number of elements), no element may look like the   *)
(* terminator, and a variant must have a member.                           *)
Representable(f, v) ==
    CASE f.kind = "list" ->
           /\ \A i \in DOMAIN v.elems :
                /\ Representable(f.elem, v.elems[i])
                /\ f.wrap = "term" =>
                       Head(WriteOf(f.elem, v.elems[i], LengthOf(f.elem, v.elems[i])).bytes) # 0
           /\ f.each = "first" /\ f.wrap # "size" => v.elems # <<>>
      [] f.kind = "bundle"   -> \A i \in DOMAIN v : Representable(f.members[i], v[i])
      [] f.kind = "optional" -> v.mode = "exists" => Representable(f.field, v.val)
      [] f.kind = "variant"  -> v.idx # 0 /\ Representable(f.members[v.idx], v.val)
      [] f.kind = "key"      -> TRUE
      [] OTHER               -> IntRepresentable(f, v)

(* What a reader has of a value: what is not there has the value it was    *)
(* made with, and a list of fixed size is cut or filled up.                *)
Seen(f, v) ==
    CASE f.kind = "list" ->
           LET own(i) == IF i \in DOMAIN v.elems THEN Seen(f.elem, v.elems[i])
                         ELSE DefaultOf(f.elem)
           IN  [v EXCEPT !.elems =
                   [i \in 1..(IF f.wrap = "fixed" THEN f.num ELSE Len(@)) |-> own(i)]]
      [] f.kind = "bundle"   -> [i \in DOMAIN v |-> Seen(f.members[i], v[i])]
      [] f.kind = "optional" ->
           IF v.mode = "exists" THEN [v EXCEPT !.val = Seen(f.field, @)]
           ELSE [mode |-> "missing", val |-> AtVersion(f.field, DefaultOf(f.field), version)]
      [] f.kind = "variant"  -> [v EXCEPT !.val = Seen(f.members[v.idx], @)]
      [] OTHER               -> v

(* The end can be told from the bytes, and nothing is an error before it.  *)
Waits(f) ==
    CASE f.kind = "list" -> /\ f.wrap \in {"size", "fixed", "term"}
                            /\ f.each # "none" \/ Waits(f.elem)
      [] f.kind \in {"bundle", "variant"} -> \A i \in DOMAIN f.members : Waits(f.members[i])
      [] f.kind = "optional" -> f.versions # {} /\ Waits(f.field)
      [] f.kind = "key"      -> TRUE
      [] OTHER               -> f.kind # "avail"

(* The end can be told from the bytes.                                     *)
Ends(f) ==
    CASE f.kind = "list" -> \/ f.wrap = "length"
                            \/ f.wrap # "rest" /\ (f.each # "none" \/ Ends(f.elem))
      [] f.kind \in {"bundle", "variant"} -> \A i \in DOMAIN f.members : Ends(f.members[i])
      [] f.kind = "optional" -> f.versions # {} /\ Ends(f.field)
      [] OTHER               -> Waits(f)

(* Everything in the field that keeps a version has this one, and what     *)
(* depends on it is there or not accordingly.                              *)
AllAt(f, v, ver) ==
    CASE f.kind = "list"   -> v.ver = ver /\ \A i \in DOMAIN v.elems :
                                                AllAt(f.elem, v.elems[i], ver)
      [] f.kind = "bundle" -> \A i \in DOMAIN v : AllAt(f.members[i], v[i], ver)
      [] f.kind = "optional" ->
           /\ f.versions # {} => (v.mode = "exists") = (ver \in f.versions)
           /\ AllAt(f.field, v.val, ver)
      [] f.kind = "variant" ->
           v.ver = ver /\ (v.idx # 0 => AllAt(f.members[v.idx], v.val, ver))
      [] OTHER -> TRUE

-----------------------------------------------------------------------------
(* Every number keeps within its type, in whatever it is nested.           *)
TypeOK ==
    /\ number \in DOMAIN Forms /\ version \in Versions
    /\ WellTyped(Form, field) /\ WellTyped(Form, other)
    /\ wire.own \in BOOLEAN /\ reply.size \in Nat /\ reply.count \in Nat

(* write() answers Success exactly when the value can be written and the   *)
(* buffer is as long as length() says; it then has written that many bytes *)
(* (length() is what buffers are made by and size fields are filled with). *)
WritesItsLength ==
    reply.op = "write" =>
        /\ (reply.es = "Success") = /\ CanWrite(Form, field)
                                    /\ reply.size >= LengthOf(Form, field)
        /\ reply.es = "Success" => reply.count = LengthOf(Form, field)

(* A refreshed field is read as the value it had once all of its bytes are *)
(* there, however many attempts on the same object have failed before.     *)
ReadsWhatWasWritten ==
    /\ reply.op = "read" /\ wire.own /\ reply.size = Len(wire.bytes)
    /\ AtVersion(Form, field, version) = field /\ Representable(Form, field)
    => reply.es = "Success" /\ reply.count = reply.size /\ other = Seen(Form, field)

(* A part of the bytes is never taken for all of them, and is answered     *)
(* with NotEnoughData (the rest is waited for) where no length in front    *)
(* of the data promises that it is there.                                  *)
WaitsForTheRest ==
    /\ reply.op = "read" /\ wire.own /\ reply.size < Len(wire.bytes)
    /\ AtVersion(Form, field, version) = field /\ Representable(Form, field)
    => /\ Ends(Form) => reply.es # "Success"
       /\ Waits(Form) => reply.es = "NotEnoughData"

(* What has been read of another peer's bytes can be written, in no more   *)
(* bytes than it took, and is read from all of them as the same.           *)
SameFrom(w, v, count) ==
    /\ w.es = "Success" /\ Len(w.bytes) <= count
    /\ ReadOf(Form, Fresh(version), w.bytes) = Result("Success", Len(w.bytes), v)

WritesWhatWasRead ==
    reply.op = "read" /\ reply.es = "Success" /\ Representable(Form, other) =>
        SameFrom(WriteOf(Form, other, LengthOf(Form, other)), other, reply.count)

(* A message that has been refreshed or read has its version everywhere,   *)
(* in elements and members too that came to be while it was read.          *)
VersionReachesAll ==
    /\ reply.op = "refresh" => AllAt(Form, field, version)
    /\ reply.op = "read"    => AllAt(Form, other, version)
=============================================================================
