------------------------------ MODULE IntField ------------------------------
(* How an integer field of the comms library becomes bytes and is read     *)
(* back: IntValue with the adapters that an option of its definition adds: *)
(* SerOffset, FixedLength, VarLength (base-128) and AvailableLength.       *)
(* Sources: comms/include/comms: field/basic/IntValue.h, field/adapter,    *)
(* util/access.h.                                                          *)
(*                                                                         *)
(* Integers keep their width: a value of n bytes is an integer that Cast   *)
(* brings into range. A byte has ByteBits bits, of which a byte of a       *)
(* variable length number uses all but the highest.                        *)
EXTENDS Integers, SequencesExt

CONSTANT ByteBits   \* bits in a byte

ASSUME ByteAssumption == ByteBits \in Nat /\ ByteBits > 1

(* The definition of a field. type: sizeof(ValueType); len: the length of  *)
(* FixedLength, or TMaxLen of VarLength, or the type's; min: TMinLen;      *)
(* offset: that of SerOffset; forced: what setForcedLength was given.      *)
IntForm == [kind : {"plain", "fixed", "var", "avail"}, signed : BOOLEAN,
            big : BOOLEAN, type : {1, 2, 4}, len : 1..4, min : 1..4,
            offset : Int, forced : -1..4]

IsIntForm(f) ==
    /\ f \in IntForm
    /\ f.kind # "var" => f.len <= f.type
    /\ f.kind = "plain" => f.len = f.type
    /\ f.kind = "var" => f.min < f.len

Base  == 2 ^ ByteBits
Shift == ByteBits - 1           \* VarLengthShift

-----------------------------------------------------------------------------
(* static_cast to an integer of n bytes.                                   *)
Cast(signed, n, v) ==
    LET u == v % 2 ^ (ByteBits * n)
    IN  IF signed /\ u >= 2 ^ (ByteBits * n - 1)
        THEN u - 2 ^ (ByteBits * n) ELSE u

SizeToType(n) == CHOOSE k \in {1, 2, 4} : k >= n /\ \A j \in {1, 2, 4} :
                                                       j >= n => j >= k

(* Digits of the given width, the lowest first; of a negative number as if *)
(* it had infinitely many.                                                 *)
Digit(v, width, i)  == (v \div 2 ^ (width * (i - 1))) % 2 ^ width
Digits(v, width, n) == [i \in 1..n |-> Digit(v, width, i)]

ValueOf(digits, width) ==
    LET sum[i \in 0..Len(digits)] ==
            IF i = 0 THEN 0 ELSE sum[i - 1] + digits[i] * 2 ^ (width * (i - 1))
    IN  sum[Len(digits)]

InOrder(big, s) == IF big THEN Reverse(s) ELSE s

(* util::writeData and readData.                                           *)
WriteData(f, v, n)    == InOrder(f.big, Digits(v, ByteBits, n))
ReadData(f, s)        == ValueOf(InOrder(f.big, s), ByteBits)

(* toSerialised and fromSerialised: through SerOffset, in the width of the *)
(* value, and then to that of the field.                                   *)
SerialisedLen(f) ==
    IF f.kind = "var" THEN SizeToType(f.len) ELSE f.len

ToSerialised(f, v) ==
    Cast(f.signed, SerialisedLen(f), Cast(f.signed, f.type, f.offset + v))

(* Mutant: the difference is not brought back into the type.               *)
FromSerialised_Wide(f, s) ==
    LET base == IF f.kind = "var" THEN s ELSE Cast(f.signed, f.len, s)
    IN  Cast(f.signed, f.type, base) - f.offset

FromSerialised(f, s) ==
    LET base == IF f.kind = "var" THEN s ELSE Cast(f.signed, f.len, s)
    IN  Cast(f.signed, f.type, Cast(f.signed, f.type, base) - f.offset)

(* A sign bit at position bit: everything above it is filled with it.      *)
SignExtend(f, u, bit) ==
    IF f.signed /\ Digit(u, 1, bit + 1) = 1 THEN (u % 2 ^ bit) - 2 ^ bit ELSE u

-----------------------------------------------------------------------------
(* VarLength. What is left of the number when i groups have been taken.    *)
Rest(s, i)     == s \div 2 ^ (Shift * i)
Sign(s)        == IF s < 0 THEN -1 ELSE 0
SignSeen(s, i) == /\ i > 0 \/ s >= 0
                  /\ i > 0 => (Digit(Digit(s, Shift, i), 1, Shift) = 1) = (s < 0)

LeastOf(S) == CHOOSE i \in S : \A j \in S : i <= j

(* Mutant: a sign that the last group does not show is forgotten.          *)
VarLengthOf_NoSign(f, s) ==
    LET n == LeastOf({ i \in 0..(SerialisedLen(f) * ByteBits) :
                         Rest(s, i) = Sign(s) })
    IN  IF n < f.min THEN f.min ELSE n

(* length(): the groups until nothing but the sign is left, and one more   *)
(* if the last group does not show it.                                     *)
VarLengthOf(f, s) ==
    LET n == LeastOf({ i \in 0..(SerialisedLen(f) * ByteBits) :
                         Rest(s, i) = Sign(s) })
        m == IF f.signed /\ ~SignSeen(s, n) THEN n + 1 ELSE n
    IN  IF m < f.min THEN f.min ELSE m

(* All bytes of a number but the last have the continue bit.               *)
Continued(groups) ==
    [i \in DOMAIN groups |-> IF i < Len(groups)
                             THEN groups[i] + 2 ^ Shift ELSE groups[i]]

(* writeNoStatusInternal: it stops when nothing but the sign is left, not  *)
(* before MinLength and at MaxLength, where the sign may need a byte more. *)
VarWrite(f, s) ==
    LET n == LeastOf({ i \in f.min..f.len : Rest(s, i) = Sign(s) } \cup {f.len})
        m == IF f.signed /\ n < f.len /\ ~SignSeen(s, n) THEN n + 1 ELSE n
    IN  Continued(InOrder(f.big, Digits(s, Shift, m)))

Result(es, count, value) == [es |-> es, count |-> count, value |-> value]

(* The number that the first n bytes of s stand for.                       *)
VarNumber(f, s, n) ==
    ValueOf(InOrder(f.big, [i \in 1..n |-> s[i] % 2 ^ Shift]), Shift)

(* Where a number ends.                                                    *)
LastBytes(s) == { i \in DOMAIN s : s[i] < 2 ^ Shift }

(* Mutant: a number may be shorter than TMinLen.                           *)
VarRead_Short(f, s, old) ==
    LET n == LeastOf(LastBytes(s))
    IN  IF LastBytes(s) = {} \/ n > f.len
        THEN IF Len(s) < f.len THEN Result("NotEnoughData", Len(s), old)
             ELSE Result("ProtocolError", f.len, old)
        ELSE Result("Success", n,
                 FromSerialised(f, SignExtend(f, VarNumber(f, s, n),
                                              Shift * n - 1)))

(* read(): bytes are taken as long as they have the continue bit.          *)
VarRead(f, s, old) ==
    LET n == LeastOf(LastBytes(s))
    IN  IF LastBytes(s) = {} \/ n > f.len
        THEN IF Len(s) < f.len THEN Result("NotEnoughData", Len(s), old)
             ELSE Result("ProtocolError", f.len, old)
        ELSE IF n < f.min THEN Result("ProtocolError", n, old)
        ELSE Result("Success", n,
                 FromSerialised(f, SignExtend(f, VarNumber(f, s, n),
                                              Shift * n - 1)))

-----------------------------------------------------------------------------
(* AvailableLength: with a positive limit forced_, with as many bytes as   *)
(* the number needs (negative), or as without the option (zero).           *)
FitsLength(f, s, n) ==
    IF f.signed THEN -(2 ^ (ByteBits * n - 1)) <= s /\ s < 2 ^ (ByteBits * n - 1)
    ELSE s < 2 ^ (ByteBits * n)

AvailLengthOf(f, forced, s) ==
    IF forced < 0
    THEN LeastOf({ n \in 1..(SizeToType(f.len) - 1) : FitsLength(f, s, n) }
                 \cup {f.len})
    ELSE IF forced = 0 \/ f.len < forced THEN f.len ELSE forced

(* It reads what there is, up to the length of the type. The sign bit is   *)
(* looked for at the place where VarLength has it.                         *)
AvailRead(f, s, old) ==
    LET n == IF Len(s) < f.len THEN Len(s) ELSE f.len
    IN  IF n = 0 THEN Result("NotEnoughData", 0, old)
        ELSE Result("Success", n,
                 FromSerialised(f, SignExtend(f, ReadData(f, SubSeq(s, 1, n)),
                                              ByteBits * n - (n + 1))))

(* IntValue and FixedLength.                                               *)
FixedRead(f, s, old) ==
    IF Len(s) < f.len THEN Result("NotEnoughData", 0, old)
    ELSE Result("Success", f.len,
             FromSerialised(f, ReadData(f, SubSeq(s, 1, f.len))))

-----------------------------------------------------------------------------
(* The operations of the field.                                            *)
IntLength(f, v) ==
    LET s == ToSerialised(f, v)
    IN  CASE f.kind = "var"   -> VarLengthOf(f, s)
          [] f.kind = "avail" -> AvailLengthOf(f, f.forced, s)
          [] OTHER            -> f.len

IntCanWrite(f, v) == f.kind = "var" => IntLength(f, v) <= f.len

IntBytes(f, v) ==
    LET s == ToSerialised(f, v)
    IN  IF f.kind = "var" THEN VarWrite(f, s)
        ELSE WriteData(f, s, IntLength(f, v))

(* write() into a buffer of the given size.                                *)
IntWrite(f, v, size) ==
    IF ~IntCanWrite(f, v) THEN [es |-> "InvalidMsgData", bytes |-> <<>>]
    ELSE IF size < IntLength(f, v)
    THEN [es |-> "BufferOverflow", bytes |-> <<>>]
    ELSE [es |-> "Success", bytes |-> IntBytes(f, v)]

(* read() of what there is; a failed one leaves the value old.             *)
IntRead(f, old, s) ==
    CASE f.kind = "var"   -> VarRead(f, s, old)
      [] f.kind = "avail" -> AvailRead(f, s, old)
      [] OTHER            -> FixedRead(f, s, old)

HasType(f, v) == Cast(f.signed, f.type, v) = v

(* Whether the bytes can stand for the value at all: no cast has lost      *)
(* anything.                                                               *)
IntRepresentable(f, v) ==
    /\ FromSerialised(f, ToSerialised(f, v)) = v
    /\ f.kind = "avail" /\ f.forced > 0 =>
           FitsLength(f, ToSerialised(f, v), IntLength(f, v))
=============================================================================
