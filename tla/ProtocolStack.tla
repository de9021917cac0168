--------------------------- MODULE ProtocolStack ---------------------------
(* A stack of protocol layers of the comms library, put together as the    *)
(* demo protocol does: a sync prefix, a checksum over everything between   *)
(* it and itself, the size of what follows, the message id and the data.   *)
(* Sources: comms/include/comms/protocol.                                  *)
(*                                                                         *)
(* Every layer reads its own field, lets the next layer read the rest, and *)
(* decides by its answer. A field of a layer, and a field of a message, is *)
(* one byte here. What a layer does is a function of the bytes from the    *)
(* read iterator on; its outcome is the error status, how far the iterator *)
(* has moved, and the message, if there is one.                            *)
EXTENDS Integers, SequencesExt

CONSTANTS
    Base,           \* the number of values of a byte
    SyncPrefix,     \* the byte every frame begins with
    AllMessages     \* the message types: an id and the valid values of each
                    \* field; types may share an id, then the order matters

Byte == 0..(Base - 1)

ASSUME BaseAssumption == Base \in Nat \ {0} /\ SyncPrefix \in Byte
ASSUME MessagesAssumption ==
    AllMessages \in Seq([id : Byte, fields : Seq(SUBSET Byte)])

NoMsg == [type |-> 0, payload |-> <<>>]

Failure(es, consumed) == [es |-> es, consumed |-> consumed, msg |-> NoMsg]

(* BasicSum, kept in one byte.                                             *)
Checksum(bytes) ==
    LET sum[i \in 0..Len(bytes)] ==
            IF i = 0 THEN 0 ELSE (sum[i - 1] + bytes[i]) % Base
    IN  sum[Len(bytes)]

-----------------------------------------------------------------------------
(* MsgDataLayer: the message reads its fields one after the other, as long *)
(* as there is data and the values are valid.                              *)
MsgDataRead(type, s) ==
    LET fields == AllMessages[type].fields
        bad    == { i \in DOMAIN fields : i > Len(s) \/ s[i] \notin fields[i] }
    IN  IF bad = {}
        THEN [es |-> "Success", consumed |-> Len(fields),
              msg |-> [type    |-> type,
                       payload |-> SubSeq(s, 1, Len(fields))]]
        ELSE LET i == CHOOSE j \in bad : \A k \in bad : j <= k
             IN  Failure(IF Len(s) < i THEN "NotEnoughData"
                         ELSE "InvalidMsgData", i - 1)

(* MsgFactory::createMsg: the types with the given id, of which the index  *)
(* counts from the first one in AllMessages.                               *)
TypesWithId(id) == { i \in DOMAIN AllMessages : AllMessages[i].id = id }

(* MsgIdLayer takes the first of the message types with the id that can be *)
(* read; its error is that of the last one tried.                          *)
FirstRead(types, s) ==
    LET readable == { i \in types : MsgDataRead(i, s).es = "Success" }
    IN  IF readable # {}
        THEN [MsgDataRead(Min(readable), s) EXCEPT !.consumed = @ + 1]
        ELSE Failure(IF types = {} THEN "InvalidMsgId"
                     ELSE MsgDataRead(Max(types), s).es, 1)

MsgIdRead(s) ==
    IF s = <<>> THEN Failure("NotEnoughData", 0)
    ELSE FirstRead(TypesWithId(s[1]), Tail(s))

(* A message that needs more than its announced size is wrong, and one     *)
(* that needs less is skipped to its announced end.                        *)
Sized(next, size) ==
    IF next.es = "NotEnoughData"
    THEN Failure("ProtocolError", 1 + next.consumed)
    ELSE [next EXCEPT !.consumed = 1 + size]

(* Mutant: what has not arrived completely is taken for wrong.             *)
MsgSizeRead_NoWait(s) ==
    IF s = <<>> THEN Failure("NotEnoughData", 0)
    ELSE IF Len(s) - 1 < s[1] THEN Failure("ProtocolError", 1)
    ELSE Sized(MsgIdRead(SubSeq(s, 2, s[1] + 1)), s[1])

(* MsgSizeLayer waits until all it announces has arrived.                  *)
MsgSizeRead(s) ==
    IF s = <<>> THEN Failure("NotEnoughData", 0)
    ELSE IF Len(s) - 1 < s[1] THEN Failure("NotEnoughData", 1)
    ELSE Sized(MsgIdRead(SubSeq(s, 2, s[1] + 1)), s[1])

(* ChecksumLayer verifies after reading, unless the frame is incomplete or *)
(* wrong anyway; an answer of another kind, such as an invalid message, is *)
(* given only if the checksum is right.                                    *)
Verified(next, s) ==
    IF next.es \in {"NotEnoughData", "ProtocolError"} THEN next
    ELSE IF Len(s) = next.consumed THEN Failure("NotEnoughData", Len(s))
    ELSE IF s[next.consumed + 1] # Checksum(SubSeq(s, 1, next.consumed))
    THEN Failure("ProtocolError", next.consumed + 1)
    ELSE [next EXCEPT !.consumed = @ + 1]

ChecksumRead(s) == Verified(MsgSizeRead(s), s)

(* SyncPrefixLayer, the outermost one.                                     *)
StackRead(s) ==
    IF s = <<>> THEN Failure("NotEnoughData", 0)
    ELSE IF s[1] # SyncPrefix THEN Failure("ProtocolError", 1)
    ELSE LET next == ChecksumRead(Tail(s))
         IN  [next EXCEPT !.consumed = @ + 1]

-----------------------------------------------------------------------------
(* Writing through an output iterator: the size is known from the length   *)
(* of the message, the checksum cannot be computed and is left for update. *)
StackWrite(msg) ==
    LET body == <<AllMessages[msg.type].id>> \o msg.payload
    IN  <<SyncPrefix, Len(body) % Base>> \o body \o <<0>>

(* Mutant: the checksum covers the sync prefix as well.                    *)
StackUpdate_CoversPrefix(data) ==
    LET n     == Len(data)
        sized == [data EXCEPT ![2] = (n - 3) % Base]
    IN  [sized EXCEPT ![n] = Checksum(SubSeq(sized, 1, n - 1))]

(* Updating: the size layer writes what is left for it, then the checksum  *)
(* layer sums up what the layers inside it have written.                   *)
StackUpdate(data) ==
    LET n     == Len(data)
        sized == [data EXCEPT ![2] = (n - 3) % Base]
    IN  [sized EXCEPT ![n] = Checksum(SubSeq(sized, 2, n - 1))]
=============================================================================
