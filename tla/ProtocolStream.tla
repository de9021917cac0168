--------------------------- MODULE ProtocolStream ---------------------------
(* comms_champion::ProtocolBase, comms_champion/lib/include: the protocol  *)
(* object of the tools, which turns a stream of bytes into messages and    *)
(* keeps what it could not make use of yet from one call of read to the    *)
(* next.                                                                   *)
(*                                                                         *)
(* Messages of another tool, and bytes that are none, come over a wire     *)
(* that cuts the stream into chunks anywhere. The same object is also what *)
(* the dialog for raw data of the view uses to make messages of the bytes  *)
(* a user types in.                                                        *)
EXTENDS ProtocolStack

CONSTANTS
    GarbageLimit,   \* garbage of this size is reported at once
    Outgoing,       \* the messages the other tool sends
    Surroundings    \* what happens beside the messages: the bytes on the
                    \* wire that belong to none (noise), what a user may
                    \* type into the raw data dialog (typed), and a bound
                    \* on the bytes put on the wire or typed in (maxBytes)

MsgType == [type : DOMAIN AllMessages, payload : Seq(Byte)]

ASSUME GarbageLimitAssumption == GarbageLimit \in Nat \ {0}
ASSUME OutgoingAssumption ==
    \A msg \in Outgoing :
        /\ msg \in MsgType
        /\ Len(msg.payload) = Len(AllMessages[msg.type].fields)

ASSUME SurroundingsAssumption ==
    \A s \in Surroundings : /\ s.noise \subseteq Byte
                             /\ s.typed \subseteq Seq(Byte)
                             /\ s.maxBytes \in Nat

VARIABLES
    around,         \* the surroundings
    m_data,         \* bytes received and not made use of
    m_garbage,      \* bytes dropped and not reported
    wire,           \* bytes on their way
    sent,           \* the messages written to the wire
    received,       \* all the bytes the socket has delivered
    typed,          \* how many bytes have been typed in, and dialogs accepted
    read,           \* all the bytes given to read, by the socket or dialog
    reported,       \* all the messages returned by read
    recvList,       \* those returned to the receiving side
    sendList        \* those returned to the dialog

vars == <<around, m_data, m_garbage, wire, sent, received, typed, read, reported,
          recvList, sendList>>

(* InvalidMsg with its raw data, for bytes that are no message.            *)
Invalid(raw)  == [raw |-> raw, msg |-> NoMsg]
Flushed(garbage) == IF garbage = <<>> THEN <<>> ELSE <<Invalid(garbage)>>

(* Mutant: the limit is noticed one byte late.                             *)
Dropped_LimitLate(st, byte) ==
    LET dropped == Append(st.garbage, byte)
        full    == GarbageLimit < Len(dropped)
    IN  [st EXCEPT !.pos = @ + 1,
                   !.garbage = IF full THEN <<>> ELSE dropped,
                   !.msgs = IF full THEN @ \o Flushed(dropped) ELSE @]

(* The byte is garbage, which is reported when there is enough of it.      *)
Dropped(st, byte) ==
    LET dropped == Append(st.garbage, byte)
        full    == GarbageLimit <= Len(dropped)
    IN  [st EXCEPT !.pos = @ + 1,
                   !.garbage = IF full THEN <<>> ELSE dropped,
                   !.msgs = IF full THEN @ \o Flushed(dropped) ELSE @]

(* Mutant: the garbage before a message is reported after it.              *)
Taken_GarbageLast(st, raw, msg) ==
    [st EXCEPT !.pos = @ + Len(raw), !.garbage = <<>>,
               !.msgs = @ \o <<[raw |-> raw, msg |-> msg]>>
                          \o Flushed(st.garbage)]

(* The bytes are a message, valid or not, and reported as such after the   *)
(* garbage before them.                                                    *)
Taken(st, raw, msg) ==
    [st EXCEPT !.pos = @ + Len(raw), !.garbage = <<>>,
               !.msgs = @ \o Flushed(st.garbage)
                          \o <<[raw |-> raw, msg |-> msg]>>]

(* One iteration of the loop of readImpl, with what the stack has made of  *)
(* the bytes from the position reached.                                    *)
ReadStep(st, rest, r) ==
    IF rest = <<>> \/ r.es = "NotEnoughData"
    THEN [st EXCEPT !.done = TRUE]
    ELSE IF r.es \in {"Success", "InvalidMsgData"}
    THEN Taken(st, SubSeq(rest, 1, r.consumed), r.msg)
    ELSE Dropped(st, rest[1])

Rest(st, data) == SubSeq(data, st.pos + 1, Len(data))

(* The loop ends at the latest when every byte has been looked at.         *)
ReadLoop(garbage, data) ==
    LET loop[i \in 0..(Len(data) + 1)] ==
            IF i = 0 THEN [pos |-> 0, garbage |-> garbage, msgs |-> <<>>,
                           done |-> FALSE]
            ELSE LET st == loop[i - 1]
                 IN  IF st.done THEN st
                     ELSE ReadStep(st, Rest(st, data), StackRead(Rest(st, data)))
    IN  loop[Len(data) + 1]

(* readImpl: what the object keeps, and the messages it returns. The final *)
(* call keeps nothing: all that is left is reported as garbage.            *)
Finish(end, rest, final) ==
    IF final
    THEN [data |-> <<>>, garbage |-> <<>>,
          msgs |-> end.msgs \o Flushed(end.garbage \o rest)]
    ELSE [data |-> rest, garbage |-> end.garbage, msgs |-> end.msgs]

ReadAll(end, data, final) == Finish(end, Rest(end, data), final)

ReadImpl(data, garbage, chunk, final) ==
    ReadAll(ReadLoop(garbage, data \o chunk), data \o chunk, final)

(* writeImpl: writes through an output iterator and updates what that      *)
(* could not fill in.                                                      *)
WriteImpl(msg) == StackUpdate(StackWrite(msg))

-----------------------------------------------------------------------------
Init ==
    /\ around \in Surroundings
    /\ m_data = <<>>
    /\ m_garbage = <<>>
    /\ wire = <<>>
    /\ sent = <<>>
    /\ received = <<>>
    /\ typed = 0
    /\ read = <<>>
    /\ reported = <<>>
    /\ recvList = <<>>
    /\ sendList = <<>>

Room == around.maxBytes - Len(wire) - Len(received) - typed

(* The other tool writes a message.                                        *)
Send ==
    \E msg \in Outgoing :
        /\ Len(WriteImpl(msg)) <= Room
        /\ wire' = wire \o WriteImpl(msg)
        /\ sent' = Append(sent, msg)
        /\ UNCHANGED <<m_data, m_garbage, received, typed, read, reported,
                       recvList, sendList>>

(* A byte that belongs to no message gets onto the wire.                   *)
Disturb ==
    /\ 0 < Room
    /\ \E b \in around.noise : wire' = Append(wire, b)
    /\ UNCHANGED <<m_data, m_garbage, sent, received, typed, read, reported,
                   recvList, sendList>>

Read(chunk, result) ==
    /\ m_data' = result.data
    /\ m_garbage' = result.garbage
    /\ read' = read \o chunk
    /\ reported' = reported \o result.msgs

ReceiveChunk(chunk, result) ==
    /\ Read(chunk, result)
    /\ recvList' = recvList \o result.msgs
    /\ received' = received \o chunk

(* The socket delivers a chunk, and MsgMgr has it read.                    *)
Receive ==
    \E n \in 1..Len(wire) :
        LET chunk == SubSeq(wire, 1, n)
        IN  /\ ReceiveChunk(chunk, ReadImpl(m_data, m_garbage, chunk, FALSE))
            /\ wire' = SubSeq(wire, n + 1, Len(wire))
            /\ UNCHANGED <<sent, typed, sendList>>

AcceptInput(input, result) ==
    /\ Read(input, result)
    /\ sendList' = sendList \o result.msgs
    /\ typed' = typed + 1 + Len(input)

(* RawHexDataDialog::accept, with the protocol object of the receiver: even*)
(* if nothing has been typed in, what the object has kept is given up.     *)
AcceptRawData ==
    /\ \E input \in around.typed :
        /\ 1 + Len(input) <= Room
        /\ AcceptInput(input, ReadImpl(m_data, m_garbage, input, TRUE))
    /\ UNCHANGED <<wire, sent, received, recvList>>

Next ==
    /\ UNCHANGED around
    /\ \/ Send
       \/ Disturb
       \/ Receive
       \/ AcceptRawData

Spec == Init /\ [][Next]_vars

-----------------------------------------------------------------------------
Reported == Seq([raw : Seq(Byte), msg : MsgType \cup {NoMsg}])

TypeOK ==
    /\ m_data \in Seq(Byte)
    /\ m_garbage \in Seq(Byte)
    /\ Len(m_garbage) < GarbageLimit
    /\ wire \in Seq(Byte)
    /\ sent \in Seq(MsgType)
    /\ received \in Seq(Byte)
    /\ typed \in Nat
    /\ read \in Seq(Byte)
    /\ reported \in Reported
    /\ recvList \in Reported
    /\ sendList \in Reported

(* No byte is lost, duplicated or reordered, whatever it is part of: the   *)
(* raw data of all that was reported, the garbage kept back and the data   *)
(* not yet used are, in this order, all the bytes that were read.          *)
ByteConservation ==
    FlattenSeq([i \in DOMAIN reported |-> reported[i].raw])
        \o m_garbage \o m_data = read

(* What the receiving side is told depends on the bytes it has received    *)
(* alone: not on where the stream was cut into chunks, nor on anything     *)
(* else that happened in between.                                          *)
ReceiverUndisturbed == recvList = ReadImpl(<<>>, <<>>, received, FALSE).msgs

(* That is so as long as the protocol object serves no one else.           *)
DecodesTheStream == typed = 0 => ReceiverUndisturbed

(* The members of a list at some positions, in the order of the list.      *)
Selected(list, positions) ==
    LET upTo[i \in 0..Len(list)] ==
            IF i = 0 THEN <<>>
            ELSE IF i \in positions THEN Append(upTo[i - 1], list[i])
            ELSE upTo[i - 1]
    IN  upTo[Len(list)]

(* The messages among the objects a list of results holds.                 *)
Messages(list) == Selected([i \in DOMAIN list |-> list[i].msg],
                           { i \in DOMAIN list : list[i].msg # NoMsg })

(* Every value of the message is one the message type accepts.             *)
Readable(msg) == \A i \in DOMAIN msg.payload :
                     msg.payload[i] \in AllMessages[msg.type].fields[i]

AllReadable(list) == Selected(list, { i \in DOMAIN list : Readable(list[i]) })

(* The other tool sends only what can be told apart: a message is short    *)
(* enough for its size to be written down; the message types that share an *)
(* id can be told from what is sent, so that none tried before the right   *)
(* one reads it; and a message that has an invalid value is read by none of*)
(* them, and is long enough for them to see that.                          *)
Recognisable(msg) ==
    /\ Len(msg.payload) + 1 < Base
    /\ \A i \in TypesWithId(AllMessages[msg.type].id) :
          IF Readable(msg)
          THEN MsgDataRead(i, msg.payload).es = "Success" => msg.type <= i
          ELSE MsgDataRead(i, msg.payload).es = "InvalidMsgData"

Recognised == \A msg \in Outgoing : Recognisable(msg)

(* As long as nothing is typed in and the bytes between the messages       *)
(* cannot be taken for the beginning of one, every message that has        *)
(* arrived completely has been reported as it was sent, in the order they  *)
(* were sent, and nothing else has been reported as a message. That is     *)
(* promised of what can be told apart (Recognised).                        *)
Harmless == typed = 0 /\ SyncPrefix \notin around.noise

SentIsReceived ==
    Harmless => /\ IsPrefix(Messages(recvList), AllReadable(sent))
                /\ wire = <<>> => Messages(recvList) = AllReadable(sent)
=============================================================================
