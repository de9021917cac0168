------------------------------- MODULE MsgMgr -------------------------------
(* The message manager, comms_champion/lib/src/MsgMgrImpl, with what it    *)
(* works with: a chain of filters below the protocol, the echo socket at   *)
(* the bottom (plugin/echo_socket), and the list of the view that displays *)
(* its messages (app/cc_view/src/GuiAppMgr).                               *)
(*                                                                         *)
(* The manager numbers the messages it has sent, received or been given    *)
(* and finds the one to delete by its number. The view decides by the type *)
(* of a message whether to list it, whenever one is added and again when   *)
(* the user changes what is to be shown.                                   *)
(*                                                                         *)
(* Filters are plugins of the user. Each one here adds a transport layer   *)
(* of its own to what is sent, takes it off what is received and drops     *)
(* what does not carry it; it may withhold what it is given to send, and   *)
(* may talk to its peer by data of its own. Data is abstracted to the      *)
(* message it carries and its layers, the outermost first.                 *)
EXTENDS Integers, SequencesExt

CONSTANTS
    NFilters,       \* the number of filters in the chain
    MaxBatch,       \* bound on the messages sent or loaded in one call
    MaxSent,        \* bound on the messages sent
    MaxOwn,         \* bound on the data generated by filters
    MaxNum          \* bound on the numbers given to messages

ASSUME BoundsAssumption ==
    /\ NFilters \in Nat
    /\ {MaxBatch, MaxSent, MaxOwn, MaxNum} \subseteq Nat

Filters   == 1..NFilters
MsgType   == {"Sent", "Received"}
Loaded    == 0                          \* a message read from a file
Own       == -1                         \* data that carries no message
MessageId == 0..MaxSent
Entry     == [num : 1..MaxNum, type : MsgType, id : MessageId]
DataInfo  == [id : {Own} \cup 1..MaxSent, layers : Seq(Filters)]

VARIABLES
    m_running,      \* whether plugins have been applied
    m_recvEnabled,
    m_allMsgs,
    m_nextMsgNum,
    m_recvListMode, \* the types of messages the view is to list
    recvList,       \* the messages it does list
    m_pendingData,  \* EchoSocket: what was sent and not delivered yet
    m_timerActive,  \* EchoSocket: the flag kept beside the timer
    m_timer,        \* EchoSocket: whether the timer is running
    created,        \* how many messages have been sent
    own             \* how many data the filters have generated

vars == <<m_running, m_recvEnabled, m_allMsgs, m_nextMsgNum, m_recvListMode,
          recvList, m_pendingData, m_timerActive, m_timer, created, own>>

-----------------------------------------------------------------------------
(* Data on its way through the chain of filters.                           *)

FilterSend(f, d) == [d EXCEPT !.layers = <<f>> \o @]

FilterRecv(f, d) ==
    IF \/ d.layers = <<>>
       \/ Head(d.layers) # f
       \/ d = [id |-> Own, layers |-> <<f>>]
    THEN <<>> ELSE << [d EXCEPT !.layers = Tail(@)] >>

(* sendMsgs goes through m_filters from the first to the last.             *)
SendChain(d) ==
    LET through[f \in 0..NFilters] ==
            IF f = 0 THEN d ELSE FilterSend(f, through[f - 1])
    IN  through[NFilters]

(* socketDataReceived goes through them from the first to the last, too,   *)
(* as long as there is data left.                                          *)
RecvChain(d) ==
    LET through[f \in 0..NFilters] ==
            IF f = 0 THEN <<d>>
            ELSE IF through[f - 1] = <<>> THEN <<>>
            ELSE FilterRecv(f, through[f - 1][1])
    IN  through[NFilters]

-----------------------------------------------------------------------------
(* The members of the manager, the view and the socket, as they change in  *)
(* the course of one call.                                                 *)
Now == [allMsgs |-> m_allMsgs, next |-> m_nextMsgNum, shown |-> recvList,
        pending |-> m_pendingData, active |-> m_timerActive, timer |-> m_timer]

Become(st) ==
    /\ m_allMsgs' = st.allMsgs
    /\ m_nextMsgNum' = st.next
    /\ recvList' = st.shown
    /\ m_pendingData' = st.pending
    /\ m_timerActive' = st.active
    /\ m_timer' = st.timer

CanAddToRecvList(m) == m.type \in m_recvListMode

(* updateInternalId, reportMsgAdded and the addition to the messages.      *)
Add(st, type, id) ==
    LET m == [num |-> st.next, type |-> type, id |-> id]
    IN  [st EXCEPT !.allMsgs = Append(@, m),
                   !.next = @ + 1,
                   !.shown = IF CanAddToRecvList(m) THEN Append(@, m) ELSE @]

(* socketDataReceived: the protocol makes a message of data that carries   *)
(* one and has lost all its layers.                                        *)
SocketDataReceived(st, d) ==
    IF ~m_recvEnabled \/ RecvChain(d) = <<>> THEN st
    ELSE Add(st, "Received", RecvChain(d)[1].id)

(* Mutant: what is sent is delivered at once.                              *)
SendDataImpl_AtOnce(st, d) == SocketDataReceived(st, d)

(* EchoSocket::sendDataImpl.                                               *)
SendDataImpl(st, d) ==
    [st EXCEPT !.pending = Append(@, d),
               !.active = TRUE,
               !.timer = IF st.active THEN @ ELSE TRUE]

(* One round of the loop of sendMsgs: the message is numbered and recorded *)
(* when the round is left, whether a filter withholds its data or not.     *)
SendMsg(st, id, withheld) ==
    Add(IF id \in withheld THEN st
        ELSE SendDataImpl(st, SendChain([id |-> id, layers |-> <<>>])),
        "Sent", id)

(* The loop of sendMsgs, over the next n messages of the user.             *)
SendAll(st, n, withheld) ==
    LET after[i \in 0..n] ==
            IF i = 0 THEN st ELSE SendMsg(after[i - 1], created + i, withheld)
    IN  after[n]

(* The loop of addMsgs.                                                    *)
AddAll(st, types) ==
    LET after[i \in 0..Len(types)] ==
            IF i = 0 THEN st ELSE Add(after[i - 1], types[i], Loaded)
    IN  after[Len(types)]

(* The loop of sendDataPostponed.                                          *)
DeliverAll(st, data) ==
    LET after[i \in 0..Len(data)] ==
            IF i = 0 THEN st ELSE SocketDataReceived(after[i - 1], data[i])
    IN  after[Len(data)]

(* std::lower_bound by number.                                             *)
LowerBound(msgs, num) ==
    CHOOSE i \in 1..(Len(msgs) + 1) :
        /\ i <= Len(msgs) => num <= msgs[i].num
        /\ \A j \in 1..(i - 1) : msgs[j].num < num

(* Mutant: the first message of a greater number is taken.                 *)
DeleteMsg_Greater(msgs, m) ==
    LET i == LowerBound(msgs, m.num + 1)
    IN  IF i = Len(msgs) + 1 THEN msgs ELSE RemoveAt(msgs, i)

DeleteMsg(msgs, m) ==
    LET i == LowerBound(msgs, m.num)
    IN  IF i = Len(msgs) + 1 THEN msgs ELSE RemoveAt(msgs, i)

(* The loop of deleteMessages.                                             *)
DeleteAll(msgs, listed) ==
    LET left[i \in 0..Len(listed)] ==
            IF i = 0 THEN msgs ELSE DeleteMsg(left[i - 1], listed[i])
    IN  left[Len(listed)]

(* The loop of refreshRecvList: the messages of the types to be shown.     *)
Listed(msgs, mode) ==
    LET list[i \in 0..Len(msgs)] ==
            IF i = 0 THEN <<>>
            ELSE IF msgs[i].type \in mode THEN Append(list[i - 1], msgs[i])
            ELSE list[i - 1]
    IN  list[Len(msgs)]

-----------------------------------------------------------------------------
Init ==
    /\ m_running = FALSE
    /\ m_recvEnabled = TRUE
    /\ m_allMsgs = <<>>
    /\ m_nextMsgNum = 1
    /\ m_recvListMode = MsgType
    /\ recvList = <<>>
    /\ m_pendingData = <<>>
    /\ m_timerActive = FALSE
    /\ m_timer = FALSE
    /\ created = 0
    /\ own = 0

(* sendMsgs, with a batch of messages, of which the filters may withhold   *)
(* the data of any.                                                        *)
SendMsgs ==
    /\ m_running
    /\ \E n \in 1..MaxBatch : \E withheld \in SUBSET ((created + 1)..(created + n)) :
        /\ Filters = {} => withheld = {}
        /\ created + n <= MaxSent
        /\ m_nextMsgNum + n <= MaxNum + 1
        /\ Become(SendAll(Now, n, withheld))
        /\ created' = created + n
    /\ UNCHANGED <<m_running, m_recvEnabled, m_recvListMode, own>>

(* A filter has data of its own to send. The callback of addFilter leaves  *)
(* the loop over the filters below it as long as there is data to send:    *)
(* the data goes to the socket as it is.                                   *)
DataToSend ==
    /\ m_running
    /\ own < MaxOwn
    /\ \E f \in Filters :
        Become(SendDataImpl(Now, FilterSend(f, [id |-> Own, layers |-> <<>>])))
    /\ own' = own + 1
    /\ UNCHANGED <<m_running, m_recvEnabled, m_recvListMode, created>>

(* Mutant: the flag is not reset when the timer has expired.               *)
SendDataPostponed_FlagStays ==
    /\ m_timer
    /\ m_nextMsgNum + Len(m_pendingData) <= MaxNum + 1
    /\ Become(DeliverAll([Now EXCEPT !.timer = FALSE, !.pending = <<>>],
                         m_pendingData))
    /\ UNCHANGED <<m_running, m_recvEnabled, m_recvListMode, created, own>>

(* EchoSocket::sendDataPostponed: all that is pending is received.         *)
SendDataPostponed ==
    /\ m_timer
    /\ m_nextMsgNum + Len(m_pendingData) <= MaxNum + 1
    /\ Become(DeliverAll([Now EXCEPT !.timer = FALSE, !.active = FALSE,
                                     !.pending = <<>>],
                         m_pendingData))
    /\ UNCHANGED <<m_running, m_recvEnabled, m_recvListMode, created, own>>

(* recvStartClicked, recvStopClicked.                                      *)
SetRecvEnabled ==
    /\ m_recvEnabled' = ~m_recvEnabled
    /\ UNCHANGED <<m_running, m_allMsgs, m_nextMsgNum, m_recvListMode,
                   recvList, m_pendingData, m_timerActive, m_timer, created,
                   own>>

(* updateRecvListMode and refreshRecvList: the list is filled anew from    *)
(* all the messages.                                                       *)
UpdateRecvListMode ==
    /\ \E type \in MsgType :
        m_recvListMode' = IF type \in m_recvListMode
                          THEN m_recvListMode \ {type}
                          ELSE m_recvListMode \cup {type}
    /\ recvList' = Listed(m_allMsgs, m_recvListMode')
    /\ UNCHANGED <<m_running, m_recvEnabled, m_allMsgs, m_nextMsgNum,
                   m_pendingData, m_timerActive, m_timer, created, own>>

(* recvDeleteClicked: the message the user has selected.                   *)
RecvDelete ==
    /\ \E i \in DOMAIN recvList :
        /\ m_allMsgs' = DeleteMsg(m_allMsgs, recvList[i])
        /\ recvList' = RemoveAt(recvList, i)
    /\ UNCHANGED <<m_running, m_recvEnabled, m_nextMsgNum, m_recvListMode,
                   m_pendingData, m_timerActive, m_timer, created, own>>

(* recvClearClicked and deleteMessages: what is listed is deleted, message *)
(* by message, and what is hidden is kept.                                 *)
RecvClear ==
    /\ recvList # <<>>
    /\ m_allMsgs' = DeleteAll(m_allMsgs, recvList)
    /\ recvList' = <<>>
    /\ UNCHANGED <<m_running, m_recvEnabled, m_nextMsgNum, m_recvListMode,
                   m_pendingData, m_timerActive, m_timer, created, own>>

(* recvLoadMsgsFromFile: deleteAllMsgs, then addMsgs of what the file has. *)
RecvLoad ==
    /\ m_running
    /\ \E n \in 1..MaxBatch : \E types \in [1..n -> MsgType] :
        /\ m_nextMsgNum + n <= MaxNum + 1
        /\ Become(AddAll([Now EXCEPT !.allMsgs = <<>>, !.shown = <<>>], types))
    /\ UNCHANGED <<m_running, m_recvEnabled, m_recvListMode, created, own>>

(* applyNewPlugins: the manager is stopped, cleared and given new plugins, *)
(* whose socket connects of itself; what the old socket held is gone with  *)
(* it. The messages are dropped if plugins have to be reloaded.            *)
ApplyNewPlugins ==
    /\ m_running' = TRUE
    /\ m_pendingData' = <<>>
    /\ m_timerActive' = FALSE
    /\ m_timer' = FALSE
    /\ \/ UNCHANGED <<m_allMsgs, recvList>>
       \/ /\ m_running
          /\ m_allMsgs' = <<>>
          /\ recvList' = <<>>
    /\ UNCHANGED <<m_recvEnabled, m_nextMsgNum, m_recvListMode, created, own>>

Next ==
    \/ SendMsgs
    \/ DataToSend
    \/ SendDataPostponed
    \/ SetRecvEnabled
    \/ UpdateRecvListMode
    \/ RecvDelete
    \/ RecvClear
    \/ RecvLoad
    \/ ApplyNewPlugins

Spec == Init /\ [][Next]_vars

-----------------------------------------------------------------------------
TypeOK ==
    /\ m_running \in BOOLEAN
    /\ m_recvEnabled \in BOOLEAN
    /\ m_allMsgs \in Seq(Entry)
    /\ m_nextMsgNum \in 1..(MaxNum + 1)
    /\ m_recvListMode \in SUBSET MsgType
    /\ recvList \in Seq(Entry)
    /\ m_pendingData \in Seq(DataInfo)
    /\ m_timerActive \in BOOLEAN
    /\ m_timer \in BOOLEAN
    /\ created \in 0..MaxSent
    /\ own \in 0..MaxOwn

(* The view lists exactly the messages of the manager that are to be       *)
(* shown, in the manager's order, after any sequence of sending,           *)
(* receiving, loading, deleting, clearing and changing what is shown: the  *)
(* manager has deleted the messages the user meant and no others. This is  *)
(* assert(msg.get() == iter->get()) of deleteMsg, and more.                *)
ListsAgree == recvList = Listed(m_allMsgs, m_recvListMode)

(* A message and its echo are recorded in this order, and echoes in the    *)
(* order of the messages, none of them twice.                              *)
EchoesFollow ==
    \A i, j \in DOMAIN m_allMsgs :
        LET first == m_allMsgs[i]
            later == m_allMsgs[j]
        IN  i < j /\ Loaded \notin {first.id, later.id} /\ first.type = "Received"
                => IF later.type = "Received" THEN first.id < later.id
                   ELSE first.id # later.id

(* Data waits in the echo socket only as long as its timer is running,     *)
(* which the flag beside the timer is trusted to tell.                     *)
PendingIsScheduled == m_pendingData # <<>> => m_timer

(* "Process the data, generated by the protocol or other filter up the     *)
(* chain", "Process the data, received by I/O socket or other filter down  *)
(* the chain": the layers the filters add on the way down are those they   *)
(* take off on the way up, and an echoed message is received as it was     *)
(* sent.                                                                   *)
RoundTrip ==
    \A i \in DOMAIN m_pendingData :
        LET d == m_pendingData[i]
        IN  d.id # Own => RecvChain(d) = << [id |-> d.id, layers |-> <<>>] >>
=============================================================================
