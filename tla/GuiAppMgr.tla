----------------------------- MODULE GuiAppMgr -----------------------------
(* The view application, comms_champion/app/cc_view/src: the GuiAppMgr,    *)
(* the two lists of messages with their toolbars and the main toolbar.     *)
(*                                                                         *)
(* Every object keeps its own copy of what is selected, how many messages  *)
(* are listed and whether messages are being sent; Qt signals keep the     *)
(* copies together. A slot runs inside the signal that triggers it, and    *)
(* may emit further signals before the slots connected after it have run:  *)
(* a handler is an operator from the state of all the objects to the next  *)
(* one, with the slots applied in the order of their connection. The       *)
(* toolbars are constructed before the list below them, the receiving side *)
(* before the sending side.                                                *)
(*                                                                         *)
(* A dialog is modal: while it is open the user cannot reach the windows,  *)
(* but messages arrive and timers expire. Only the dialogs that work on a  *)
(* message selected before they were opened are kept apart from what       *)
(* follows them. The message manager is abstracted to its messages, the    *)
(* sending manager to the number of messages it has still to send; both    *)
(* have modules of their own.                                              *)
EXTENDS Integers, SequencesExt

CONSTANTS
    ListedKinds,    \* "Sent", and "Received", "Garbage" or both or none
    MaxRecv,        \* bound on the messages listed as received or sent
    MaxScript,      \* bound on the messages in the list to be sent
    MaxMsgs,        \* bound on the messages of both lists together
    PluginsMayFail  \* whether a plugin may create no socket or protocol

ASSUME BoundsAssumption == {MaxRecv, MaxScript, MaxMsgs} \subseteq Nat
ASSUME KindsAssumption ==
    "Sent" \in ListedKinds /\ ListedKinds \subseteq {"Received", "Sent", "Garbage"}
ASSUME PluginsAssumption == PluginsMayFail \in BOOLEAN

MsgOfKind(kind, max) == [kind : {kind}, n : 1..max]
Listed  == UNION {MsgOfKind(kind, MaxRecv + 2) : kind \in ListedKinds}
Scripts == MsgOfKind("Script", MaxScript + 2)
NoMsg   == [kind |-> "None", n |-> 0]
NoRow   == -1

SendState == {"Idle", "SendingSingle", "SendingAll"}
Selection == {"None", "Recv", "Send"}

VARIABLES
    mgr,        \* GuiAppMgr: selection, counts, modes, what is displayed
    recvBar,    \* RecvAreaToolBar
    sendBar,    \* SendAreaToolBar
    recvList,   \* RecvMsgListWidget
    sendList,   \* SendMsgListWidget
    env         \* plugins, messages, sending, dialogs, assertions

vars == <<mgr, recvBar, sendBar, recvList, sendList, env>>

Now == [mgr |-> mgr, recvBar |-> recvBar, sendBar |-> sendBar,
        recvList |-> recvList, sendList |-> sendList, env |-> env]

Become(s) ==
    /\ mgr' = s.mgr
    /\ recvBar' = s.recvBar
    /\ sendBar' = s.sendBar
    /\ recvList' = s.recvList
    /\ sendList' = s.sendList
    /\ env' = s.env

(* assert(cond): remembered, for the invariant AssertsHold.                *)
Assert_(s, cond) == [s EXCEPT !.env.ok = @ /\ cond]

(* A message object is free again once nobody holds a pointer to it.       *)
Held(s) == {s.mgr.clicked, s.mgr.pending, s.mgr.displayed, s.env.dialogMsg}
              \cup ToSet(s.env.allMsgs) \cup ToSet(s.sendList.items)
FreshOf(s, msgs) == CHOOSE m \in msgs \ Held(s) :
                        \A o \in msgs \ Held(s) : m.n <= o.n
FreshMsg(s, kind) == FreshOf(s, MsgOfKind(kind, MaxRecv + 2))
FreshScript(s) == FreshOf(s, Scripts)

(* Whether the lists with r and n messages are within the bounds.          *)
Fit(r, n) == r <= MaxRecv /\ n <= MaxScript /\ r + n <= MaxMsgs
RoomForRecv(n)   == Fit(Len(env.allMsgs) + n, Len(sendList.items))
RoomForScript(n) == Fit(Len(env.allMsgs), Len(sendList.items) + n)

-----------------------------------------------------------------------------
(* The slots of the toolbars and lists.                                    *)

(* refresh() of a toolbar: msgSelected() asserts on the index when it is   *)
(* evaluated, after the conditions it is conjoined with.                   *)
RecvBarRefresh(s) ==
    Assert_(s, s.env.active => s.recvBar.idx < s.recvBar.total)

SendBarRefresh(s) ==
    Assert_(s, s.env.active /\ \/ s.sendBar.state = "Idle"
                               \/ s.sendBar.state = "SendingAll"
                                  /\ s.sendBar.total # 0
               => s.sendBar.idx < s.sendBar.total)

RecvMsgSelected(s, idx) == RecvBarRefresh([s EXCEPT !.recvBar.idx = idx])

(* sigSendMsgSelected: the toolbar, then selectMsg of the list.            *)
SendMsgSelected(s, idx) ==
    LET bar == SendBarRefresh([s EXCEPT !.sendBar.idx = idx])
    IN  Assert_([bar EXCEPT !.sendList.row = idx],
                idx < Len(bar.sendList.items))

RecvListCountReport(s) ==
    RecvBarRefresh([s EXCEPT !.recvBar.total = s.mgr.recvListCount])
SendListCountReport(s) ==
    SendBarRefresh([s EXCEPT !.sendBar.total = s.mgr.sendListCount])

RecvClearSelection(s) == [s EXCEPT !.recvList.row = NoRow]
SendClearSelection(s) == [s EXCEPT !.sendList.row = NoRow]
SelectOnAdd(s, enabled) == [s EXCEPT !.recvList.selectOnAdd = enabled]

(* Mutant: the row of the new item is taken for its number.                *)
AddRecvMsg_RowOne(s, msg) ==
    [s EXCEPT !.recvList.items = Append(@, msg),
              !.recvList.row = IF s.recvList.selectOnAdd
                               THEN Len(s.recvList.items) + 1 ELSE @]

(* addMessage: the new item becomes current, without a signal, if enabled. *)
AddRecvMsg(s, msg) ==
    [s EXCEPT !.recvList.items = Append(@, msg),
              !.recvList.row = IF s.recvList.selectOnAdd
                               THEN Len(s.recvList.items) ELSE @]
AddSendMsg(s, msg) ==
    [s EXCEPT !.sendList.items = Append(@, msg),
              !.sendList.row = Len(s.sendList.items)]

ActivityStateChanged(s, active) ==
    SendBarRefresh(RecvBarRefresh([s EXCEPT !.env.active = active]))

-----------------------------------------------------------------------------
(* The functions of GuiAppMgr the handlers share.                          *)

(* Mutant: a message that waits to be displayed is not given up.           *)
DisplayMessage_KeepsPending(s, msg) == [s EXCEPT !.mgr.displayed = msg]

DisplayMessage(s, msg) ==
    [s EXCEPT !.mgr.pending = NoMsg, !.mgr.displayed = msg]

ClearDisplayedMessage(s) ==
    [s EXCEPT !.mgr.selType = "None", !.mgr.clicked = NoMsg,
              !.mgr.displayed = NoMsg]

MsgClicked(s, msg, selType) ==
    IF s.mgr.clicked = msg
    THEN SelectOnAdd(ClearDisplayedMessage(
                        Assert_(s, selType = s.mgr.selType)), TRUE)
    ELSE SelectOnAdd(DisplayMessage([s EXCEPT !.mgr.selType = selType,
                                              !.mgr.clicked = msg], msg),
                     FALSE)

(* Mutant: the other toolbar is not told.                                  *)
RecvMsgClicked_BarNotTold(s, msg, idx) ==
    LET clicked == MsgClicked(SendClearSelection(s), msg, "Recv")
    IN  IF clicked.mgr.clicked = NoMsg
        THEN RecvMsgSelected(RecvClearSelection(clicked), NoRow)
        ELSE RecvMsgSelected(clicked, idx)

RecvMsgClicked(s, msg, idx) ==
    LET clicked == MsgClicked(SendMsgSelected(SendClearSelection(s), NoRow),
                              msg, "Recv")
    IN  IF clicked.mgr.clicked = NoMsg
        THEN RecvMsgSelected(RecvClearSelection(clicked), NoRow)
        ELSE RecvMsgSelected(clicked, idx)

SendMsgClicked(s, msg, idx) ==
    LET clicked == MsgClicked(RecvMsgSelected(RecvClearSelection(s), NoRow),
                              msg, "Send")
    IN  IF clicked.mgr.clicked = NoMsg
        THEN SendMsgSelected(SendClearSelection(clicked), NoRow)
        ELSE SendMsgSelected(clicked, idx)

(* The messages the message manager still has when some are deleted.       *)
Without(msgs, deleted) ==
    LET kept[i \in 0..Len(msgs)] ==
            IF i = 0 THEN <<>>
            ELSE IF msgs[i] \in deleted THEN kept[i - 1]
            ELSE Append(kept[i - 1], msgs[i])
    IN  kept[Len(msgs)]

CanAddToRecvList(s, msg) == msg.kind \in s.mgr.recvListMode

AddMsgToRecvList(s, msg) ==
    AddRecvMsg(RecvListCountReport([s EXCEPT !.mgr.recvListCount = @ + 1]), msg)

(* msgAdded: displayed at once, or after 250 ms if others have just been,  *)
(* unless the user has selected a message.                                 *)
MsgAdded(s, msg) ==
    IF ~CanAddToRecvList(s, msg) THEN s
    ELSE LET added == AddMsgToRecvList(s, msg)
         IN  IF added.mgr.clicked # NoMsg THEN added
             ELSE IF added.mgr.pendingWait
             THEN [added EXCEPT !.mgr.pending = msg]
             ELSE [DisplayMessage(added, msg) EXCEPT !.mgr.pendingWait = TRUE]

(* A message the message manager records, and all of them in their order.  *)
Record(s, kind) ==
    LET msg == FreshMsg(s, kind)
    IN  MsgAdded([s EXCEPT !.env.allMsgs = Append(@, msg)], msg)

RecordAll(s, kinds) ==
    LET after[i \in 0..Len(kinds)] ==
            IF i = 0 THEN s ELSE Record(after[i - 1], kinds[i])
    IN  after[Len(kinds)]

(* Mutant: the count is reported before the selection is dropped.          *)
ClearRecvList_ReportFirst(s, deleted) ==
    LET counted == RecvListCountReport([s EXCEPT !.mgr.recvListCount = 0])
        cleared == IF s.mgr.selType = "Send" THEN counted
                   ELSE ClearDisplayedMessage(counted)
        told    == IF s.mgr.selType = "Recv"
                   THEN RecvMsgSelected(SelectOnAdd(cleared, TRUE), NoRow)
                   ELSE cleared
    IN  [told EXCEPT !.recvList.items = <<>>, !.recvList.row = NoRow,
                     !.env.allMsgs = Without(@, deleted)]

(* clearRecvList; deleteMessages, with what the list held, deletes from    *)
(* the message manager.                                                    *)
ClearRecvList(s, deleted) ==
    LET asserted == Assert_(s, s.mgr.selType # "None" => s.mgr.clicked # NoMsg)
        counted  == [asserted EXCEPT !.mgr.recvListCount = 0]
        cleared  == IF s.mgr.selType = "Send" THEN counted
                    ELSE ClearDisplayedMessage(counted)
        told     == IF s.mgr.selType = "Recv"
                    THEN RecvMsgSelected(SelectOnAdd(cleared, TRUE), NoRow)
                    ELSE cleared
        empty    == [RecvListCountReport(told) EXCEPT
                        !.recvList.items = <<>>, !.recvList.row = NoRow]
    IN  Assert_([empty EXCEPT !.env.allMsgs = Without(@, deleted)],
                empty.mgr.clicked \notin deleted)

(* deleteCurrentMessage of a list, signals blocked: Qt makes the item      *)
(* after it current, or the last one.                                      *)
RowAfterDelete(list) ==
    IF list.row + 1 < Len(list.items) THEN list.row ELSE list.row - 1

DeleteCurrent(list) ==
    [list EXCEPT !.items = RemoveAt(@, list.row + 1),
                 !.row = RowAfterDelete(list)]

CurrentMsg(list) == list.items[list.row + 1]

(* What refreshRecvList does with a message of the message manager: the    *)
(* one that was selected is clicked again.                                 *)
Relist(s, msg, selected) ==
    IF ~CanAddToRecvList(s, msg) THEN s
    ELSE LET added == AddMsgToRecvList(s, msg)
         IN  IF msg = selected
             THEN RecvMsgClicked(added, msg, added.mgr.recvListCount - 1)
             ELSE added

RelistAll(s, msgs, selected) ==
    LET after[i \in 0..Len(msgs)] ==
            IF i = 0 THEN s ELSE Relist(after[i - 1], msgs[i], selected)
    IN  after[Len(msgs)]

(* refreshRecvList: the selection is dropped, the list filled anew from    *)
(* the message manager, and the message clicked again if it is listed.     *)
RefreshRecvList(s) ==
    LET clickedMsg == s.mgr.clicked
        dropped ==
            IF s.mgr.selType = "Recv"
            THEN LET off == RecvMsgClicked(Assert_(s, 0 < s.mgr.recvListCount),
                                           clickedMsg, s.mgr.recvListCount - 1)
                 IN  Assert_(off, off.mgr.clicked = NoMsg)
            ELSE IF s.mgr.selType = "None"
            THEN [s EXCEPT !.mgr.displayed = NoMsg]
            ELSE s
        filled == RelistAll(ClearRecvList(dropped, {}), s.env.allMsgs, clickedMsg)
    IN  IF filled.mgr.clicked = NoMsg THEN RecvClearSelection(filled) ELSE filled

(* sendAddNewMessage: counted, listed, then clicked.                       *)
SendAddNewMessage(s, msg) ==
    LET counted == SendListCountReport([s EXCEPT !.mgr.sendListCount = @ + 1])
        clicked == SendMsgClicked(AddSendMsg(counted, msg), msg,
                                  counted.mgr.sendListCount - 1)
    IN  Assert_(clicked, clicked.mgr.selType = "Send")

(* The row a message has in a list: the first one.                         *)
RowOf(msgs, msg) ==
    CHOOSE row \in 0..(Len(msgs) - 1) :
        msgs[row + 1] = msg /\ \A i \in 1..row : msgs[i] # msg

(* sendUpdateList, given what the list of the widget has become.           *)
SendUpdateList(s) ==
    LET clickedMsg == IF s.mgr.selType = "Send" THEN s.mgr.clicked ELSE NoMsg
        off     == SendMsgClicked(Assert_(s, 0 < s.mgr.sendListCount),
                                  clickedMsg, NoRow)
        dropped == IF clickedMsg = NoMsg THEN s
                   ELSE Assert_(off, off.mgr.clicked = NoMsg)
        counted == SendListCountReport(
                    [dropped EXCEPT !.mgr.sendListCount = Len(s.sendList.items)])
    IN  IF clickedMsg \in ToSet(s.sendList.items)
        THEN SendMsgClicked(counted, clickedMsg,
                            RowOf(s.sendList.items, clickedMsg))
        ELSE counted

(* sendClearClicked: the list of the widget first.                         *)
SendClear(s) ==
    LET empty   == [s EXCEPT !.sendList.items = <<>>, !.sendList.row = NoRow]
        counted == [Assert_(empty, 0 < s.mgr.sendListCount)
                        EXCEPT !.mgr.sendListCount = 0]
        told    == IF s.mgr.selType = "Send"
                   THEN SendMsgSelected(ClearDisplayedMessage(counted), NoRow)
                   ELSE counted
    IN  SendListCountReport(told)

(* Mutant: the item put back is not made current.                          *)
MoveItem_NotCurrent(s, to) ==
    LET from  == s.sendList.row
        item  == CurrentMsg(s.sendList)
        next  == IF from + 1 < Len(s.sendList.items) THEN from + 1 ELSE from - 1
        taken == SendMsgClicked([s EXCEPT !.sendList.row = next],
                                s.sendList.items[next + 1], next)
        put   == [taken EXCEPT
                    !.sendList.items = InsertAt(RemoveAt(@, from + 1), to + 1, item)]
    IN  SendMsgSelected(put, to)

(* moveItem: taking the current item makes the next one current, which is  *)
(* a click on it, with its row of before the removal; putting the item     *)
(* back and making it current clicks it again; then the move is reported.  *)
MoveItem(s, to) ==
    LET from  == s.sendList.row
        item  == CurrentMsg(s.sendList)
        next  == IF from + 1 < Len(s.sendList.items) THEN from + 1 ELSE from - 1
        taken == SendMsgClicked([s EXCEPT !.sendList.row = next],
                                s.sendList.items[next + 1], next)
        put   == [taken EXCEPT
                    !.sendList.items = InsertAt(RemoveAt(@, from + 1), to + 1, item),
                    !.sendList.row = to]
        told  == SendMsgClicked(put, item, to)
    IN  SendMsgSelected(Assert_(told, told.mgr.selType = "Send"), to)

-----------------------------------------------------------------------------
(* Sending.                                                                *)

(* The slots of sigSetSendState: both toolbars, then the list, which is    *)
(* handed the messages to send by the sending manager's callbacks below.   *)
BarsSendState(s, state) ==
    LET recv == IF s.recvBar.sendState = state THEN s
                ELSE RecvBarRefresh([s EXCEPT !.recvBar.sendState = state])
    IN  IF s.sendBar.state = state THEN recv
        ELSE SendBarRefresh([recv EXCEPT !.sendBar.state = state])

(* sendStopClicked, which is also the callback of a completed sending.     *)
SendStopClicked(s) ==
    LET bars == BarsSendState([s EXCEPT !.mgr.sendState = "Idle",
                                        !.env.toSend = 0], "Idle")
    IN  [bars EXCEPT !.sendList.state = "Idle"]

(* The send callback, with clones of the n messages that are due: nothing  *)
(* is sent or recorded unless plugins are applied.                         *)
MsgsSent(s, n) ==
    IF ~s.env.running THEN s
    ELSE RecordAll(s, [i \in 1..n |-> "Sent"])

(* sendPendingAndWait, as the view sees it: n of the messages are sent,    *)
(* and the client is told when they were the last.                         *)
SendPending(s, n) ==
    LET sent == MsgsSent([s EXCEPT !.env.toSend = @ - n], n)
    IN  IF sent.env.toSend = 0 THEN SendStopClicked(sent) ELSE sent

(* stateChangedImpl of the list, when a sending begins: the selected       *)
(* message or all are given to the sending manager, which sends n at once. *)
StartSending(s, n) ==
    LET state == s.sendList.state
        count == IF state = "SendingSingle" THEN 1 ELSE Len(s.sendList.items)
        ready == Assert_(s, /\ state = "SendingSingle" => 0 <= s.sendList.row
                            /\ 0 < count
                            /\ s.env.toSend = 0)
    IN  SendPending([ready EXCEPT !.env.toSend = count], n)

(* Mutant: the list was connected before its toolbar.                      *)
SetSendState_ListFirst(s, state, n) ==
    BarsSendState(StartSending([s EXCEPT !.mgr.sendState = state,
                                         !.sendList.state = state], n), state)

SetSendState(s, state, n) ==
    LET bars == BarsSendState([s EXCEPT !.mgr.sendState = state], state)
    IN  StartSending([bars EXCEPT !.sendList.state = state], n)

-----------------------------------------------------------------------------
(* applyNewPlugins, in the order of its steps.                             *)

(* The plugins the user wants: whether they are others than those applied  *)
(* (needsReload), with another protocol (isProtocolChanging), some of them *)
(* applied already, and whether they create all that is needed.            *)
Wanted(s) ==
    {w \in [reload : BOOLEAN, newProtocol : BOOLEAN, kept : BOOLEAN,
            work : BOOLEAN] :
        /\ w.reload => s.env.applied
        /\ ~w.reload => w.kept = s.env.applied /\ w.newProtocol = ~s.env.applied
        /\ PluginsMayFail \/ w.work}

(* Scripts of another protocol are dropped, while they are being sent too. *)
DropScripts(s, w) ==
    IF 0 < s.mgr.sendListCount /\ w.newProtocol THEN SendClear(s) ELSE s

(* The message manager is emptied, stopped and cleared, and the plugins    *)
(* not wanted any more are unloaded.                                       *)
UnloadPlugins(s, w) ==
    LET empty == IF w.reload
                 THEN [ClearRecvList(s, {}) EXCEPT !.env.allMsgs = <<>>] ELSE s
        stopped == [Assert_(empty, s.env.running) EXCEPT !.env.running = FALSE]
    IN  IF s.env.applied
        THEN [ActivityStateChanged(stopped, FALSE) EXCEPT !.env.applied = w.kept]
        ELSE s

(* The new plugins take over, if they have a socket and a protocol.        *)
StartPlugins(s, w) ==
    IF w.work
    THEN [ActivityStateChanged([s EXCEPT !.env.running = TRUE], TRUE)
            EXCEPT !.env.applied = TRUE]
    ELSE s

ApplyNewPlugins(s, w) == StartPlugins(UnloadPlugins(DropScripts(s, w), w), w)

-----------------------------------------------------------------------------
Init ==
    /\ mgr = [selType |-> "None", clicked |-> NoMsg, recvListCount |-> 0,
              sendListCount |-> 0, sendState |-> "Idle", recvRunning |-> TRUE,
              recvListMode |-> ListedKinds, displayed |-> NoMsg,
              pending |-> NoMsg, pendingWait |-> FALSE]
    /\ recvBar = [idx |-> NoRow, total |-> 0, sendState |-> "Idle"]
    /\ sendBar = [idx |-> NoRow, total |-> 0, state |-> "Idle"]
    /\ recvList = [items |-> <<>>, row |-> NoRow, selectOnAdd |-> TRUE]
    /\ sendList = [items |-> <<>>, row |-> NoRow, state |-> "Idle"]
    /\ env = [active |-> FALSE, applied |-> FALSE, running |-> FALSE,
              allMsgs |-> <<>>, toSend |-> 0,
              dialog |-> "None", dialogMsg |-> NoMsg, ok |-> TRUE]

(* Of the buttons: the user reaches them while no dialog is open.          *)
User == env.dialog = "None"
RecvSelected == User /\ env.active /\ 0 <= recvBar.idx
SendIdle     == User /\ env.active /\ sendBar.state = "Idle"
SendSelected == SendIdle /\ 0 <= sendBar.idx

(* recvStartClicked, recvStopClicked.                                      *)
RecvStartStop ==
    /\ User /\ env.active
    /\ Become([Now EXCEPT !.mgr.recvRunning = ~@])

(* recvLoadMsgsFromFile; an unreadable file has no messages.               *)
RecvLoad ==
    /\ User /\ env.active /\ ~mgr.recvRunning
    /\ "Sent" \in mgr.recvListMode => recvBar.sendState = "Idle"
    /\ \E n \in 0..MaxRecv : \E kinds \in [1..n -> ListedKinds] :
        /\ Fit(n, Len(sendList.items))
        /\ Become(RecordAll([ClearRecvList(Now, {}) EXCEPT !.env.allMsgs = <<>>],
                            kinds))

(* recvDupClicked, also while a script is being sent.                      *)
RecvDup ==
    /\ RecvSelected
    /\ RoomForScript(1)
    /\ Become(SendAddNewMessage(Assert_(Now, mgr.selType = "Recv"),
                                FreshScript(Now)))

(* recvDeleteClicked: the selection is dropped, the list deletes its       *)
(* current item and clicks the next one, and the count is reported.        *)
RecvDelete ==
    /\ RecvSelected
    /\ LET asserted == Assert_(Now, /\ 0 < mgr.recvListCount
                                    /\ mgr.selType = "Recv"
                                    /\ 0 <= recvList.row
                                    /\ mgr.clicked \in ToSet(env.allMsgs))
           deleted == [ClearDisplayedMessage(asserted) EXCEPT
                        !.env.allMsgs = Without(@, {mgr.clicked}),
                        !.recvList = DeleteCurrent(@)]
           next    == deleted.recvList
           clicked == IF next.row < 0 THEN deleted
                      ELSE RecvMsgClicked(deleted, CurrentMsg(next), next.row)
           counted == [clicked EXCEPT !.mgr.recvListCount = @ - 1]
       IN  Become(RecvListCountReport(
                    IF counted.mgr.recvListCount = 0
                    THEN RecvMsgSelected(counted, NoRow) ELSE counted))

(* recvClearClicked: what is listed is deleted from the message manager.   *)
RecvClear ==
    /\ User /\ env.active /\ 0 < recvBar.total
    /\ Become(ClearRecvList(Assert_(Now, 0 < mgr.recvListCount),
                            ToSet(recvList.items)))

(* recvShowRecvToggled, recvShowSentToggled, recvShowGarbageToggled.       *)
UpdateRecvListMode ==
    /\ User
    /\ \E kind \in ListedKinds :
        Become(RefreshRecvList(
                [Now EXCEPT !.mgr.recvListMode =
                    IF kind \in @ THEN @ \ {kind} ELSE @ \cup {kind}]))

(* sendStartClicked, sendStartAllClicked.                                  *)
SendStart ==
    /\ SendIdle /\ 0 < sendBar.total
    /\ \E all \in BOOLEAN, n \in 0..MaxScript :
        /\ IF all THEN n <= sendBar.total ELSE 0 <= sendBar.idx /\ n <= 1
        /\ RoomForRecv(n)
        /\ Become(SetSendState(Now, IF all THEN "SendingAll" ELSE "SendingSingle",
                               n))

(* The stop buttons.                                                       *)
SendStop ==
    /\ User /\ sendBar.state # "Idle"
    /\ Become(SendStopClicked(Now))

(* sendAddNewMessage, for a message edited in a dialog or duplicated.      *)
SendAdd ==
    /\ SendIdle
    /\ RoomForScript(1)
    /\ Become(SendAddNewMessage(Now, FreshScript(Now)))

(* loadMessages and sendUpdateList: cleared first, if asked for.           *)
AddScripts(s, n) ==
    LET after[i \in 0..n] ==
            IF i = 0 THEN s ELSE AddSendMsg(after[i - 1], FreshScript(after[i - 1]))
    IN  after[n]

SendLoad ==
    /\ SendIdle
    /\ \E clear \in BOOLEAN, n \in 0..MaxScript :
        LET kept == IF clear
                    THEN [Now EXCEPT !.sendList.items = <<>>, !.sendList.row = NoRow]
                    ELSE Now
        IN  /\ clear => 0 < mgr.sendListCount
            /\ Fit(Len(env.allMsgs), Len(kept.sendList.items) + n)
            /\ Become(SendUpdateList(AddScripts(kept, n)))

(* sendEditClicked, sendCommentClicked, recvCommentClicked, and a double   *)
(* click, which selects first.                                             *)
OpenDialog(s, dialog) ==
    [Assert_(s, s.mgr.clicked # NoMsg)
        EXCEPT !.env.dialog = dialog, !.env.dialogMsg = s.mgr.clicked]

SendEdit == SendSelected /\ Become(OpenDialog(Now, "Edit"))
SendComment ==
    /\ SendSelected
    /\ Become(OpenDialog(Assert_(Now, mgr.selType = "Send"), "Comment"))
RecvComment ==
    /\ RecvSelected
    /\ Become(OpenDialog(Assert_(Now, mgr.selType = "Recv"), "Comment"))

(* sendMsgDoubleClicked, ignored while messages are being sent.            *)
SendDoubleClick ==
    /\ User /\ sendList.state = "Idle"
    /\ \E i \in DOMAIN sendList.items :
        LET msg == sendList.items[i]
            selected == IF mgr.clicked = msg THEN Now
                        ELSE SendMsgClicked(Now, msg, i - 1)
        IN  Become(OpenDialog(Assert_(selected, selected.mgr.clicked = msg), "Edit"))

(* sendUpdateMessage: the edited message takes the place of the one        *)
(* selected; msgCommentUpdated; or the dialog is cancelled.                *)
Closed(s) == [s EXCEPT !.env.dialog = "None", !.env.dialogMsg = NoMsg]

DialogDone ==
    /\ env.dialog # "None"
    /\ \/ Become(Closed(Now))
       \/ /\ env.dialog = "Comment"
          /\ Become(Closed(Assert_(Now, env.dialogMsg = mgr.clicked)))
       \/ /\ env.dialog = "Edit"
          /\ LET msg == FreshScript(Now)
                 updated == [Assert_(Now, /\ 0 < mgr.sendListCount
                                          /\ mgr.clicked # NoMsg
                                          /\ 0 <= sendList.row)
                                EXCEPT !.mgr.clicked = msg,
                                       !.sendList.items[sendList.row + 1] = msg]
             IN  Become(Closed(DisplayMessage(updated, msg)))

(* sendDeleteClicked.                                                      *)
SendDelete ==
    /\ SendSelected
    /\ LET asserted == Assert_(Now, /\ 0 < mgr.sendListCount
                                    /\ mgr.selType = "Send"
                                    /\ 0 <= sendList.row)
           deleted == [ClearDisplayedMessage(asserted) EXCEPT
                        !.sendList = DeleteCurrent(@)]
           next    == deleted.sendList
           clicked == IF next.row < 0 THEN deleted
                      ELSE SendMsgClicked(deleted, CurrentMsg(next), next.row)
           counted == [clicked EXCEPT !.mgr.sendListCount = @ - 1]
       IN  Become(SendListCountReport(
                    IF counted.mgr.sendListCount = 0
                    THEN SendMsgSelected(counted, NoRow) ELSE counted))

SendClearClicked ==
    /\ SendIdle /\ 0 < sendBar.total
    /\ Become(SendClear(Now))

(* sendTopClicked, sendUpClicked, sendDownClicked, sendBottomClicked.      *)
SendMove ==
    /\ SendIdle
    /\ \/ /\ 0 < sendBar.idx
          /\ \E to \in {0, sendList.row - 1} :
                Become(MoveItem(Assert_(Now, 0 < sendList.row), to))
       \/ /\ 0 <= sendBar.idx /\ sendBar.idx < sendBar.total - 1
          /\ \E to \in {sendList.row + 1, Len(sendList.items) - 1} :
                Become(MoveItem(Assert_(Now, sendList.row < Len(sendList.items) - 1),
                                to))

(* An item becomes current by mouse or keyboard, or the current one is     *)
(* clicked (itemClicked, currentItemChanged, processClick).                *)
ClickRecv ==
    /\ User
    /\ \E i \in DOMAIN recvList.items :
        Become(RecvMsgClicked([Now EXCEPT !.recvList.row = i - 1],
                              recvList.items[i], i - 1))
ClickSend ==
    /\ User
    /\ \E i \in DOMAIN sendList.items :
        Become(SendMsgClicked([Now EXCEPT !.sendList.row = i - 1],
                              sendList.items[i], i - 1))

(* pluginsEditDialog, with the plugins the user has chosen.                *)
Apply ==
    /\ User
    /\ \E w \in Wanted(Now) : Become(ApplyNewPlugins(Now, w))

(* What happens whether a dialog is open or not.                           *)
MsgReceived ==
    /\ env.running /\ mgr.recvRunning
    /\ RoomForRecv(1)
    /\ \E kind \in ListedKinds \ {"Sent"} : Become(Record(Now, kind))

SendTimeout ==
    /\ 0 < env.toSend
    /\ RoomForRecv(1)
    /\ Become(SendPending(Now, 1))

PendingDisplayTimeout ==
    /\ mgr.pendingWait
    /\ LET done == [Now EXCEPT !.mgr.pendingWait = FALSE]
       IN  Become(IF mgr.pending = NoMsg THEN done
                  ELSE DisplayMessage(done, mgr.pending))

Next ==
    \/ RecvStartStop
    \/ RecvLoad
    \/ RecvDup
    \/ RecvDelete
    \/ RecvClear
    \/ UpdateRecvListMode
    \/ SendStart
    \/ SendStop
    \/ SendAdd
    \/ SendLoad
    \/ SendEdit
    \/ SendComment
    \/ RecvComment
    \/ SendDoubleClick
    \/ DialogDone
    \/ SendDelete
    \/ SendClearClicked
    \/ SendMove
    \/ ClickRecv
    \/ ClickSend
    \/ Apply
    \/ MsgReceived
    \/ SendTimeout
    \/ PendingDisplayTimeout

Spec == Init /\ [][Next]_vars

-----------------------------------------------------------------------------
Rows(list) == NoRow..(Len(list.items) - 1)

TypeOK ==
    /\ mgr.selType \in Selection
    /\ mgr.clicked \in Listed \cup Scripts \cup {NoMsg}
    /\ mgr.recvListMode \in SUBSET ListedKinds
    /\ {mgr.sendState, recvBar.sendState, sendBar.state, sendList.state}
            \subseteq SendState
    /\ recvList.items \in Seq(Listed)
    /\ sendList.items \in Seq(Scripts)
    /\ recvList.row \in Rows(recvList)
    /\ sendList.row \in Rows(sendList)
    /\ env.allMsgs \in Seq(Listed)
    /\ env.toSend \in 0..MaxScript
    /\ env.dialog \in {"None", "Edit", "Comment"}

(* Every assertion of the application that states what its objects know of *)
(* each other holds, inside nested signals too: a toolbar is never told of *)
(* a selected row beyond its count, a message is clicked, deleted, moved,  *)
(* edited or commented only where it is selected, nothing is sent before   *)
(* the previous sending has ended, the message manager is stopped once.    *)
AssertsHold == env.ok

(* The manager, the list and the toolbar agree on what is selected: the    *)
(* list of the selected message has it as its current item, its toolbar    *)
(* holds that row, and the other toolbar holds none. What a button does is *)
(* done to the current item of a list, and to the message the manager      *)
(* holds.                                                                  *)
ListSelects(list, bar) ==
    /\ list.row = bar.idx
    /\ 0 <= list.row
    /\ CurrentMsg(list) = mgr.clicked

SelectionConsistent ==
    /\ mgr.selType = "None" <=> mgr.clicked = NoMsg
    /\ IF mgr.selType = "Recv" THEN ListSelects(recvList, recvBar)
       ELSE recvBar.idx = NoRow
    /\ IF mgr.selType = "Send" THEN ListSelects(sendList, sendBar)
       ELSE sendBar.idx = NoRow

(* The counts kept by the manager and the toolbars are those of the lists. *)
CountsAgree ==
    /\ {mgr.recvListCount, recvBar.total} = {Len(recvList.items)}
    /\ {mgr.sendListCount, sendBar.total} = {Len(sendList.items)}

(* Everybody has the same idea of what is being sent, also after a sending *)
(* that completes inside the signal that announces it, and the sending     *)
(* manager is at work exactly as long as the buttons offer to stop it.     *)
SendStatesAgree ==
    /\ {recvBar.sendState, sendBar.state, sendList.state} = {mgr.sendState}
    /\ mgr.sendState # "Idle" <=> 0 < env.toSend

(* What the manager, the toolbars and the lists know of each other, beside *)
(* the selection: how much there is, and what is being sent.               *)
PartsAgree == CountsAgree /\ SendStatesAgree

(* What is displayed is what the user has selected, and no message waits   *)
(* to replace it; one that waits has its timer running.                    *)
SelectionIsDisplayed ==
    /\ mgr.clicked # NoMsg => /\ mgr.displayed = mgr.clicked
                              /\ mgr.pending = NoMsg
    /\ mgr.pending # NoMsg => mgr.pendingWait

(* The user moves the selected message, and it stays the selected one,     *)
(* though taking it out of the list has clicked another.                   *)
MoveKeepsSelection ==
    [][SendMove => /\ mgr'.clicked = mgr.clicked
                   /\ ToSet(sendList'.items) = ToSet(sendList.items)]_vars
=============================================================================
